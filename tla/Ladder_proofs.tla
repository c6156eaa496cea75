--------------------------- MODULE Ladder_proofs ---------------------------
(***************************************************************************)
(* Proofs about the decision engine: for any addresses, rungs, windows and *)
(* callers, the properties of LdSafe hold.                                 *)
(*                                                                         *)
(* None of them is inductive. What they share is the strike lock           *)
(* (LdLockOK): between the guard and the deferred unlock an evaluation has *)
(* its address for itself, so the strike count it read is still the one on *)
(* record. Beside it, the window remembers how old the counted bans are    *)
(* (LdWindowOK), the count of suppressed events tells a replaced ban row   *)
(* from the one the guard read (LdDiagOK), a ban that counts events has an *)
(* offender row unless a call failed (LdLoudOK), and an edge in memory is  *)
(* backed by an audit row or by somebody who writes it (LdEdgesOK).        *)
(*                                                                         *)
(* At the end, `ezyshield update` (Update): what a run knows at each step  *)
(* of the release it is installing (UpRunOK), and the setup commands       *)
(* (Setup): what a command has left on disk by the time it is at a step    *)
(* (SuCommandOK, SuDiskOK) and what .env will hold once the write in       *)
(* progress is through (SuLinesOK, SuHeldOK).                              *)
(***************************************************************************)
EXTENDS Ladder, Update, Setup, FiniteSetTheorems, TLAPS

LdRowType == [at : Nat, until : Nat, strike : Nat, dry : BOOLEAN, total : Nat, after : Nat, fired : BOOLEAN,
              last : Nat]
LdEdgeType == [rule : LdRules \cup {"none"}, at : Nat]
LdSayings == {"leak", "permanent"}
LdPhases == {"none", "post_grace", "in_grace"}
LdCallType == [at : LdAts, ip : LdIPs, rule : LdRules \cup {"none"}, since : Nat, n : Nat, phase : LdPhases,
               strike : Nat, ttl : Nat, dry : BOOLEAN, says : SUBSET LdSayings]
LdPassType == [win : Nat, nth : Nat, at : Nat]

\* The variables have their types.
LdShape ==
    /\ ldScene \in LdScenes
    /\ ldNow \in 0..ldScene.time /\ ldArmed \in BOOLEAN /\ ldFaults \in 0..ldScene.faults
    /\ ldRow \in [LdIPs -> LdRowType] /\ ldStrikes \in [LdIPs -> Nat]
    /\ ldKnown \cup ldHad \cup ldVerb \cup ldLeaky \cup ldBlind \subseteq LdIPs
    /\ ldTrail \in [LdIPs -> [LdRules -> 0..ldScene.time \cup {LdNever}]]
    /\ ldWin \in [start : Nat, n : Nat] /\ ldEdges \in [LdIPs -> LdEdgeType]
    /\ ldPasses \subseteq LdPassType
    /\ ldCall \in [LdCallers -> LdCallType]

\* checkRateLimit's window: a ban that counts belongs to it or to the one
\* window before it that is not forgotten, where it has a number of its own.
LdWindowOK ==
    /\ ldWin.start <= ldNow
    /\ \A p \in ldPasses :
          /\ p.nth \in 1..ldScene.cap
          /\ p.win <= p.at /\ p.at <= p.win + LdWindow
          /\ p.at + LdWindow >= ldNow
          /\ IF p.win = ldWin.start THEN p.nth <= ldWin.n ELSE p.win + LdWindow < ldWin.start
    /\ \A p, q \in ldPasses :
          /\ p.win # ldWin.start /\ q.win # ldWin.start => p.win = q.win
          /\ p.win = q.win /\ p.nth = q.nth => p = q

\* An evaluation holds the strike lock of its address.
LdFree == {"idle", "audit", "unaudited", "quiet"}
LdHeld(c) == ldCall[c].at \notin LdFree

LdLockOK ==
    /\ \A c, d \in LdCallers : LdHeld(c) /\ LdHeld(d) /\ LdIp(c) = LdIp(d) => c = d
    /\ \A c \in LdCallers : LdHeld(c) /\ ldCall[c].at \notin {"clear", "return"} => ldStrikes[LdIp(c)] < LdMaxStrikes
    /\ \A c \in LdCallers : ldCall[c].at \in {"rate", "had", "record"} =>
          ldCall[c].strike = ldStrikes[LdIp(c)] + 1 /\ ldCall[c].ttl = LdRung(ldCall[c].strike)
    /\ \A i \in LdIPs : ldStrikes[i] <= LdMaxStrikes

\* The diagnosis: a row other than the one the guard read has counted nothing
\* before this event, and so cannot be the one whose count passed the floor.
LdDiagCaller(c) ==
    /\ ldCall[c].at = "track" => LET r == ldRow[LdIp(c)] IN r.at = ldCall[c].since \/ r.total = 0
    /\ ldCall[c].at = "mark" =>
          /\ ldCall[c].phase # "none"
          /\ ldCall[c].phase = "post_grace" =>
                /\ ldCall[c].n >= 2 /\ ldNow >= ldCall[c].since + LdGrace
                /\ ldRow[LdIp(c)].total = ldCall[c].n => ldRow[LdIp(c)].at = ldCall[c].since
          /\ ldCall[c].phase = "in_grace" => LdMinIn > 0 /\ ldCall[c].n >= LdMinIn
LdDiagOK ==
    /\ \A i \in LdIPs : ldRow[i].after <= ldRow[i].total
    /\ \A c \in LdCallers : LdDiagCaller(c)

\* An address with an ineffective ban has it on its offender row, and a
\* permanent ban in the making has read it there.
LdLoudOK ==
    /\ \A i \in LdIPs : ldRow[i].total > 0 =>
          \/ i \in ldKnown \cup ldBlind
          \/ \E c \in LdCallers : ldCall[c].at = "bump" /\ LdIp(c) = i
    /\ \A c \in LdCallers : ldCall[c].at = "mark" => LdIp(c) \in ldKnown \cup ldBlind
    /\ ldLeaky \subseteq ldHad \cup ldBlind
    /\ \A c \in LdCallers :
          ldCall[c].at = "record" /\ ldCall[c].ttl = 0 /\ LdIp(c) \in ldLeaky \ ldBlind => "permanent" \in ldCall[c].says

\* An edge in memory: its audit row is not older, or somebody is about to
\* write it or to clear the edge.
LdCovered(i) ==
    \/ ldTrail[i][ldEdges[i].rule] # LdNever /\ ldEdges[i].at <= ldTrail[i][ldEdges[i].rule]
    \/ \E c \in LdCallers : ldCall[c].at = "audit" /\ LdIp(c) = i /\ ldCall[c].rule = ldEdges[i].rule
    \/ \E c \in LdCallers : ldCall[c].at = "unaudited" /\ LdIp(c) = i
LdEdgesOK ==
    /\ Cardinality({i \in LdIPs : ldEdges[i] # LdNoEdge}) <= LdEdgeCap
    /\ \A i \in LdIPs : ldEdges[i].rule # "none" => LdCovered(i) /\ ldEdges[i].at <= ldNow
    /\ \A c \in LdCallers : ldCall[c].at = "audit" => ldCall[c].rule \in LdRules

LdIndInv == LdShape /\ LdWindowOK /\ LdLockOK /\ LdDiagOK /\ LdEdgesOK

---------------------------------------------------------------------------
(* What the records of the model hold.                                     *)

LEMMA LdNoRowIs ==
    /\ LdNoRow \in LdRowType
    /\ LdNoRow.at = 0 /\ LdNoRow.until = 0 /\ LdNoRow.strike = 0 /\ LdNoRow.total = 0 /\ LdNoRow.after = 0
<1>1. 0 \in Nat /\ LdNever \in Nat /\ FALSE \in BOOLEAN
  BY LdAssumption
<1> QED
  BY <1>1, Zenon DEF LdNoRow, LdRowType

LEMMA LdRowIs ==
    ASSUME NEW ttl \in Nat, NEW strike \in Nat, NEW dry \in BOOLEAN, ldNow \in Nat
    PROVE  LET r == LdRow(ttl, strike, dry)
           IN  /\ r \in LdRowType /\ r.total = 0 /\ r.after = 0 /\ r.strike = strike
               /\ r.until = (IF ttl = 0 THEN LdNever ELSE ldNow + ttl)
<1> DEFINE u == IF ttl = 0 THEN LdNever ELSE ldNow + ttl
           r == LdRow(ttl, strike, dry)
<1>1. u \in Nat /\ LdNever \in Nat
  BY LdAssumption
<1> HIDE DEF u
<1>2. r = [LdNoRow EXCEPT !.at = ldNow, !.until = u, !.strike = strike, !.dry = dry]
  BY DEF LdRow, u
<1>3. r \in LdRowType /\ r.total = 0 /\ r.after = 0 /\ r.strike = strike /\ r.until = u
  BY <1>1, <1>2, LdNoRowIs DEF LdRowType
<1> QED
  BY <1>3 DEF u

\* An event that is counted: the row it is counted on stays the same row.
LEMMA LdCountedIs ==
    ASSUME NEW r \in LdRowType, NEW after \in BOOLEAN, ldNow \in Nat
    PROVE  LET s == LdCounted(r, after)
           IN  /\ s \in LdRowType /\ s.at = r.at /\ s.until = r.until /\ s.strike = r.strike
               /\ s.total = r.total \/ s.total = r.total + 1
               /\ r.after <= r.total => s.after <= s.total
<1> DEFINE rearmed == r.fired /\ (r.last = LdNever \/ r.last + LdRearm < ldNow)
           base == IF rearmed THEN [r EXCEPT !.fired = FALSE, !.after = 0] ELSE r
           one == IF after THEN 1 ELSE 0
           s == [base EXCEPT !.total = @ + 1, !.after = @ + one, !.last = ldNow]
<1>1. [r EXCEPT !.fired = FALSE, !.after = 0] \in LdRowType
  BY DEF LdRowType
<1>2. base \in LdRowType /\ base.at = r.at /\ base.until = r.until /\ base.strike = r.strike
      /\ base.total = r.total /\ base.after \in {0, r.after}
  BY <1>1 DEF LdRowType
<1>3. one \in {0, 1}
  OBVIOUS
<1> HIDE DEF base, one
<1> DEFINE tot == base.total + 1
           aft == base.after + one
<1>4. s = [base EXCEPT !.total = tot, !.after = aft, !.last = ldNow]
  OBVIOUS
<1>5. tot \in Nat /\ aft \in Nat /\ tot = r.total + 1
  BY <1>2, <1>3 DEF LdRowType
<1> HIDE DEF s, tot, aft
<1>6. s \in LdRowType /\ s.at = r.at /\ s.until = r.until /\ s.strike = r.strike
       /\ s.total = tot /\ s.after = aft
  BY <1>2, <1>4, <1>5 DEF LdRowType
<1>7. s \in LdRowType /\ s.at = r.at /\ s.until = r.until /\ s.strike = r.strike
      /\ s.total = r.total + 1 /\ s.after = base.after + one
  BY <1>5, <1>6 DEF aft
<1>8. LdCounted(r, after) = IF r = LdNoRow THEN r ELSE s
  BY DEF LdCounted, base, one, s
<1>9. r.total \in Nat /\ r.after \in Nat
  BY DEF LdRowType
<1>10. r.after <= r.total => s.after <= s.total
  BY <1>2, <1>3, <1>7, <1>9
<1> QED
  BY <1>7, <1>8, <1>10

LEMMA LdFiredIs ==
    ASSUME NEW r \in LdRowType
    PROVE  LET s == [r EXCEPT !.fired = TRUE]
           IN  /\ s \in LdRowType /\ s.at = r.at /\ s.until = r.until /\ s.strike = r.strike
               /\ s.total = r.total /\ s.after = r.after
  BY DEF LdRowType

LEMMA LdIdleIs ==
    LdIdle \in LdCallType /\ LdIdle.at = "idle" /\ LdIdle.says = {} /\ LdIdle.ip \in LdIPs
<1>1. (CHOOSE i \in LdIPs : TRUE) \in LdIPs
  BY LdAssumption
<1>2. LdIdle.at = "idle" /\ LdIdle.says = {} /\ LdIdle.ip = CHOOSE i \in LdIPs : TRUE
  BY DEF LdIdle
<1>3. /\ "idle" \in LdAts /\ "none" \in LdRules \cup {"none"} /\ 0 \in Nat /\ "none" \in LdPhases /\ FALSE \in BOOLEAN
      /\ {} \in SUBSET LdSayings
  BY DEF LdAts, LdPhases
<1>4. LdIdle \in LdCallType
  BY <1>1, <1>3, Zenon DEF LdIdle, LdCallType
<1> QED
  BY <1>1, <1>2, <1>4

LEMMA LdAtIs ==
    ASSUME NEW r \in LdCallType, NEW at \in LdAts
    PROVE  LET s == [r EXCEPT !.at = at]
           IN  /\ s \in LdCallType /\ s.at = at /\ s.ip = r.ip /\ s.rule = r.rule /\ s.since = r.since /\ s.n = r.n
               /\ s.phase = r.phase /\ s.strike = r.strike /\ s.ttl = r.ttl /\ s.says = r.says
  BY DEF LdCallType

LEMMA LdBeginIs ==
    ASSUME NEW at \in LdAts, NEW i \in LdIPs
    PROVE  LET s == [LdIdle EXCEPT !.at = at, !.ip = i]
           IN  s \in LdCallType /\ s.at = at /\ s.ip = i
  BY LdIdleIs DEF LdCallType

\* Every strike has a rung.
LEMMA LdRungIs == ASSUME NEW s \in Nat \ {0} PROVE LdRung(s) \in Nat
<1>1. LdTTLs \in Seq(Nat) /\ LdTTLs # <<>>
  BY LdAssumption
<1>2. Len(LdTTLs) \in Nat \ {0} /\ \A k \in 1 .. Len(LdTTLs) : LdTTLs[k] \in Nat
  BY <1>1
<1>3. (IF s > Len(LdTTLs) THEN Len(LdTTLs) ELSE s) \in 1 .. Len(LdTTLs)
  BY <1>2
<1> QED
  BY <1>2, <1>3 DEF LdRung

LEMMA LdSceneIs ==
    ASSUME LdShape
    PROVE  /\ ldNow \in Nat /\ ldScene.time \in Nat /\ ldNow <= ldScene.time /\ ldScene.time < LdNever /\ LdNever \in Nat
           /\ ldScene.cap \in Nat \ {0} /\ ldScene.ips \subseteq LdIPs /\ ldScene.callers \subseteq LdCallers
           /\ ldScene.faults \in Nat /\ ldFaults \in 0..ldScene.faults
           /\ \A k \in DOMAIN LdTTLs : LdTTLs[k] \in Nat /\ ldScene.time + LdTTLs[k] < LdNever
<1>1. /\ ldScene \in [ips : SUBSET LdIPs, callers : SUBSET LdCallers, env : SUBSET {"verbs", "strike", "notify"},
                      cap : Nat \ {0}, time : 0..LdNever, faults : Nat]
      /\ \A k \in DOMAIN LdTTLs : ldScene.time + LdTTLs[k] < LdNever
      /\ LdNever \in Nat
  BY LdAssumption DEF LdShape
<1>2. /\ ldScene.cap \in Nat \ {0} /\ ldScene.ips \subseteq LdIPs /\ ldScene.callers \subseteq LdCallers
      /\ ldScene.time \in 0..LdNever /\ ldScene.faults \in Nat
  BY <1>1
<1>3. \A k \in DOMAIN LdTTLs : LdTTLs[k] \in Nat
  BY LdAssumption
<1>4. 1 \in DOMAIN LdTTLs
  BY LdAssumption
<1>5. ldScene.time < LdNever
  BY <1>1, <1>2, <1>3, <1>4
<1> QED
  BY <1>1, <1>2, <1>3, <1>5 DEF LdShape

---------------------------------------------------------------------------
(* What the steps of an evaluation do to it.                               *)

\* Only caller c moves.
LdMoved(c) ==
    /\ ldCall' \in [LdCallers -> LdCallType]
    /\ \A d \in LdCallers : d # c => ldCall'[d] = ldCall[d]
\* It keeps all it carries.
LdKeeps(c) ==
    /\ ldCall'[c].ip = ldCall[c].ip /\ ldCall'[c].rule = ldCall[c].rule /\ ldCall'[c].since = ldCall[c].since
    /\ ldCall'[c].n = ldCall[c].n /\ ldCall'[c].phase = ldCall[c].phase /\ ldCall'[c].strike = ldCall[c].strike
    /\ ldCall'[c].ttl = ldCall[c].ttl /\ ldCall'[c].says = ldCall[c].says

LEMMA LdGoesMoves ==
    ASSUME LdShape, NEW c \in LdCallers, NEW rec \in LdCallType, LdGoes(c, rec)
    PROVE  LdMoved(c) /\ ldCall'[c] = rec
  BY DEF LdShape, LdGoes, LdMoved

LEMMA LdToMoves ==
    ASSUME LdShape, NEW c \in LdCallers, NEW at \in LdAts, LdTo(c, at)
    PROVE  LdMoved(c) /\ LdKeeps(c) /\ ldCall'[c].at = at
<1> DEFINE rec == [ldCall[c] EXCEPT !.at = at]
<1>1. ldCall[c] \in LdCallType
  BY DEF LdShape
<1>2. /\ rec \in LdCallType /\ rec.at = at /\ rec.ip = ldCall[c].ip /\ rec.rule = ldCall[c].rule
      /\ rec.since = ldCall[c].since /\ rec.n = ldCall[c].n /\ rec.phase = ldCall[c].phase
      /\ rec.strike = ldCall[c].strike /\ rec.ttl = ldCall[c].ttl /\ rec.says = ldCall[c].says
  BY <1>1, LdAtIs
<1>3. LdGoes(c, rec)
  BY DEF LdTo
<1> HIDE DEF rec
<1> QED
  BY <1>2, <1>3, LdGoesMoves DEF LdKeeps

LEMMA LdLockMoves ==
    ASSUME LdShape, NEW c \in LdCallers, NEW i \in LdIPs, LdLock(c, i)
    PROVE  /\ LdMoved(c) /\ ldCall'[c].at = "guard" /\ ldCall'[c].ip = i
           /\ ldCall[c].at = "idle" /\ LdLockFree(i) /\ ldStrikes[i] < LdMaxStrikes
<1> DEFINE rec == [LdIdle EXCEPT !.at = "guard", !.ip = i]
<1>1. rec \in LdCallType /\ rec.at = "guard" /\ rec.ip = i
  BY LdBeginIs DEF LdAts
<1>2. LdGoes(c, rec) /\ ldCall[c] = LdIdle
  BY DEF LdLock
<1> HIDE DEF rec
<1> QED
  BY <1>1, <1>2, LdGoesMoves, LdIdleIs DEF LdLock

LEMMA LdGuardMoves ==
    ASSUME LdShape, NEW c \in LdCallers, LdGuard(c)
    PROVE  /\ LdMoved(c) /\ ldCall'[c].ip = LdIp(c) /\ ldCall[c].at = "guard"
           /\ \/ ldCall'[c].at = "count"
              \/ ldCall'[c].at = "track" /\ ldCall'[c].since = ldRow[LdIp(c)].at
<1>1. ldCall[c] \in LdCallType /\ LdIp(c) \in LdIPs
  BY DEF LdShape, LdCallType, LdIp
<1>2. ldRow[LdIp(c)].at \in Nat
  BY <1>1 DEF LdShape, LdRowType
<1> DEFINE t == ldRow[LdIp(c)].at
           rec == [ldCall[c] EXCEPT !.at = "track", !.since = t]
<1>4. ldCall[c].at = "guard" /\ (LdGoes(c, rec) \/ LdTo(c, "count")) /\ t \in Nat
  BY <1>2 DEF LdGuard
<1> HIDE DEF t
<1>3. rec \in LdCallType /\ rec.at = "track" /\ rec.ip = ldCall[c].ip /\ rec.since = t
  <2>1. "track" \in LdAts
    BY DEF LdAts
  <2> QED
    BY <1>1, <1>4, <2>1 DEF LdCallType
<1> HIDE DEF rec
<1>5. CASE LdGoes(c, rec)
  BY <1>3, <1>4, <1>5, LdGoesMoves DEF t, LdIp
<1>6. CASE LdTo(c, "count")
  <2>1. "count" \in LdAts
    BY DEF LdAts
  <2> QED
    BY <1>4, <1>6, <2>1, LdToMoves DEF LdKeeps, LdIp
<1> QED
  BY <1>4, <1>5, <1>6

\* The row an event is counted on, and the verdict.
LEMMA LdTrackMoves ==
    ASSUME LdShape, NEW c \in LdCallers, LdTrack(c)
    PROVE  LET i == LdIp(c) r == ldRow'[i] s == ldCall'[c]
           IN  /\ LdMoved(c) /\ ldCall[c].at = "track" /\ s.ip = i /\ s.since = ldCall[c].since
               /\ s.n = r.total /\ s.at \in {"mark", "bump"}
               /\ ldRow' \in [LdIPs -> LdRowType] /\ \A j \in LdIPs : j # i => ldRow'[j] = ldRow[j]
               /\ r.at = ldRow[i].at /\ (r.total = ldRow[i].total \/ r.total = ldRow[i].total + 1)
               /\ ldRow[i].after <= ldRow[i].total => r.after <= r.total
               /\ s.at = "mark" =>
                     /\ s.phase # "none"
                     /\ s.phase = "post_grace" => r.after >= 2 /\ ldNow >= s.since + LdGrace
                     /\ s.phase = "in_grace" => LdMinIn > 0 /\ r.total - r.after >= LdMinIn
<1> DEFINE i == LdIp(c)
           after == ldNow >= ldCall[c].since + LdGrace
           r == LdCounted(ldRow[i], after)
           ph == LdPhase(r, after)
           at == IF ph = "none" THEN "bump" ELSE "mark"
           tot == r.total
           rec == [ldCall[c] EXCEPT !.n = tot, !.phase = ph, !.at = at]
<1>1. ldCall[c] \in LdCallType /\ i \in LdIPs /\ ldNow \in Nat /\ ldCall[c].since \in Nat
  BY LdSceneIs DEF LdShape, LdCallType, LdIp
<1>2. ldRow[i] \in LdRowType
  BY <1>1 DEF LdShape
<1>3. after \in BOOLEAN
  OBVIOUS
<1> HIDE DEF i, after
<1>4. /\ r \in LdRowType /\ r.at = ldRow[i].at /\ (r.total = ldRow[i].total \/ r.total = ldRow[i].total + 1)
      /\ ldRow[i].after <= ldRow[i].total => r.after <= r.total
  BY <1>1, <1>2, <1>3, LdCountedIs
<1>5. LdTrack(c) => ldCall[c].at = "track" /\ ldRow' = [ldRow EXCEPT ![i] = r] /\ LdGoes(c, rec)
  BY DEF LdTrack, i, after
<1> HIDE DEF r
<1>6. /\ ph \in LdPhases
      /\ ph = "post_grace" => after /\ r.after >= LdMinEvents
      /\ ph = "in_grace" => LdMinIn > 0 /\ r.total - r.after >= LdMinIn
  BY DEF LdPhase, LdPhases
<1>7. LdMinEvents >= 2 /\ LdMinEvents \in Nat
  BY LdAssumption DEF LdMinEvents
<1>8. r.total \in Nat /\ r.after \in Nat /\ tot \in Nat /\ tot = r.total
  BY <1>4 DEF LdRowType
<1> HIDE DEF ph
<1>9. at \in LdAts /\ at \in {"mark", "bump"} /\ (at = "mark" => ph # "none")
  BY DEF LdAts
<1> HIDE DEF at, tot
<1>10. rec \in LdCallType /\ rec.at = at /\ rec.ip = ldCall[c].ip /\ rec.since = ldCall[c].since
       /\ rec.n = tot /\ rec.phase = ph
  BY <1>1, <1>6, <1>8, <1>9 DEF LdCallType
<1> HIDE DEF rec
<1>11. LdMoved(c) /\ ldCall'[c] = rec
  BY <1>5, <1>10, LdGoesMoves
<1>12. ldRow' \in [LdIPs -> LdRowType] /\ ldRow'[i] = r /\ \A j \in LdIPs : j # i => ldRow'[j] = ldRow[j]
  BY <1>1, <1>4, <1>5 DEF LdShape
<1>13. ph = "post_grace" => r.after >= 2 /\ ldNow >= ldCall[c].since + LdGrace
  BY <1>6, <1>7, <1>8 DEF after
<1>14. ldCall[c].ip = i
  BY DEF i, LdIp
<1> QED
  BY <1>4, <1>5, <1>6, <1>8, <1>9, <1>10, <1>11, <1>12, <1>13, <1>14 DEF i

LEMMA LdMarkMoves ==
    ASSUME LdShape, NEW c \in LdCallers, LdMark(c)
    PROVE  LET i == LdIp(c) s == ldCall'[c]
           IN  /\ LdMoved(c) /\ ldCall[c].at = "mark" /\ s.ip = i /\ s.at = "bump"
               /\ ldRow' \in [LdIPs -> LdRowType]
               /\ \A j \in LdIPs : ldRow'[j].at = ldRow[j].at /\ ldRow'[j].total = ldRow[j].total
                                   /\ ldRow'[j].after = ldRow[j].after
               /\ \/ ldHad' = ldHad /\ ldLeaky' = ldLeaky
                  \/ ldHad' = ldHad \cup ({i} \cap ldKnown) /\ ldLeaky' = ldLeaky \cup {i}
<1> DEFINE i == LdIp(c)
           fires == ldRow[i] # LdNoRow /\ ~ldRow[i].fired
           says == IF fires THEN ldCall[c].says \cup {"leak"} ELSE ldCall[c].says
           rec == [ldCall[c] EXCEPT !.at = "bump", !.says = says]
<1>1. ldCall[c] \in LdCallType /\ i \in LdIPs /\ "bump" \in LdAts
  BY DEF LdShape, LdCallType, LdIp, LdAts
<1>2. says \in SUBSET LdSayings
  BY <1>1 DEF LdCallType, LdSayings
<1>3. /\ ldCall[c].at = "mark" /\ LdGoes(c, rec)
      /\ ldRow' = (IF fires THEN [ldRow EXCEPT ![i].fired = TRUE] ELSE ldRow)
      /\ ldHad' = ldHad \cup (IF fires THEN {i} \cap ldKnown ELSE {})
      /\ ldLeaky' = ldLeaky \cup (IF fires THEN {i} ELSE {})
  BY DEF LdMark
<1> HIDE DEF i, fires, says
<1>4. rec \in LdCallType /\ rec.at = "bump" /\ rec.ip = ldCall[c].ip
  BY <1>1, <1>2 DEF LdCallType
<1> HIDE DEF rec
<1>5. LdMoved(c) /\ ldCall'[c] = rec
  BY <1>3, <1>4, LdGoesMoves
<1>6. /\ ldRow' \in [LdIPs -> LdRowType]
      /\ \A j \in LdIPs : ldRow'[j].at = ldRow[j].at /\ ldRow'[j].total = ldRow[j].total
                          /\ ldRow'[j].after = ldRow[j].after
  <2>1. CASE ~fires
    BY <1>3, <2>1 DEF LdShape
  <2>2. CASE fires
    <3> DEFINE s == [ldRow[i] EXCEPT !.fired = TRUE]
    <3>1. ldRow[i] \in LdRowType /\ ldRow' = [ldRow EXCEPT ![i] = s]
      BY <1>1, <1>3, <2>2 DEF LdShape
    <3>2. s \in LdRowType /\ s.at = ldRow[i].at /\ s.total = ldRow[i].total /\ s.after = ldRow[i].after
      BY <3>1, LdFiredIs
    <3> HIDE DEF s
    <3> QED
      BY <1>1, <3>1, <3>2 DEF LdShape
  <2> QED
    BY <2>1, <2>2
<1>7. \/ ldHad' = ldHad /\ ldLeaky' = ldLeaky
      \/ ldHad' = ldHad \cup ({i} \cap ldKnown) /\ ldLeaky' = ldLeaky \cup {i}
  BY <1>3
<1>8. ldCall[c].ip = i
  BY DEF i, LdIp
<1> QED
  BY <1>3, <1>4, <1>5, <1>6, <1>7, <1>8 DEF i

LEMMA LdCountMoves ==
    ASSUME LdShape, NEW c \in LdCallers, LdCount(c)
    PROVE  LET s == ldCall'[c]
           IN  /\ LdMoved(c) /\ ldCall[c].at = "count" /\ s.at = "rate" /\ s.ip = LdIp(c)
               /\ s.strike = ldStrikes[LdIp(c)] + 1 /\ s.ttl = LdRung(s.strike)
<1> DEFINE n == ldStrikes[LdIp(c)] + 1
           ttl == LdRung(n)
           dry == ~ldArmed
           rec == [ldCall[c] EXCEPT !.at = "rate", !.strike = n, !.ttl = ttl, !.dry = dry]
<1>1. ldCall[c] \in LdCallType /\ LdIp(c) \in LdIPs /\ "rate" \in LdAts
  BY DEF LdShape, LdCallType, LdIp, LdAts
<1>2. n \in Nat \ {0}
  BY <1>1 DEF LdShape
<1>3. ldCall[c].at = "count" /\ LdGoes(c, rec)
  BY DEF LdCount
<1>4. dry \in BOOLEAN
  OBVIOUS
<1> HIDE DEF n, dry
<1>5. ttl \in Nat
  BY <1>2, LdRungIs
<1>6. ttl = LdRung(n)
  OBVIOUS
<1> HIDE DEF ttl
<1>7. rec \in LdCallType /\ rec.at = "rate" /\ rec.ip = ldCall[c].ip /\ rec.strike = n /\ rec.ttl = ttl
  BY <1>1, <1>2, <1>4, <1>5 DEF LdCallType
<1> HIDE DEF rec
<1>8. LdMoved(c) /\ ldCall'[c] = rec
  BY <1>3, <1>7, LdGoesMoves
<1> QED
  BY <1>3, <1>6, <1>7, <1>8 DEF n, LdIp

LEMMA LdHadMoves ==
    ASSUME LdShape, NEW c \in LdCallers, LdHadRead(c)
    PROVE  LET s == ldCall'[c]
           IN  /\ LdMoved(c) /\ ldCall[c].at = "had" /\ s.at = "record" /\ s.ip = LdIp(c)
               /\ s.strike = ldCall[c].strike /\ s.ttl = ldCall[c].ttl
               /\ LdIp(c) \in ldHad => "permanent" \in s.says
<1> DEFINE says == IF LdIp(c) \in ldHad THEN ldCall[c].says \cup {"permanent"} ELSE ldCall[c].says
           rec == [ldCall[c] EXCEPT !.at = "record", !.says = says]
<1>1. ldCall[c] \in LdCallType /\ "record" \in LdAts
  BY DEF LdShape, LdAts
<1>2. says \in SUBSET LdSayings /\ (LdIp(c) \in ldHad => "permanent" \in says)
  BY <1>1 DEF LdCallType, LdSayings
<1>3. ldCall[c].at = "had" /\ LdGoes(c, rec)
  BY DEF LdHadRead
<1> HIDE DEF says
<1>4. rec \in LdCallType /\ rec.at = "record" /\ rec.ip = ldCall[c].ip /\ rec.strike = ldCall[c].strike
      /\ rec.ttl = ldCall[c].ttl /\ rec.says = says
  BY <1>1, <1>2 DEF LdCallType
<1> HIDE DEF rec
<1>5. LdMoved(c) /\ ldCall'[c] = rec
  BY <1>3, <1>4, LdGoesMoves
<1> QED
  BY <1>2, <1>3, <1>4, <1>5 DEF LdIp

\* A rising edge is remembered, at capacity in the place of others.
LdRemembers(i, r) ==
    \E gone \in (IF ldEdges[i] # LdNoEdge THEN {{}} ELSE LdEvicts) :
        ldEdges' = [j \in LdIPs |-> IF j = i THEN [rule |-> r, at |-> ldNow]
                                    ELSE IF j \in gone THEN LdNoEdge ELSE ldEdges[j]]

LEMMA LdRisingMoves ==
    ASSUME LdShape, NEW c \in LdCallers, NEW i \in LdIPs, NEW r \in LdRules, LdRising(c, i, r)
    PROVE  LET s == ldCall'[c]
           IN  /\ LdMoved(c) /\ ldCall[c].at = "idle" /\ s.ip = i /\ s.rule = r
               /\ \/ s.at = "quiet" /\ ldEdges' = ldEdges /\ ldEdges[i].rule = r /\ ~LdEdgeOld(i)
                  \/ s.at = "audit" /\ LdRemembers(i, r)
<1> DEFINE q == [LdIdle EXCEPT !.at = "quiet", !.ip = i, !.rule = r]
           a == [LdIdle EXCEPT !.at = "audit", !.ip = i, !.rule = r]
<1>1. /\ q \in LdCallType /\ q.at = "quiet" /\ q.ip = i /\ q.rule = r
      /\ a \in LdCallType /\ a.at = "audit" /\ a.ip = i /\ a.rule = r
  <2>1. "quiet" \in LdAts /\ "audit" \in LdAts
    BY DEF LdAts
  <2> QED
    BY <2>1, LdIdleIs DEF LdCallType
<1>2. /\ ldCall[c] = LdIdle
      /\ \/ LdGoes(c, q) /\ ldEdges' = ldEdges /\ ldEdges[i].rule = r /\ ~LdEdgeOld(i)
         \/ LdGoes(c, a) /\ LdRemembers(i, r)
  BY Zenon DEF LdRising, LdRemembers
<1> HIDE DEF q, a
<1>3. CASE LdGoes(c, q)
  <2>1. LdMoved(c) /\ ldCall'[c] = q
    BY <1>1, <1>3, LdGoesMoves
  <2>2. q # a
    BY <1>1
  <2>3. ~LdGoes(c, a)
    BY <2>1, <2>2, <1>1, LdGoesMoves
  <2> QED
    BY <1>1, <1>2, <2>1, <2>3, LdIdleIs, Zenon
<1>4. CASE ~LdGoes(c, q)
  <2>1. LdGoes(c, a)
    BY <1>2, <1>4
  <2>2. LdMoved(c) /\ ldCall'[c] = a
    BY <1>1, <2>1, LdGoesMoves
  <2> QED
    BY <1>1, <1>2, <1>4, <2>2, LdIdleIs, Zenon
<1> QED
  BY <1>3, <1>4

LEMMA LdReturnMoves ==
    ASSUME LdShape, NEW c \in LdCallers, LdReturn(c)
    PROVE  LdMoved(c) /\ ldCall'[c].at = "idle" /\ ldCall[c].at \in {"return", "quiet"}
  BY LdIdleIs, LdGoesMoves DEF LdReturn

---------------------------------------------------------------------------
(* The variables keep their types.                                         *)

\* A step that leaves the clock, the window and the observe band alone.
LEMMA LdShapeFrame ==
    ASSUME LdShape, ldScene' = ldScene, ldNow' = ldNow, ldArmed' \in BOOLEAN,
           ldFaults' = ldFaults \/ LdFails,
           ldRow' \in [LdIPs -> LdRowType], ldStrikes' \in [LdIPs -> Nat],
           ldKnown' \cup ldHad' \cup ldVerb' \cup ldLeaky' \cup ldBlind' \subseteq LdIPs,
           UNCHANGED <<ldTrail, ldWin, ldPasses, ldEdges>>, ldCall' \in [LdCallers -> LdCallType]
    PROVE  LdShape'
<1>1. ldFaults' \in 0..ldScene.faults
  BY LdSceneIs DEF LdFails
<1>2. ldNow' \in 0..ldScene'.time /\ ldFaults' \in 0..ldScene'.faults /\ ldScene' \in LdScenes
  BY <1>1 DEF LdShape
<1>3. ldTrail' \in [LdIPs -> [LdRules -> 0..ldScene'.time \cup {LdNever}]]
  BY DEF LdShape
<1>4. ldWin' \in [start : Nat, n : Nat] /\ ldEdges' \in [LdIPs -> LdEdgeType] /\ ldPasses' \subseteq LdPassType
  BY DEF LdShape
<1> QED
  BY <1>2, <1>3, <1>4, Zenon DEF LdShape

\* A step that changes only what callers are doing, and books failures.
LEMMA LdShapeQuiet ==
    ASSUME LdShape, NEW c \in LdCallers, LdMoved(c), ldScene' = ldScene, UNCHANGED <<ldNow, ldArmed, ldVerb>>,
           ldFaults' = ldFaults \/ LdFails, UNCHANGED <<ldRow, ldStrikes, ldHad, ldLeaky, ldTrail, ldWin, ldPasses, ldEdges>>,
           ldKnown' \subseteq ldKnown \cup {LdIp(c)}, ldBlind' \subseteq ldBlind \cup {LdIp(c)}
    PROVE  LdShape'
<1>1. LdIp(c) \in LdIPs
  BY DEF LdShape, LdCallType, LdIp
<1>2. ldKnown' \cup ldHad' \cup ldVerb' \cup ldLeaky' \cup ldBlind' \subseteq LdIPs
  BY <1>1 DEF LdShape
<1>3. ldArmed' \in BOOLEAN /\ ldRow' \in [LdIPs -> LdRowType] /\ ldStrikes' \in [LdIPs -> Nat]
  BY Zenon DEF LdShape
<1> QED
  BY <1>2, <1>3, LdShapeFrame DEF LdMoved

\* The labels the model uses are labels.
LEMMA LdAtsAre ==
    {"idle", "guard", "track", "mark", "bump", "count", "rate", "had", "record", "clear", "audit", "unaudited",
     "return", "quiet"} \subseteq LdAts
  BY DEF LdAts

\* The steps of an evaluation that only move it on.
LdPlain(c) ==
    \/ LdGuard(c) \/ LdBump(c) \/ LdCount(c) \/ LdRateExempt(c) \/ LdHadRead(c) \/ LdReturn(c)
    \/ LdGuardFails(c) \/ LdDiagFails(c) \/ LdBumpFails(c) \/ LdHadFails(c) \/ LdStoreFails(c) \/ LdAuditFails(c)

\* What they leave alone.
LEMMA LdPlainLeaves ==
    ASSUME NEW c \in LdCallers, LdPlain(c)
    PROVE  /\ UNCHANGED <<ldNow, ldArmed, ldRow, ldStrikes, ldHad, ldLeaky, ldTrail, ldWin, ldPasses, ldEdges>>
           /\ ldFaults' = ldFaults \/ LdFails
           /\ ldKnown' = ldKnown \/ (LdBump(c) /\ ldKnown' = ldKnown \cup {LdIp(c)})
           /\ ldBlind' = ldBlind \/ ((LdBumpFails(c) \/ LdHadFails(c)) /\ ldBlind' = ldBlind \cup {LdIp(c)})
<1> USE DEF LdPure, ldWorld, ldStore, ldEngine
<1>1. CASE LdGuard(c)
  BY <1>1 DEF LdGuard
<1>2. CASE LdBump(c)
  BY <1>2 DEF LdBump
<1>3. CASE LdCount(c)
  BY <1>3 DEF LdCount
<1>4. CASE LdRateExempt(c)
  BY <1>4 DEF LdRateExempt
<1>5. CASE LdHadRead(c)
  BY <1>5 DEF LdHadRead
<1>6. CASE LdReturn(c)
  BY <1>6 DEF LdReturn
<1>7. CASE LdGuardFails(c)
  BY <1>7 DEF LdGuardFails
<1>8. CASE LdDiagFails(c)
  BY <1>8 DEF LdDiagFails
<1>9. CASE LdBumpFails(c)
  BY <1>9 DEF LdBumpFails
<1>10. CASE LdHadFails(c)
  BY <1>10 DEF LdHadFails
<1>11. CASE LdStoreFails(c)
  BY <1>11 DEF LdStoreFails
<1>12. CASE LdAuditFails(c)
  BY <1>12 DEF LdAuditFails
<1> QED
  BY <1>1, <1>2, <1>3, <1>4, <1>5, <1>6, <1>7, <1>8, <1>9, <1>10, <1>11, <1>12 DEF LdPlain

\* Where they lead.
LEMMA LdPlainMoves ==
    ASSUME LdShape, NEW c \in LdCallers, LdPlain(c)
    PROVE  LET r == ldCall[c] s == ldCall'[c]
           IN  /\ LdMoved(c)
               /\ \/ r.at = "guard" /\ s.ip = r.ip /\ s.at = "count"
                  \/ r.at = "guard" /\ s.ip = r.ip /\ s.at = "track" /\ s.since = ldRow[r.ip].at
                  \/ r.at \in {"track", "mark"} /\ LdKeeps(c) /\ s.at = "bump"
                  \/ r.at = "bump" /\ LdKeeps(c) /\ s.at = "return" /\ r.ip \in ldKnown' \cup ldBlind'
                  \/ /\ r.at = "count" /\ s.ip = r.ip /\ s.at = "rate"
                     /\ s.strike = ldStrikes[r.ip] + 1 /\ s.ttl = LdRung(s.strike)
                  \/ r.at = "rate" /\ LdKeeps(c) /\ s.at = (IF r.ttl = 0 THEN "had" ELSE "record")
                  \/ /\ r.at = "had" /\ s.ip = r.ip /\ s.at = "record" /\ s.strike = r.strike /\ s.ttl = r.ttl
                     /\ r.ip \in ldHad \ ldBlind' => "permanent" \in s.says
                  \/ r.at \in {"count", "record"} /\ LdKeeps(c) /\ s.at = "return"
                  \/ r.at \in {"return", "quiet"} /\ s.at = "idle"
                  \/ r.at = "audit" /\ LdKeeps(c) /\ s.at = "unaudited"
<1> USE LdAtsAre
<1>1. CASE LdGuard(c)
  BY <1>1, LdGuardMoves DEF LdIp
<1>2. CASE LdBump(c)
  BY <1>2, LdToMoves DEF LdBump, LdIp
<1>3. CASE LdCount(c)
  BY <1>3, LdCountMoves DEF LdIp
<1>4. CASE LdRateExempt(c)
  <2>1. ldCall[c].at = "rate" /\ LdTo(c, IF ldCall[c].ttl = 0 THEN "had" ELSE "record")
    BY <1>4 DEF LdRateExempt, LdPaced
  <2>2. (IF ldCall[c].ttl = 0 THEN "had" ELSE "record") \in LdAts
    OBVIOUS
  <2> QED
    BY <2>1, <2>2, LdToMoves
<1>5. CASE LdHadRead(c)
  BY <1>5, LdHadMoves DEF LdIp
<1>6. CASE LdReturn(c)
  BY <1>6, LdReturnMoves
<1>7. CASE LdGuardFails(c)
  BY <1>7, LdToMoves DEF LdGuardFails, LdKeeps
<1>8. CASE LdDiagFails(c)
  BY <1>8, LdToMoves DEF LdDiagFails
<1>9. CASE LdBumpFails(c)
  BY <1>9, LdToMoves DEF LdBumpFails, LdIp
<1>10. CASE LdHadFails(c)
  <2>1. LdMoved(c) /\ LdKeeps(c) /\ ldCall'[c].at = "record" /\ ldCall[c].at = "had" /\ ldCall[c].ip \in ldBlind'
    BY <1>10, LdToMoves DEF LdHadFails, LdIp
  <2> QED
    BY <2>1 DEF LdKeeps
<1>11. CASE LdStoreFails(c)
  BY <1>11, LdToMoves DEF LdStoreFails
<1>12. CASE LdAuditFails(c)
  BY <1>12, LdToMoves DEF LdAuditFails
<1> QED
  BY <1>1, <1>2, <1>3, <1>4, <1>5, <1>6, <1>7, <1>8, <1>9, <1>10, <1>11, <1>12 DEF LdPlain

LEMMA LdRateMoves ==
    ASSUME LdShape, NEW c \in LdCallers, LdRate(c) \/ LdRateFails(c)
    PROVE  /\ LdMoved(c) /\ ldCall[c].at = "rate" /\ LdKeeps(c)
           /\ ldCall'[c].at \in {"return", IF ldCall[c].ttl = 0 THEN "had" ELSE "record"}
           /\ LdCounts /\ (ldFaults' = ldFaults \/ LdFails)
           /\ UNCHANGED <<ldNow, ldArmed, ldStore, ldEdges, ldLeaky, ldBlind>>
<1>1. /\ ldCall[c].at = "rate" /\ LdRateCount(c) /\ (ldFaults' = ldFaults \/ LdFails)
      /\ UNCHANGED <<ldNow, ldArmed>>
  BY DEF LdRate, LdRateFails, ldWorld
<1>2. PICK at \in {"return", IF ldCall[c].ttl = 0 THEN "had" ELSE "record"} : LdTo(c, at)
  BY <1>1 DEF LdRateCount, LdPaced
<1>3. at \in LdAts
  BY LdAtsAre
<1> QED
  BY <1>1, <1>2, <1>3, LdToMoves DEF LdRateCount

LEMMA LdRecordMoves ==
    ASSUME LdShape, NEW c \in LdCallers, LdRecord(c)
    PROVE  LET i == LdIp(c)
           IN  /\ LdMoved(c) /\ LdKeeps(c) /\ ldCall[c].at = "record" /\ ldCall'[c].at = "clear"
               /\ ldStrikes' = [ldStrikes EXCEPT ![i] = @ + 1] /\ ldKnown' = ldKnown \cup {i}
               /\ ldRow' \in [LdIPs -> LdRowType] /\ \A j \in LdIPs : j # i => ldRow'[j] = ldRow[j]
               /\ ldRow'[i].total = 0 /\ ldRow'[i].after = 0 /\ ldRow'[i].strike = ldCall[c].strike
               /\ ldRow'[i].until = (IF ldCall[c].ttl = 0 THEN LdNever ELSE ldNow + ldCall[c].ttl)
<1> DEFINE i == LdIp(c)
           r == LdRow(ldCall[c].ttl, ldCall[c].strike, ldCall[c].dry)
<1>1. ldCall[c] \in LdCallType /\ i \in LdIPs /\ ldNow \in Nat
  BY LdSceneIs DEF LdShape, LdCallType, LdIp
<1>2. ldCall[c].ttl \in Nat /\ ldCall[c].strike \in Nat /\ ldCall[c].dry \in BOOLEAN
  BY <1>1, Zenon DEF LdCallType
<1>3. r \in LdRowType /\ r.total = 0 /\ r.after = 0 /\ r.strike = ldCall[c].strike
      /\ r.until = (IF ldCall[c].ttl = 0 THEN LdNever ELSE ldNow + ldCall[c].ttl)
  BY <1>1, <1>2, LdRowIs
<1>4. /\ ldCall[c].at = "record" /\ LdTo(c, "clear") /\ ldRow' = [ldRow EXCEPT ![i] = r]
      /\ ldStrikes' = [ldStrikes EXCEPT ![i] = @ + 1] /\ ldKnown' = ldKnown \cup {i}
  BY DEF LdRecord
<1> HIDE DEF r, i
<1>5. LdMoved(c) /\ LdKeeps(c) /\ ldCall'[c].at = "clear"
  BY <1>4, LdToMoves, LdAtsAre
<1>6. ldRow' \in [LdIPs -> LdRowType] /\ ldRow'[i] = r /\ \A j \in LdIPs : j # i => ldRow'[j] = ldRow[j]
  BY <1>1, <1>3, <1>4 DEF LdShape
<1> QED
  BY <1>3, <1>4, <1>5, <1>6 DEF i

\* Unbans, the sweep and manual bans: a row stays, goes, or begins anew.
LdRowFresh(i) == ldRow'[i].total = 0 /\ ldRow'[i].after = 0
LEMMA LdOthersMoves ==
    ASSUME LdShape,
           LdExpire \/ \E i \in LdIPs : LdUnban(i) \/ \E t \in {0, LdTTLs[1]} : LdManualBan(i, t)
    PROVE  /\ ldRow' \in [LdIPs -> LdRowType]
           /\ \A j \in LdIPs : ldRow'[j] = ldRow[j] \/ LdRowFresh(j)
           /\ ldVerb' \subseteq ldVerb /\ ldVerb' \subseteq LdIPs
           /\ UNCHANGED <<ldNow, ldArmed, ldFaults, ldKnown, ldStrikes, ldHad, ldLast, ldTrail, ldWin, ldEdges, ldPasses,
                          ldCall, ldLeaky, ldBlind>>
<1> USE DEF LdOthers, ldWorld, ldEngine, LdRowFresh
<1>1. ldVerb \subseteq LdIPs /\ ldRow \in [LdIPs -> LdRowType] /\ ldNow \in Nat
  BY LdSceneIs DEF LdShape
<1>2. CASE LdExpire
  BY <1>1, <1>2, LdNoRowIs DEF LdExpire
<1>3. ASSUME NEW i \in LdIPs, LdUnban(i)
      PROVE  /\ ldRow' \in [LdIPs -> LdRowType]
             /\ \A j \in LdIPs : ldRow'[j] = ldRow[j] \/ LdRowFresh(j)
             /\ ldVerb' \subseteq ldVerb
             /\ UNCHANGED <<ldNow, ldArmed, ldFaults, ldKnown, ldStrikes, ldHad, ldLast, ldTrail, ldWin, ldEdges, ldPasses,
                            ldCall, ldLeaky, ldBlind>>
  BY <1>1, <1>3, LdNoRowIs DEF LdUnban
<1>4. ASSUME NEW i \in LdIPs, NEW t \in {0, LdTTLs[1]}, LdManualBan(i, t)
      PROVE  /\ ldRow' \in [LdIPs -> LdRowType]
             /\ \A j \in LdIPs : ldRow'[j] = ldRow[j] \/ LdRowFresh(j)
             /\ ldVerb' \subseteq ldVerb
             /\ UNCHANGED <<ldNow, ldArmed, ldFaults, ldKnown, ldStrikes, ldHad, ldLast, ldTrail, ldWin, ldEdges, ldPasses,
                            ldCall, ldLeaky, ldBlind>>
  <2> DEFINE k == IF ldRow[i] = LdNoRow THEN 1 ELSE ldRow[i].strike
             dry == ~ldArmed
             r == LdRow(t, k, dry)
  <2>1. ldRow' = [ldRow EXCEPT ![i] = r]
    BY <1>4 DEF LdManualBan
  <2>2. t \in Nat
    BY LdAssumption
  <2>3. ldRow[i].strike \in Nat
    BY <1>1 DEF LdRowType
  <2>4. k \in Nat /\ dry \in BOOLEAN
    BY <2>3
  <2> HIDE DEF k, dry
  <2>5. r \in LdRowType /\ r.total = 0 /\ r.after = 0
    BY <1>1, <2>2, <2>4, LdRowIs
  <2> HIDE DEF r
  <2>6. ldRow' \in [LdIPs -> LdRowType] /\ \A j \in LdIPs : ldRow'[j] = ldRow[j] \/ LdRowFresh(j)
    BY <1>1, <2>1, <2>5
  <2> QED
    BY <1>1, <1>4, <2>6 DEF LdManualBan
<1> QED
  BY <1>1, <1>2, <1>3, <1>4

\* The steps of an evaluation that do more than move it on.
LdBusy(c) ==
    \/ \E i \in LdIPs : LdLock(c, i)
    \/ \E i \in LdIPs, r \in LdRules : LdRising(c, i, r)
    \/ LdTrack(c) \/ LdMark(c) \/ LdRate(c) \/ LdRateFails(c) \/ LdRecord(c) \/ LdClear(c) \/ LdAudit(c)

\* The steps of everybody else.
LdRowStep == LdExpire \/ \E i \in LdIPs : LdUnban(i) \/ \E t \in {0, LdTTLs[1]} : LdManualBan(i, t)
LdVerbStep == \E i \in LdIPs : LdAuthorize(i) \/ LdBanFails(i)

\* Every step is one of these.
LEMMA LdSteps ==
    ASSUME LdShape, LdNext
    PROVE  /\ ldScene' = ldScene
           /\ \/ \E c \in LdCallers : (LdPlain(c) \/ LdBusy(c)) /\ ldVerb' = ldVerb
              \/ LdRowStep \/ LdVerbStep \/ LdSetArmed \/ LdTick \/ LdRestart
<1>1. ldScene.ips \subseteq LdIPs /\ ldScene.callers \subseteq LdCallers
  BY LdSceneIs
<1>2. ASSUME NEW c \in ldScene.callers, LdDecide(c) \/ LdDecideFails(c)
      PROVE  LdPlain(c) \/ LdBusy(c)
  BY <1>1, <1>2, Zenon DEF LdDecide, LdDecideFails, LdPlain, LdBusy
<1>3. ASSUME LdOperator PROVE LdRowStep \/ LdVerbStep \/ LdSetArmed
  BY <1>1, <1>3, Zenon DEF LdOperator, LdRowStep, LdVerbStep
<1> QED
  BY <1>1, <1>2, <1>3, Zenon DEF LdNext, LdRowStep

\* checkRateLimit counts.
LEMMA LdCountsMoves ==
    ASSUME LdShape, LdCounts
    PROVE  /\ ldWin' \in [start : Nat, n : Nat]
           /\ \/ ldWin'.start = ldWin.start /\ ~(ldNow > ldWin.start + LdWindow) /\ ldWin'.n \in {ldWin.n, ldWin.n + 1}
                 /\ (ldWin'.n <= ldScene.cap => ldWin'.n = ldWin.n + 1)
              \/ ldWin'.start = ldNow /\ ldNow > ldWin.start + LdWindow /\ ldWin'.n = 1
           /\ ldPasses' = ldPasses \cup (IF ldWin'.n > ldScene.cap THEN {}
                                         ELSE {[win |-> ldWin'.start, nth |-> ldWin'.n, at |-> ldNow]})
           /\ ldPasses' \subseteq LdPassType
<1> DEFINE w == LdWindowNow
           m == IF w.n > ldScene.cap THEN w.n ELSE w.n + 1
<1>1. ldNow \in Nat /\ ldScene.cap \in Nat \ {0} /\ ldWin \in [start : Nat, n : Nat] /\ ldPasses \subseteq LdPassType
  BY LdSceneIs DEF LdShape
<1>2. /\ w \in [start : Nat, n : Nat]
      /\ \/ w = ldWin /\ ~(ldNow > ldWin.start + LdWindow)
         \/ w.start = ldNow /\ w.n = 0 /\ ldNow > ldWin.start + LdWindow
  BY <1>1 DEF LdWindowNow
<1>3. ldWin' = [w EXCEPT !.n = m]
  BY DEF LdCounts
<1>4. m \in Nat
  BY <1>1, <1>2
<1>5. ldPasses' = ldPasses \cup (IF ldWin'.n > ldScene.cap THEN {}
                                 ELSE {[win |-> ldWin'.start, nth |-> ldWin'.n, at |-> ldNow]})
  BY DEF LdCounts
<1> HIDE DEF w
<1>6. m \in {w.n, w.n + 1} /\ (m <= ldScene.cap => m = w.n + 1)
  BY <1>1, <1>2
<1>7. w.n = 0 => m = 1
  BY <1>1
<1> HIDE DEF m
<1>8. ldWin' \in [start : Nat, n : Nat] /\ ldWin'.start = w.start /\ ldWin'.n = m
  BY <1>2, <1>3, <1>4
<1>9. ldPasses' \subseteq LdPassType
  BY <1>1, <1>5, <1>8 DEF LdPassType
<1> QED
  BY <1>2, <1>5, <1>6, <1>7, <1>8, <1>9

\* A caller's step keeps the types.
LEMMA LdShapeBusy ==
    ASSUME LdShape, NEW c \in LdCallers, LdBusy(c), ldVerb' = ldVerb, ldScene' = ldScene
    PROVE  LdShape'
<1> USE DEF LdPure, ldWorld, ldStore, ldEngine
<1>1. LdIp(c) \in LdIPs /\ ldNow \in 0..ldScene.time /\ ldNow \in Nat
  BY LdSceneIs DEF LdShape, LdCallType, LdIp
<1>2. ldScene \in LdScenes /\ ldArmed \in BOOLEAN /\ ldStrikes \in [LdIPs -> Nat]
      /\ ldRow \in [LdIPs -> LdRowType] /\ ldEdges \in [LdIPs -> LdEdgeType]
      /\ ldTrail \in [LdIPs -> [LdRules -> 0..ldScene.time \cup {LdNever}]]
      /\ ldKnown \cup ldHad \cup ldVerb \cup ldLeaky \cup ldBlind \subseteq LdIPs
      /\ ldWin \in [start : Nat, n : Nat] /\ ldPasses \subseteq LdPassType
      /\ ldFaults \in 0..ldScene.faults
  BY DEF LdShape
<1>3. CASE \E i \in LdIPs : LdLock(c, i)
  <2>1. PICK i \in LdIPs : LdLock(c, i)
    BY <1>3
  <2> QED
    BY <2>1, LdLockMoves, LdShapeQuiet DEF LdLock
<1>4. CASE \E i \in LdIPs, r \in LdRules : LdRising(c, i, r)
  <2>1. PICK i \in LdIPs, r \in LdRules : LdRising(c, i, r)
    BY <1>4
  <2>2. UNCHANGED <<ldNow, ldArmed, ldFaults, ldRow, ldKnown, ldStrikes, ldHad, ldTrail, ldWin, ldPasses, ldLeaky, ldBlind>>
    BY <2>1 DEF LdRising
  <2>3. LdMoved(c)
    BY <2>1, LdRisingMoves
  <2>4. LdNoEdge \in LdEdgeType /\ [rule |-> r, at |-> ldNow] \in LdEdgeType
    BY <1>1 DEF LdNoEdge, LdEdgeType
  <2>5. \/ ldEdges' = ldEdges
        \/ LdRemembers(i, r)
    BY <2>1, LdRisingMoves
  <2>6. ldEdges' \in [LdIPs -> LdEdgeType]
    BY <1>2, <2>4, <2>5 DEF LdRemembers
  <2> QED
    BY <1>1, <1>2, <2>2, <2>3, <2>6, Zenon DEF LdShape, LdMoved
<1>5. CASE LdTrack(c)
  <2>1. UNCHANGED <<ldNow, ldArmed, ldFaults, ldKnown, ldStrikes, ldHad, ldTrail, ldWin, ldPasses, ldEdges, ldLeaky, ldBlind>>
    BY <1>5 DEF LdTrack
  <2>2. LdMoved(c) /\ ldRow' \in [LdIPs -> LdRowType]
    BY <1>5, LdTrackMoves
  <2> QED
    BY <1>2, <2>1, <2>2, Zenon DEF LdShape, LdMoved
<1>6. CASE LdMark(c)
  <2>1. UNCHANGED <<ldNow, ldArmed, ldFaults, ldKnown, ldStrikes, ldTrail, ldWin, ldPasses, ldEdges, ldBlind>>
    BY <1>6 DEF LdMark
  <2>2. LdMoved(c) /\ ldRow' \in [LdIPs -> LdRowType]
    BY <1>6, LdMarkMoves
  <2>3. ldHad' \subseteq LdIPs /\ ldLeaky' \subseteq LdIPs
    BY <1>1, <1>2, <1>6, LdMarkMoves
  <2>4. ldKnown' \cup ldHad' \cup ldVerb' \cup ldLeaky' \cup ldBlind' \subseteq LdIPs
    BY <1>2, <2>1, <2>3
  <2> QED
    BY <1>2, <2>1, <2>2, <2>4, Zenon DEF LdShape, LdMoved
<1>7. CASE LdRate(c) \/ LdRateFails(c)
  <2>1. LdMoved(c) /\ LdCounts /\ (ldFaults' = ldFaults \/ LdFails)
    BY <1>7, LdRateMoves
  <2>2. UNCHANGED <<ldNow, ldArmed, ldRow, ldKnown, ldStrikes, ldHad, ldTrail, ldEdges, ldLeaky, ldBlind>>
    BY <1>7, LdRateMoves
  <2>3. ldWin' \in [start : Nat, n : Nat] /\ ldPasses' \subseteq LdPassType
    BY <2>1, LdCountsMoves
  <2>4. ldFaults' \in 0..ldScene.faults
    BY <2>1, LdSceneIs DEF LdFails
  <2> QED
    BY <1>2, <2>1, <2>2, <2>3, <2>4, Zenon DEF LdShape, LdMoved
<1>8. CASE LdRecord(c)
  <2>1. UNCHANGED <<ldNow, ldArmed, ldFaults, ldHad, ldTrail, ldWin, ldPasses, ldEdges, ldLeaky, ldBlind>>
    BY <1>8 DEF LdRecord
  <2>2. LdMoved(c) /\ ldRow' \in [LdIPs -> LdRowType] /\ ldKnown' = ldKnown \cup {LdIp(c)}
    BY <1>8, LdRecordMoves
  <2>3. ldStrikes' \in [LdIPs -> Nat]
    BY <1>1, <1>2, <1>8, LdRecordMoves
  <2>4. ldKnown' \cup ldHad' \cup ldVerb' \cup ldLeaky' \cup ldBlind' \subseteq LdIPs
    BY <1>1, <1>2, <2>1, <2>2
  <2> QED
    BY <1>2, <2>1, <2>2, <2>3, <2>4, Zenon DEF LdShape, LdMoved
<1>9. CASE LdClear(c)
  <2>1. UNCHANGED <<ldNow, ldArmed, ldFaults, ldRow, ldKnown, ldStrikes, ldHad, ldTrail, ldWin, ldPasses, ldLeaky, ldBlind>>
    BY <1>9 DEF LdClear
  <2>2. LdMoved(c)
    BY <1>9, LdToMoves, LdAtsAre DEF LdClear
  <2>3. ldEdges' \in [LdIPs -> LdEdgeType]
    BY <1>2, <1>9 DEF LdClear, LdNoEdge, LdEdgeType
  <2> QED
    BY <1>2, <2>1, <2>2, <2>3, Zenon DEF LdShape, LdMoved
<1>10. CASE LdAudit(c)
  <2>1. UNCHANGED <<ldNow, ldArmed, ldFaults, ldRow, ldKnown, ldStrikes, ldHad, ldEdges, ldWin, ldPasses, ldLeaky, ldBlind>>
    BY <1>10 DEF LdAudit
  <2>2. LdMoved(c)
    BY <1>10, LdToMoves, LdAtsAre DEF LdAudit
  <2>3. ldTrail' \in [LdIPs -> [LdRules -> 0..ldScene.time \cup {LdNever}]]
    BY <1>1, <1>2, <1>10 DEF LdAudit
  <2> QED
    BY <1>2, <2>1, <2>2, <2>3, Zenon DEF LdShape, LdMoved
<1> QED
  BY <1>3, <1>4, <1>5, <1>6, <1>7, <1>8, <1>9, <1>10 DEF LdBusy

LEMMA LdShapeStep ==
    ASSUME LdShape, LdNext
    PROVE  LdShape'
<1>1. ldScene' = ldScene
  BY LdSteps
<1>2. ASSUME NEW c \in LdCallers, LdPlain(c), ldVerb' = ldVerb PROVE LdShape'
  BY <1>1, <1>2, LdPlainLeaves, LdPlainMoves, LdShapeQuiet
<1>3. ldScene \in LdScenes /\ ldArmed \in BOOLEAN /\ ldStrikes \in [LdIPs -> Nat] /\ ldNow \in 0..ldScene.time
      /\ ldRow \in [LdIPs -> LdRowType] /\ ldEdges \in [LdIPs -> LdEdgeType]
      /\ ldTrail \in [LdIPs -> [LdRules -> 0..ldScene.time \cup {LdNever}]]
      /\ ldKnown \cup ldHad \cup ldVerb \cup ldLeaky \cup ldBlind \subseteq LdIPs
      /\ ldWin \in [start : Nat, n : Nat] /\ ldPasses \subseteq LdPassType
      /\ ldFaults \in 0..ldScene.faults /\ ldCall \in [LdCallers -> LdCallType]
  BY DEF LdShape
<1>4. CASE LdRowStep
  <2>1. /\ ldRow' \in [LdIPs -> LdRowType] /\ ldVerb' \subseteq LdIPs
        /\ UNCHANGED <<ldNow, ldArmed, ldFaults, ldKnown, ldStrikes, ldHad, ldLast, ldTrail, ldWin, ldEdges, ldPasses,
                       ldCall, ldLeaky, ldBlind>>
    BY <1>4, LdOthersMoves DEF LdRowStep
  <2>2. ldKnown' \cup ldHad' \cup ldVerb' \cup ldLeaky' \cup ldBlind' \subseteq LdIPs
    BY <1>3, <2>1
  <2> QED
    BY <1>1, <1>3, <2>1, <2>2, Zenon DEF LdShape
<1>5. CASE LdVerbStep
  <2>1. PICK i \in LdIPs : LdAuthorize(i) \/ LdBanFails(i)
    BY <1>5 DEF LdVerbStep
  <2>2. UNCHANGED <<ldNow, ldArmed, ldFaults, ldRow, ldKnown, ldStrikes, ldHad, ldTrail, ldEdges, ldCall, ldLeaky, ldBlind>>
    BY <2>1 DEF LdAuthorize, LdBanFails, ldWorld, ldStore, ldEngine
  <2>3. LdCounts \/ UNCHANGED <<ldWin, ldPasses>>
    BY <2>1 DEF LdAuthorize, LdBanFails, ldEngine
  <2>4. ldWin' \in [start : Nat, n : Nat] /\ ldPasses' \subseteq LdPassType
    BY <1>3, <2>3, LdCountsMoves
  <2>5. ldVerb' \subseteq ldVerb \cup {i}
    BY <2>1 DEF LdAuthorize, LdBanFails
  <2>6. ldKnown' \cup ldHad' \cup ldVerb' \cup ldLeaky' \cup ldBlind' \subseteq LdIPs
    BY <1>3, <2>2, <2>5
  <2> QED
    BY <1>1, <1>3, <2>2, <2>4, <2>6, Zenon DEF LdShape
<1>6. CASE LdSetArmed
  <2>1. ldArmed' \in BOOLEAN
    BY <1>6 DEF LdSetArmed
  <2>2. UNCHANGED <<ldNow, ldFaults, ldRow, ldKnown, ldStrikes, ldHad, ldTrail, ldWin, ldEdges, ldPasses, ldCall, ldVerb,
                    ldLeaky, ldBlind>>
    BY <1>6 DEF LdSetArmed, ldStore, ldEngine
  <2> QED
    BY <1>1, <1>3, <2>1, <2>2, Zenon DEF LdShape
<1>7. CASE LdTick
  <2>1. /\ ldNow < ldScene.time /\ ldNow' = ldNow + 1 /\ ldPasses' \subseteq ldPasses
        /\ UNCHANGED <<ldArmed, ldFaults, ldRow, ldKnown, ldStrikes, ldHad, ldTrail, ldWin, ldEdges, ldCall, ldVerb, ldLeaky,
                       ldBlind>>
    BY <1>7 DEF LdTick, ldStore
  <2>2. ldNow' \in 0..ldScene.time
    BY <2>1, LdSceneIs
  <2>3. ldPasses' \subseteq LdPassType
    BY <1>3, <2>1
  <2> QED
    BY <1>1, <1>3, <2>1, <2>2, <2>3, Zenon DEF LdShape
<1>8. CASE LdRestart
  <2>1. /\ ldVerb' = {} /\ ldPasses' = {} /\ LdFails
        /\ UNCHANGED <<ldNow, ldArmed, ldRow, ldKnown, ldStrikes, ldHad, ldTrail, ldLeaky>>
        /\ ldCall' = [c \in LdCallers |-> LdIdle] /\ ldEdges' = [i \in LdIPs |-> LdNoEdge]
        /\ ldWin' = [start |-> ldNow, n |-> 0]
        /\ ldBlind' = ldBlind \cup {LdIp(c) : c \in {d \in LdCallers : ldCall[d].at \in {"track", "mark", "bump"}}}
    BY <1>8 DEF LdRestart, ldStore
  <2>2. ldCall' \in [LdCallers -> LdCallType]
    BY <2>1, LdIdleIs
  <2>3. ldEdges' \in [LdIPs -> LdEdgeType]
    BY <2>1 DEF LdNoEdge, LdEdgeType
  <2>4. ldFaults' \in 0..ldScene.faults /\ ldWin' \in [start : Nat, n : Nat]
    BY <2>1, LdSceneIs DEF LdFails
  <2>5. \A c \in LdCallers : LdIp(c) \in LdIPs
    BY DEF LdShape, LdCallType, LdIp
  <2>6. ldBlind' \subseteq LdIPs
    BY <1>3, <2>1, <2>5
  <2>7. ldKnown' \cup ldHad' \cup ldVerb' \cup ldLeaky' \cup ldBlind' \subseteq LdIPs /\ ldPasses' \subseteq LdPassType
    BY <1>3, <2>1, <2>6
  <2> QED
    BY <1>1, <1>3, <2>1, <2>2, <2>3, <2>4, <2>7, Zenon DEF LdShape
<1> QED
  BY <1>1, <1>2, <1>4, <1>5, <1>6, <1>7, <1>8, LdSteps, LdShapeBusy

---------------------------------------------------------------------------
(* The window of checkRateLimit.                                           *)

LEMMA LdWindowCounts ==
    ASSUME LdShape, LdWindowOK, LdCounts, ldNow' = ldNow, ldScene' = ldScene
    PROVE  LdWindowOK'
<1> DEFINE new == [win |-> ldWin'.start, nth |-> ldWin'.n, at |-> ldNow]
           added == IF ldWin'.n > ldScene.cap THEN {} ELSE {new}
<1>1. /\ ldNow \in Nat /\ ldScene.cap \in Nat \ {0} /\ LdWindow \in Nat
      /\ ldWin.start \in Nat /\ ldWin.n \in Nat /\ ldWin'.start \in Nat /\ ldWin'.n \in Nat
  BY LdSceneIs, LdCountsMoves, LdAssumption DEF LdShape
<1>2. /\ \/ ldWin'.start = ldWin.start /\ ~(ldNow > ldWin.start + LdWindow) /\ ldWin'.n \in {ldWin.n, ldWin.n + 1}
            /\ (ldWin'.n <= ldScene.cap => ldWin'.n = ldWin.n + 1)
         \/ ldWin'.start = ldNow /\ ldNow > ldWin.start + LdWindow /\ ldWin'.n = 1
      /\ ldPasses' = ldPasses \cup added
  BY LdCountsMoves
<1>3. new.win = ldWin'.start /\ new.nth = ldWin'.n /\ new.at = ldNow
  OBVIOUS
<1>4. \A p \in added : p = new /\ ldWin'.n <= ldScene.cap
  BY <1>1
<1>5. \A p \in ldPasses : p.win \in Nat /\ p.nth \in Nat /\ p.at \in Nat
  BY DEF LdShape, LdPassType
<1> HIDE DEF new, added
<1>6. \A p \in ldPasses :
          /\ p.nth \in 1..ldScene.cap
          /\ p.win <= p.at /\ p.at <= p.win + LdWindow
          /\ p.at + LdWindow >= ldNow
          /\ IF p.win = ldWin.start THEN p.nth <= ldWin.n ELSE p.win + LdWindow < ldWin.start
  BY DEF LdWindowOK
<1>7. ldWin.start <= ldNow
  BY DEF LdWindowOK
<1>8. \A p \in ldPasses' :
          /\ p.nth \in 1..ldScene.cap
          /\ p.win <= p.at /\ p.at <= p.win + LdWindow
          /\ p.at + LdWindow >= ldNow
          /\ IF p.win = ldWin'.start THEN p.nth <= ldWin'.n ELSE p.win + LdWindow < ldWin'.start
  <2>1. ASSUME NEW p \in added
        PROVE  /\ p.nth \in 1..ldScene.cap /\ p.win <= p.at /\ p.at <= p.win + LdWindow /\ p.at + LdWindow >= ldNow
               /\ p.win = ldWin'.start /\ p.nth <= ldWin'.n
    BY <1>1, <1>2, <1>3, <1>4, <1>7
  <2>2. ASSUME NEW p \in ldPasses
        PROVE  IF p.win = ldWin'.start THEN p.nth <= ldWin'.n ELSE p.win + LdWindow < ldWin'.start
    BY <1>1, <1>2, <1>5, <1>6, <1>7
  <2> QED
    BY <1>2, <1>6, <2>1, <2>2
<1>9. \A p, q \in ldPasses :
          /\ p.win # ldWin.start /\ q.win # ldWin.start => p.win = q.win
          /\ p.win = q.win /\ p.nth = q.nth => p = q
  BY DEF LdWindowOK
<1>10. ASSUME NEW p \in ldPasses', NEW q \in ldPasses', p.win # ldWin'.start, q.win # ldWin'.start
       PROVE  p.win = q.win
  <2>1. p \in ldPasses /\ q \in ldPasses
    BY <1>2, <1>3, <1>4, <1>10
  <2>2. CASE ldWin'.start = ldWin.start
    BY <1>9, <1>10, <2>1, <2>2
  <2>3. CASE ldNow > ldWin.start + LdWindow
    BY <1>1, <1>5, <1>6, <2>1, <2>3
  <2> QED
    BY <1>2, <2>2, <2>3
<1>11. ASSUME NEW p \in ldPasses, p.win = new.win, ldWin'.n <= ldScene.cap
       PROVE  p.nth # new.nth
  BY <1>1, <1>2, <1>3, <1>5, <1>6, <1>7, <1>11
<1>12. ASSUME NEW p \in ldPasses', NEW q \in ldPasses', p.win = q.win, p.nth = q.nth
       PROVE  p = q
  BY <1>2, <1>4, <1>9, <1>11, <1>12
<1>13. ldWin'.start <= ldNow
  BY <1>1, <1>2, <1>7
<1> QED
  BY <1>8, <1>10, <1>12, <1>13 DEF LdWindowOK

LEMMA LdWindowStep ==
    ASSUME LdShape, LdWindowOK, LdNext
    PROVE  LdWindowOK'
<1> USE DEF LdPure, ldWorld, ldStore, ldEngine
<1>1. ldScene' = ldScene
  BY LdSteps
<1>2. ASSUME UNCHANGED <<ldWin, ldPasses, ldNow>> PROVE LdWindowOK'
  BY <1>1, <1>2 DEF LdWindowOK
<1>3. ASSUME NEW c \in LdCallers, LdPlain(c) PROVE LdWindowOK'
  BY <1>2, <1>3, LdPlainLeaves
<1>4. ASSUME NEW c \in LdCallers, LdBusy(c) PROVE LdWindowOK'
  <2>1. CASE LdRate(c) \/ LdRateFails(c)
    BY <1>1, <2>1, LdRateMoves, LdWindowCounts
  <2>2. CASE ~(LdRate(c) \/ LdRateFails(c))
    <3>1. UNCHANGED <<ldWin, ldPasses, ldNow>>
      BY <1>4, <2>2 DEF LdBusy, LdLock, LdRising, LdTrack, LdMark, LdRecord, LdClear, LdAudit
    <3> QED
      BY <1>2, <3>1
  <2> QED
    BY <2>1, <2>2
<1>5. CASE LdRowStep
  BY <1>2, <1>5, LdOthersMoves DEF LdRowStep
<1>6. CASE LdVerbStep
  <2>1. ldNow' = ldNow /\ (LdCounts \/ UNCHANGED <<ldWin, ldPasses>>)
    BY <1>6 DEF LdVerbStep, LdAuthorize, LdBanFails
  <2> QED
    BY <1>1, <1>2, <2>1, LdWindowCounts
<1>7. CASE LdSetArmed
  BY <1>2, <1>7 DEF LdSetArmed
<1>8. CASE LdTick
  <2>1. /\ ldNow \in Nat /\ ldNow' = ldNow + 1 /\ ldWin' = ldWin /\ ldWin.start \in Nat
        /\ ldPasses' = {p \in ldPasses : p.at + LdWindow >= ldNow'}
    BY <1>8, LdSceneIs DEF LdTick, LdShape
  <2>2. ldWin.start <= ldNow'
    BY <2>1 DEF LdWindowOK
  <2> QED
    BY <1>1, <2>1, <2>2 DEF LdWindowOK
<1>9. CASE LdRestart
  BY <1>9, LdSceneIs DEF LdRestart, LdWindowOK
<1> QED
  BY <1>3, <1>4, <1>5, <1>6, <1>7, <1>8, <1>9, LdSteps

\* Two windows of at most the cap's bans each.
LEMMA LdWindowBound ==
    ASSUME LdShape, LdWindowOK
    PROVE  LdPaceHolds
<1> DEFINE cap == ldScene.cap
           T == {0, 1} \X (1..cap)
           f == [p \in ldPasses |-> <<IF p.win = ldWin.start THEN 0 ELSE 1, p.nth>>]
<1>1. cap \in Nat \ {0}
  BY LdSceneIs
<1>2. f \in Injection(ldPasses, T)
  <2>1. \A p \in ldPasses : f[p] \in T
    BY DEF LdWindowOK
  <2>2. f \in [ldPasses -> T]
    BY <2>1
  <2>3. ASSUME NEW p \in ldPasses, NEW q \in ldPasses, f[p] = f[q] PROVE p = q
    BY <2>3 DEF LdWindowOK
  <2> QED
    BY <2>2, <2>3 DEF Injection, IsInjective
<1>3. IsFiniteSet({0, 1}) /\ Cardinality({0, 1}) = 2 /\ IsFiniteSet(1..cap) /\ Cardinality(1..cap) = cap
  <2>1. IsFiniteSet({0, 1}) /\ Cardinality({0, 1}) = 2
    <3>1. IsFiniteSet({0}) /\ Cardinality({0}) = 1
      BY FS_Singleton
    <3>2. {0} \cup {1} = {0, 1} /\ 1 \notin {0}
      OBVIOUS
    <3>3. IsFiniteSet({0} \cup {1}) /\ Cardinality({0} \cup {1}) = 1 + 1
      BY <3>1, <3>2, FS_AddElement
    <3> QED
      BY <3>2, <3>3
  <2>2. cap \in Int /\ 1 \in Int
    BY <1>1
  <2> HIDE DEF cap
  <2>3. IsFiniteSet(1..cap) /\ Cardinality(1..cap) = IF 1 > cap THEN 0 ELSE cap - 1 + 1
    BY <2>2, FS_Interval
  <2> QED
    BY <1>1, <2>1, <2>3
<1>4. IsFiniteSet(T) /\ Cardinality(T) = 2 * cap
  BY <1>3, FS_Product
<1>5. Cardinality(ldPasses) <= Cardinality(T)
  BY <1>2, <1>4, FS_Injection
<1> QED
  BY <1>4, <1>5 DEF LdPaceHolds

---------------------------------------------------------------------------
(* The strike lock.                                                        *)

\* An evaluation moves inside its section, or out of it.
LEMMA LdLockFrame ==
    ASSUME LdShape, LdLockOK, NEW c \in LdCallers, LdMoved(c), ldStrikes' = ldStrikes,
           \/ ldCall'[c].at \in LdFree
           \/ /\ LdHeld(c) /\ ldCall'[c].ip = LdIp(c)
              /\ ldCall'[c].at \notin {"clear", "return"} => ldCall[c].at \notin {"clear", "return"}
              /\ ldCall'[c].at \in {"rate", "had", "record"} =>
                    ldCall'[c].strike = ldStrikes[LdIp(c)] + 1 /\ ldCall'[c].ttl = LdRung(ldCall'[c].strike)
    PROVE  LdLockOK'
<1>1. CASE ldCall'[c].at \in LdFree
  BY <1>1 DEF LdLockOK, LdHeld, LdMoved, LdIp, LdFree
<1>2. CASE ldCall'[c].at \notin LdFree
  BY <1>2 DEF LdLockOK, LdHeld, LdMoved, LdIp, LdFree
<1> QED
  BY <1>1, <1>2

LEMMA LdLockPlain ==
    ASSUME LdShape, LdLockOK, NEW c \in LdCallers, LdPlain(c)
    PROVE  LdLockOK'
<1>1. LdMoved(c) /\ ldStrikes' = ldStrikes
  BY LdPlainMoves, LdPlainLeaves
<1>2. ldCall[c].at \in {"rate", "had", "record"} =>
          ldCall[c].strike = ldStrikes[LdIp(c)] + 1 /\ ldCall[c].ttl = LdRung(ldCall[c].strike)
  BY DEF LdLockOK
<1>3. \/ ldCall'[c].at \in LdFree
      \/ /\ LdHeld(c) /\ ldCall'[c].ip = LdIp(c)
         /\ ldCall'[c].at \notin {"clear", "return"} => ldCall[c].at \notin {"clear", "return"}
         /\ ldCall'[c].at \in {"rate", "had", "record"} =>
               ldCall'[c].strike = ldStrikes[LdIp(c)] + 1 /\ ldCall'[c].ttl = LdRung(ldCall'[c].strike)
  BY <1>2, LdPlainMoves DEF LdKeeps, LdHeld, LdFree, LdIp
<1> QED
  BY <1>1, <1>3, LdLockFrame

LEMMA LdLockBusy ==
    ASSUME LdShape, LdLockOK, NEW c \in LdCallers, LdBusy(c)
    PROVE  LdLockOK'
<1> USE DEF LdPure, ldWorld, ldStore, ldEngine
<1>1. CASE \E i \in LdIPs : LdLock(c, i)
  <2>1. PICK i \in LdIPs : LdLock(c, i)
    BY <1>1
  <2>2. /\ LdMoved(c) /\ ldCall'[c].at = "guard" /\ ldCall'[c].ip = i /\ LdLockFree(i) /\ ldStrikes[i] < LdMaxStrikes
        /\ ldStrikes' = ldStrikes
    BY <2>1, LdLockMoves DEF LdLock
  <2> QED
    BY <2>2 DEF LdLockOK, LdHeld, LdMoved, LdIp, LdFree, LdLockFree
<1>2. CASE \E i \in LdIPs, r \in LdRules : LdRising(c, i, r)
  <2>1. LdMoved(c) /\ ldCall'[c].at \in LdFree
    BY <1>2, LdRisingMoves DEF LdFree
  <2>2. ldStrikes' = ldStrikes
    BY <1>2 DEF LdRising
  <2> QED
    BY <2>1, <2>2, LdLockFrame
<1>3. CASE LdTrack(c)
  <2>1. LdMoved(c) /\ ldCall[c].at = "track" /\ ldCall'[c].at \in {"mark", "bump"} /\ ldCall'[c].ip = LdIp(c)
    BY <1>3, LdTrackMoves
  <2>2. ldStrikes' = ldStrikes
    BY <1>3 DEF LdTrack
  <2> QED
    BY <2>1, <2>2, LdLockFrame DEF LdHeld, LdFree
<1>4. CASE LdMark(c)
  <2>1. LdMoved(c) /\ ldCall[c].at = "mark" /\ ldCall'[c].at = "bump" /\ ldCall'[c].ip = LdIp(c)
    BY <1>4, LdMarkMoves
  <2>2. ldStrikes' = ldStrikes
    BY <1>4 DEF LdMark
  <2> QED
    BY <2>1, <2>2, LdLockFrame DEF LdHeld, LdFree
<1>5. CASE LdRate(c) \/ LdRateFails(c)
  <2>1. /\ LdMoved(c) /\ ldCall[c].at = "rate" /\ LdKeeps(c) /\ ldStrikes' = ldStrikes
        /\ ldCall'[c].at \in {"return", "had", "record"}
    BY <1>5, LdRateMoves
  <2>2. ldCall[c].strike = ldStrikes[LdIp(c)] + 1 /\ ldCall[c].ttl = LdRung(ldCall[c].strike)
    BY <2>1 DEF LdLockOK
  <2> QED
    BY <2>1, <2>2, LdLockFrame DEF LdHeld, LdFree, LdKeeps, LdIp
<1>6. CASE LdRecord(c)
  <2> DEFINE i == LdIp(c)
  <2>1. /\ LdMoved(c) /\ LdKeeps(c) /\ ldCall[c].at = "record" /\ ldCall'[c].at = "clear"
        /\ ldStrikes' = [ldStrikes EXCEPT ![i] = @ + 1]
    BY <1>6, LdRecordMoves
  <2>2. i \in LdIPs /\ ldStrikes \in [LdIPs -> Nat] /\ LdMaxStrikes \in Nat
    BY LdAssumption DEF LdShape, LdCallType, LdIp
  <2>3. ldStrikes[i] < LdMaxStrikes
    BY <2>1 DEF LdLockOK, LdHeld, LdFree
  <2>4. \A d \in LdCallers : d # c /\ LdHeld(d) => LdIp(d) # i
    BY <2>1 DEF LdLockOK, LdHeld, LdFree
  <2>5. ldStrikes'[i] = ldStrikes[i] + 1 /\ \A j \in LdIPs : j # i => ldStrikes'[j] = ldStrikes[j]
    BY <2>1, <2>2
  <2>6. \A j \in LdIPs : ldStrikes'[j] <= LdMaxStrikes
    BY <2>2, <2>3, <2>5 DEF LdLockOK
  <2>7. \A d \in LdCallers : LdIp(d) \in LdIPs
    BY DEF LdShape, LdCallType, LdIp
  <2>8. \A d \in LdCallers : d # c => LdIp(d)' = LdIp(d) /\ (LdHeld(d)' <=> LdHeld(d)) /\ ldCall'[d] = ldCall[d]
    BY <2>1 DEF LdMoved, LdIp, LdHeld
  <2>9. \A d \in LdCallers : d # c /\ LdHeld(d) => ldStrikes'[LdIp(d)] = ldStrikes[LdIp(d)]
    BY <2>4, <2>5, <2>7
  <2>10. LdIp(c)' = i /\ LdHeld(c)
    BY <2>1 DEF LdKeeps, LdIp, LdHeld, LdFree
  <2> HIDE DEF i
  <2>11. \A d \in LdCallers : ldCall[d].at \in {"rate", "had", "record"} => LdHeld(d)
    BY DEF LdHeld, LdFree
  <2>12. \A d \in LdCallers : LdHeld(d)' /\ ldCall'[d].at \notin {"clear", "return"} => ldStrikes'[LdIp(d)'] < LdMaxStrikes
    BY <2>1, <2>8, <2>9 DEF LdLockOK
  <2>13. \A d \in LdCallers : ldCall'[d].at \in {"rate", "had", "record"} =>
            ldCall'[d].strike = ldStrikes'[LdIp(d)'] + 1 /\ ldCall'[d].ttl = LdRung(ldCall'[d].strike)
    BY <2>1, <2>8, <2>9, <2>11 DEF LdLockOK
  <2>14. \A d, e \in LdCallers : LdHeld(d)' /\ LdHeld(e)' /\ LdIp(d)' = LdIp(e)' => d = e
    BY <2>4, <2>8, <2>10 DEF LdLockOK
  <2> QED
    BY <2>6, <2>12, <2>13, <2>14 DEF LdLockOK
<1>7. CASE LdClear(c)
  <2>1. /\ LdMoved(c) /\ LdKeeps(c) /\ ldStrikes' = ldStrikes /\ ldCall[c].at \in {"clear", "unaudited"}
        /\ ldCall'[c].at = (IF ldCall[c].at = "clear" THEN "return" ELSE "quiet")
    BY <1>7, LdToMoves, LdAtsAre DEF LdClear
  <2> QED
    BY <2>1, LdLockFrame DEF LdHeld, LdFree, LdKeeps, LdIp
<1>8. CASE LdAudit(c)
  <2>1. LdMoved(c) /\ ldStrikes' = ldStrikes /\ ldCall'[c].at = "quiet"
    BY <1>8, LdToMoves, LdAtsAre DEF LdAudit
  <2> QED
    BY <2>1, LdLockFrame DEF LdFree
<1> QED
  BY <1>1, <1>2, <1>3, <1>4, <1>5, <1>6, <1>7, <1>8 DEF LdBusy

LEMMA LdLockStep ==
    ASSUME LdShape, LdLockOK, LdNext
    PROVE  LdLockOK'
<1> USE DEF ldWorld, ldStore, ldEngine
<1>1. ASSUME UNCHANGED <<ldCall, ldStrikes>> PROVE LdLockOK'
  BY <1>1 DEF LdLockOK, LdHeld, LdIp
<1>2. CASE LdRowStep
  BY <1>1, <1>2, LdOthersMoves DEF LdRowStep
<1>3. CASE LdVerbStep \/ LdSetArmed \/ LdTick
  BY <1>1, <1>3 DEF LdVerbStep, LdAuthorize, LdBanFails, LdSetArmed, LdTick
<1>4. CASE LdRestart
  <2>1. \A c \in LdCallers : ldCall'[c].at = "idle"
    BY <1>4, LdIdleIs DEF LdRestart
  <2>2. ldStrikes' = ldStrikes
    BY <1>4 DEF LdRestart
  <2> QED
    BY <2>1, <2>2 DEF LdLockOK, LdHeld, LdFree
<1> QED
  BY <1>2, <1>3, <1>4, LdSteps, LdLockPlain, LdLockBusy

---------------------------------------------------------------------------
(* The diagnosis.                                                          *)

\* A caller that stays where it is while rows stay, go or begin anew.
LEMMA LdDiagStays ==
    ASSUME LdShape, NEW d \in LdCallers, LdDiagCaller(d), ldCall'[d] = ldCall[d],
           ldNow' \in Nat, ldNow' >= ldNow,
           LET i == LdIp(d)
           IN  LdRowFresh(i) \/ (ldRow'[i].at = ldRow[i].at /\ ldRow'[i].total = ldRow[i].total)
    PROVE  LdDiagCaller(d)'
<1>1. ldCall[d].n \in Nat /\ ldCall[d].since \in Nat /\ LdIp(d) \in LdIPs /\ ldNow \in Nat /\ LdGrace \in Nat
  BY LdSceneIs, LdAssumption DEF LdShape, LdCallType, LdIp
<1>2. LdIp(d)' = LdIp(d)
  BY DEF LdIp
<1>3. ldNow >= ldCall[d].since + LdGrace => ldNow' >= ldCall[d].since + LdGrace
  BY <1>1
<1>4. CASE LdRowFresh(LdIp(d))
  BY <1>1, <1>2, <1>3, <1>4 DEF LdDiagCaller, LdRowFresh
<1>5. CASE ldRow'[LdIp(d)].at = ldRow[LdIp(d)].at /\ ldRow'[LdIp(d)].total = ldRow[LdIp(d)].total
  BY <1>1, <1>2, <1>3, <1>5 DEF LdDiagCaller
<1> QED
  BY <1>4, <1>5

\* A step of an evaluation, over rows that stay, go or begin anew.
LEMMA LdDiagFrame ==
    ASSUME LdShape, LdDiagOK, NEW c \in LdCallers, LdMoved(c), ldNow' = ldNow,
           \A j \in LdIPs : \/ LdRowFresh(j)
                            \/ ldRow'[j].at = ldRow[j].at /\ ldRow'[j].total = ldRow[j].total
                               /\ ldRow'[j].after = ldRow[j].after,
           LdDiagCaller(c)'
    PROVE  LdDiagOK'
<1>1. ldNow \in Nat /\ \A d \in LdCallers : LdIp(d) \in LdIPs
  BY LdSceneIs DEF LdShape, LdCallType, LdIp
<1>2. \A i \in LdIPs : ldRow'[i].after <= ldRow'[i].total
  BY DEF LdDiagOK, LdRowFresh
<1>3. \A d \in LdCallers : LdDiagCaller(d)
  BY DEF LdDiagOK
<1>4. ASSUME NEW d \in LdCallers, d # c PROVE LdDiagCaller(d)'
  BY <1>1, <1>3, <1>4, LdDiagStays DEF LdMoved
<1>5. \A d \in LdCallers : LdDiagCaller(d)'
  BY <1>4
<1> QED
  BY <1>2, <1>5 DEF LdDiagOK

LEMMA LdDiagTrack ==
    ASSUME LdShape, LdLockOK, LdDiagOK, NEW c \in LdCallers, LdTrack(c)
    PROVE  LdDiagOK'
<1> DEFINE i == LdIp(c)
<1>1. /\ LdMoved(c) /\ ldCall[c].at = "track" /\ ldCall'[c].ip = i /\ ldCall'[c].since = ldCall[c].since
      /\ ldCall'[c].n = ldRow'[i].total /\ ldCall'[c].at \in {"mark", "bump"}
      /\ ldRow' \in [LdIPs -> LdRowType] /\ \A j \in LdIPs : j # i => ldRow'[j] = ldRow[j]
      /\ ldRow'[i].at = ldRow[i].at
      /\ (ldRow'[i].total = ldRow[i].total \/ ldRow'[i].total = ldRow[i].total + 1)
      /\ ldRow[i].after <= ldRow[i].total => ldRow'[i].after <= ldRow'[i].total
      /\ ldCall'[c].at = "mark" =>
            /\ ldCall'[c].phase # "none"
            /\ ldCall'[c].phase = "post_grace" => ldRow'[i].after >= 2 /\ ldNow >= ldCall'[c].since + LdGrace
            /\ ldCall'[c].phase = "in_grace" => LdMinIn > 0 /\ ldRow'[i].total - ldRow'[i].after >= LdMinIn
  BY LdTrackMoves
<1>2. ldNow' = ldNow
  BY DEF LdTrack, ldWorld
<1>3. \A d \in LdCallers : LdIp(d) \in LdIPs
  BY DEF LdShape, LdCallType, LdIp
<1>4. /\ ldRow[i].total \in Nat /\ ldRow'[i].total \in Nat /\ ldRow'[i].after \in Nat /\ ldNow \in Nat
      /\ ldRow[i].after <= ldRow[i].total /\ LdMinIn \in Nat
  BY <1>1, <1>3, LdSceneIs, LdAssumption DEF LdShape, LdRowType, LdDiagOK
<1>5. \A j \in LdIPs : ldRow'[j].after <= ldRow'[j].total
  BY <1>1 DEF LdDiagOK
<1>6. ldRow[i].at = ldCall[c].since \/ ldRow[i].total = 0
  BY <1>1 DEF LdDiagOK, LdDiagCaller
<1>7. LdIp(c)' = i
  BY <1>1 DEF LdIp
<1> HIDE DEF i
<1>8. ldCall'[c].at = "mark" => /\ ldCall'[c].phase # "none"
                                /\ ldCall'[c].phase = "post_grace" =>
                                      /\ ldCall'[c].n >= 2 /\ ldNow' >= ldCall'[c].since + LdGrace
                                      /\ ldRow'[i].at = ldCall'[c].since
                                /\ ldCall'[c].phase = "in_grace" => LdMinIn > 0 /\ ldCall'[c].n >= LdMinIn
  BY <1>1, <1>2, <1>4, <1>6
<1>9. LdDiagCaller(c)'
  BY <1>1, <1>7, <1>8 DEF LdDiagCaller
<1>10. ASSUME NEW d \in LdCallers, d # c PROVE LdDiagCaller(d)'
  <2>1. LdDiagCaller(d) /\ ldCall'[d] = ldCall[d]
    BY <1>1, <1>10 DEF LdMoved, LdDiagOK
  <2>2. CASE LdIp(d) = i
    <3>1. ~LdHeld(d)
      BY <1>1, <1>10, <2>2 DEF LdLockOK, LdHeld, LdFree, i
    <3> QED
      BY <2>1, <3>1 DEF LdDiagCaller, LdHeld, LdFree
  <2>3. CASE LdIp(d) # i
    BY <1>1, <1>2, <1>3, <1>4, <2>1, <2>3, LdDiagStays
  <2> QED
    BY <2>2, <2>3
<1>11. \A d \in LdCallers : LdDiagCaller(d)'
  BY <1>9, <1>10
<1> QED
  BY <1>5, <1>11 DEF LdDiagOK

LEMMA LdDiagStep ==
    ASSUME LdShape, LdLockOK, LdDiagOK, LdNext
    PROVE  LdDiagOK'
<1> USE DEF LdPure, ldWorld, ldStore, ldEngine
<1>1. ldNow \in Nat /\ \A d \in LdCallers : LdIp(d) \in LdIPs
  BY LdSceneIs DEF LdShape, LdCallType, LdIp
<1>2. ASSUME NEW c \in LdCallers, LdPlain(c) PROVE LdDiagOK'
  <2>1. LdMoved(c) /\ ldNow' = ldNow /\ ldRow' = ldRow
    BY <1>2, LdPlainLeaves, LdPlainMoves
  <2>2. /\ ldCall'[c].at # "mark"
        /\ ldCall'[c].at = "track" => ldCall'[c].since = ldRow[ldCall'[c].ip].at
    BY <1>2, LdPlainMoves
  <2>3. LdDiagCaller(c)'
    BY <2>1, <2>2 DEF LdDiagCaller, LdIp
  <2> QED
    BY <2>1, <2>3, LdDiagFrame
<1>3. ASSUME NEW c \in LdCallers, LdBusy(c) PROVE LdDiagOK'
  <2>1. CASE LdTrack(c)
    BY <2>1, LdDiagTrack
  <2>2. CASE LdMark(c)
    <3>1. /\ LdMoved(c) /\ ldCall'[c].at = "bump"
          /\ \A j \in LdIPs : ldRow'[j].at = ldRow[j].at /\ ldRow'[j].total = ldRow[j].total
                              /\ ldRow'[j].after = ldRow[j].after
      BY <2>2, LdMarkMoves
    <3>2. ldNow' = ldNow
      BY <2>2 DEF LdMark
    <3>3. LdDiagCaller(c)'
      BY <3>1 DEF LdDiagCaller
    <3> QED
      BY <3>1, <3>2, <3>3, LdDiagFrame
  <2>3. CASE LdRecord(c)
    <3>1. /\ LdMoved(c) /\ ldCall'[c].at = "clear"
          /\ \A j \in LdIPs : j # LdIp(c) => ldRow'[j] = ldRow[j]
          /\ LdRowFresh(LdIp(c))
      BY <2>3, LdRecordMoves DEF LdRowFresh
    <3>2. ldNow' = ldNow
      BY <2>3 DEF LdRecord
    <3>3. LdDiagCaller(c)'
      BY <3>1 DEF LdDiagCaller
    <3>4. \A j \in LdIPs : \/ LdRowFresh(j)
                           \/ ldRow'[j].at = ldRow[j].at /\ ldRow'[j].total = ldRow[j].total
                              /\ ldRow'[j].after = ldRow[j].after
      BY <3>1
    <3> QED
      BY <3>1, <3>2, <3>3, <3>4, LdDiagFrame
  <2>4. CASE ~(LdTrack(c) \/ LdMark(c) \/ LdRecord(c))
    <3>1. ldNow' = ldNow /\ ldRow' = ldRow
      BY <1>3, <2>4, LdRateMoves DEF LdBusy, LdLock, LdRising, LdClear, LdAudit
    <3>2. LdMoved(c) /\ ldCall'[c].at \notin {"track", "mark"}
      <4>1. CASE \E i \in LdIPs : LdLock(c, i)
        BY <4>1, LdLockMoves
      <4>2. CASE \E i \in LdIPs, r \in LdRules : LdRising(c, i, r)
        BY <4>2, LdRisingMoves
      <4>3. CASE LdRate(c) \/ LdRateFails(c)
        BY <4>3, LdRateMoves
      <4>4. CASE LdClear(c)
        BY <4>4, LdToMoves, LdAtsAre DEF LdClear
      <4>5. CASE LdAudit(c)
        BY <4>5, LdToMoves, LdAtsAre DEF LdAudit
      <4> QED
        BY <1>3, <2>4, <4>1, <4>2, <4>3, <4>4, <4>5 DEF LdBusy
    <3>3. LdDiagCaller(c)'
      BY <3>2 DEF LdDiagCaller
    <3> QED
      BY <3>1, <3>2, <3>3, LdDiagFrame
  <2> QED
    BY <2>1, <2>2, <2>3, <2>4
<1>4. ASSUME ldCall' = ldCall, ldNow' \in Nat, ldNow' >= ldNow,
             \A j \in LdIPs : ldRow'[j] = ldRow[j] \/ LdRowFresh(j)
      PROVE  LdDiagOK'
  <2>1. \A j \in LdIPs : ldRow'[j].after <= ldRow'[j].total
    BY <1>4 DEF LdDiagOK, LdRowFresh
  <2>2. ASSUME NEW d \in LdCallers PROVE LdDiagCaller(d)'
    BY <1>1, <1>4, LdDiagStays DEF LdDiagOK
  <2> QED
    BY <2>1, <2>2 DEF LdDiagOK
<1>5. CASE LdRowStep
  <2>1. ldNow' = ldNow /\ ldCall' = ldCall /\ \A j \in LdIPs : ldRow'[j] = ldRow[j] \/ LdRowFresh(j)
    BY <1>5, LdOthersMoves DEF LdRowStep
  <2> QED
    BY <1>1, <1>4, <2>1
<1>6. CASE LdVerbStep \/ LdSetArmed \/ LdTick
  <2>1. ldRow' = ldRow /\ ldCall' = ldCall /\ (ldNow' = ldNow \/ ldNow' = ldNow + 1)
    BY <1>6 DEF LdVerbStep, LdAuthorize, LdBanFails, LdSetArmed, LdTick
  <2> QED
    BY <1>1, <1>4, <2>1
<1>7. CASE LdRestart
  <2>1. \A c \in LdCallers : ldCall'[c].at = "idle"
    BY <1>7, LdIdleIs DEF LdRestart
  <2>2. ldRow' = ldRow
    BY <1>7 DEF LdRestart
  <2> QED
    BY <2>1, <2>2 DEF LdDiagOK, LdDiagCaller
<1> QED
  BY <1>2, <1>3, <1>5, <1>6, <1>7, LdSteps

---------------------------------------------------------------------------
(* The ineffective ban that must not become permanent in silence.          *)

LEMMA LdLoudFrame ==
    ASSUME LdShape, LdLoudOK, NEW c \in LdCallers, LdMoved(c), ldLeaky' = ldLeaky,
           ldKnown \subseteq ldKnown', ldBlind \subseteq ldBlind', ldHad \subseteq ldHad',
           \A j \in LdIPs : ldRow'[j].total = ldRow[j].total \/ ldRow'[j].total = 0,
           ldCall[c].at = "bump" => LdIp(c) \in ldKnown' \cup ldBlind',
           ldCall'[c].at # "mark",
           ldCall'[c].at = "record" /\ ldCall'[c].ttl = 0 /\ ldCall'[c].ip \in ldLeaky \ ldBlind' =>
              "permanent" \in ldCall'[c].says
    PROVE  LdLoudOK'
<1>1. \A d \in LdCallers : d # c => ldCall'[d] = ldCall[d] /\ LdIp(d)' = LdIp(d)
  BY DEF LdMoved, LdIp
<1>2. ASSUME NEW i \in LdIPs, ldRow'[i].total > 0
      PROVE  i \in ldKnown' \cup ldBlind' \/ \E d \in LdCallers : ldCall'[d].at = "bump" /\ LdIp(d)' = i
  <2>1. ldRow[i].total > 0
    BY <1>2 DEF LdShape, LdRowType
  <2>2. CASE i \in ldKnown \cup ldBlind
    BY <2>2
  <2>3. CASE \E d \in LdCallers : ldCall[d].at = "bump" /\ LdIp(d) = i
    BY <1>1, <2>3
  <2> QED
    BY <2>1, <2>2, <2>3 DEF LdLoudOK
<1>3. \A d \in LdCallers : ldCall'[d].at = "mark" => LdIp(d)' \in ldKnown' \cup ldBlind'
  BY <1>1 DEF LdLoudOK
<1>4. ldLeaky' \subseteq ldHad' \cup ldBlind'
  BY DEF LdLoudOK
<1>5. \A d \in LdCallers :
         ldCall'[d].at = "record" /\ ldCall'[d].ttl = 0 /\ LdIp(d)' \in ldLeaky' \ ldBlind' => "permanent" \in ldCall'[d].says
  BY <1>1 DEF LdLoudOK, LdIp
<1> QED
  BY <1>2, <1>3, <1>4, <1>5 DEF LdLoudOK

LEMMA LdLoudTrack ==
    ASSUME LdMinIn # 1, LdShape, LdLockOK, LdDiagOK, LdLoudOK, NEW c \in LdCallers, LdTrack(c)
    PROVE  LdLoudOK'
<1> DEFINE i == LdIp(c)
<1>1. /\ LdMoved(c) /\ ldCall[c].at = "track" /\ ldCall'[c].ip = i
      /\ ldCall'[c].n = ldRow'[i].total /\ ldCall'[c].at \in {"mark", "bump"}
      /\ ldRow' \in [LdIPs -> LdRowType] /\ \A j \in LdIPs : j # i => ldRow'[j] = ldRow[j]
      /\ (ldRow'[i].total = ldRow[i].total \/ ldRow'[i].total = ldRow[i].total + 1)
  BY LdTrackMoves
<1>2. UNCHANGED <<ldKnown, ldBlind, ldLeaky, ldHad>>
  BY DEF LdTrack
<1>3. i \in LdIPs /\ ldRow[i].total \in Nat /\ ldRow'[i].total \in Nat /\ LdMinIn \in Nat
  BY <1>1, LdAssumption DEF LdShape, LdCallType, LdIp, LdRowType
<1>4. LdDiagCaller(c)'
  BY LdDiagTrack DEF LdDiagOK
<1>5. ldCall'[c].at = "mark" => ldCall'[c].n >= 2
  <2>1. ldCall'[c].at = "mark" => /\ ldCall'[c].phase # "none"
                                  /\ ldCall'[c].phase = "post_grace" => ldCall'[c].n >= 2
                                  /\ ldCall'[c].phase = "in_grace" => LdMinIn > 0 /\ ldCall'[c].n >= LdMinIn
    BY <1>4 DEF LdDiagCaller
  <2>2. ldCall'[c].phase \in LdPhases
    BY <1>1 DEF LdMoved, LdCallType
  <2> QED
    BY <1>1, <1>3, <2>1, <2>2 DEF LdPhases
<1>6. ldCall'[c].at = "mark" => ldRow[i].total > 0
  BY <1>1, <1>3, <1>5
<1>7. \A d \in LdCallers : ldCall[d].at = "bump" => LdIp(d) # i
  BY <1>1 DEF LdLockOK, LdHeld, LdFree
<1>8. \A d \in LdCallers : d # c => ldCall'[d] = ldCall[d] /\ LdIp(d)' = LdIp(d)
  BY <1>1 DEF LdMoved, LdIp
<1>9. LdIp(c)' = i
  BY <1>1 DEF LdIp
<1> HIDE DEF i
<1>10. ldCall'[c].at = "mark" => i \in ldKnown \cup ldBlind
  BY <1>3, <1>6, <1>7 DEF LdLoudOK
<1>11. \A d \in LdCallers : ldCall'[d].at = "mark" => LdIp(d)' \in ldKnown \cup ldBlind
  BY <1>8, <1>9, <1>10 DEF LdLoudOK
<1>12. ASSUME NEW j \in LdIPs, ldRow'[j].total > 0
       PROVE  j \in ldKnown \cup ldBlind \/ \E d \in LdCallers : ldCall'[d].at = "bump" /\ LdIp(d)' = j
  <2>1. CASE j = i
    BY <1>1, <1>9, <1>10, <2>1
  <2>2. CASE j # i
    <3>1. j \in ldKnown \cup ldBlind \/ \E d \in LdCallers : ldCall[d].at = "bump" /\ LdIp(d) = j
      BY <1>1, <1>12, <2>2 DEF LdLoudOK
    <3> QED
      BY <1>1, <1>8, <3>1
  <2> QED
    BY <2>1, <2>2
<1>13. \A d \in LdCallers :
          ldCall'[d].at = "record" /\ ldCall'[d].ttl = 0 /\ LdIp(d)' \in ldLeaky \ ldBlind => "permanent" \in ldCall'[d].says
  BY <1>1, <1>8 DEF LdLoudOK
<1> QED
  BY <1>2, <1>11, <1>12, <1>13 DEF LdLoudOK

LEMMA LdLoudMark ==
    ASSUME LdShape, LdLockOK, LdLoudOK, NEW c \in LdCallers, LdMark(c)
    PROVE  LdLoudOK'
<1> DEFINE i == LdIp(c)
<1>1. /\ LdMoved(c) /\ ldCall[c].at = "mark" /\ ldCall'[c].at = "bump"
      /\ \A j \in LdIPs : ldRow'[j].total = ldRow[j].total
      /\ \/ ldHad' = ldHad /\ ldLeaky' = ldLeaky
         \/ ldHad' = ldHad \cup ({i} \cap ldKnown) /\ ldLeaky' = ldLeaky \cup {i}
  BY LdMarkMoves
<1>2. UNCHANGED <<ldKnown, ldBlind>>
  BY DEF LdMark
<1>3. i \in ldKnown \cup ldBlind
  BY <1>1 DEF LdLoudOK
<1>4. \A d \in LdCallers : d # c /\ ldCall[d].at = "record" => LdIp(d) # i
  BY <1>1 DEF LdLockOK, LdHeld, LdFree
<1>5. \A d \in LdCallers : d # c => ldCall'[d] = ldCall[d] /\ LdIp(d)' = LdIp(d)
  BY <1>1 DEF LdMoved, LdIp
<1> HIDE DEF i
<1>6. ldLeaky' \subseteq ldHad' \cup ldBlind'
  BY <1>1, <1>2, <1>3 DEF LdLoudOK
<1>7. \A d \in LdCallers : ldCall'[d].at = "mark" => LdIp(d)' \in ldKnown' \cup ldBlind'
  BY <1>1, <1>2, <1>5 DEF LdLoudOK
<1>8. ASSUME NEW j \in LdIPs, ldRow'[j].total > 0
      PROVE  j \in ldKnown' \cup ldBlind' \/ \E d \in LdCallers : ldCall'[d].at = "bump" /\ LdIp(d)' = j
  <2>1. j \in ldKnown \cup ldBlind \/ \E d \in LdCallers : ldCall[d].at = "bump" /\ LdIp(d) = j
    BY <1>1, <1>8 DEF LdLoudOK
  <2> QED
    BY <1>1, <1>2, <1>5, <2>1
<1>9. \A d \in LdCallers :
         ldCall'[d].at = "record" /\ ldCall'[d].ttl = 0 /\ LdIp(d)' \in ldLeaky' \ ldBlind' => "permanent" \in ldCall'[d].says
  BY <1>1, <1>2, <1>4, <1>5 DEF LdLoudOK
<1> QED
  BY <1>6, <1>7, <1>8, <1>9 DEF LdLoudOK

LEMMA LdLoudStep ==
    ASSUME LdMinIn # 1, LdShape, LdLockOK, LdDiagOK, LdLoudOK, LdNext
    PROVE  LdLoudOK'
<1> USE DEF LdPure, ldWorld, ldStore, ldEngine
<1>1. ASSUME NEW c \in LdCallers, LdPlain(c) PROVE LdLoudOK'
  <2>1. LdMoved(c) /\ UNCHANGED <<ldRow, ldHad, ldLeaky>> /\ ldKnown \subseteq ldKnown' /\ ldBlind \subseteq ldBlind'
    BY <1>1, LdPlainLeaves, LdPlainMoves
  <2>2. ldLeaky \subseteq ldHad \cup ldBlind'
    BY <2>1 DEF LdLoudOK
  <2>3. /\ ldCall[c].at = "bump" => LdIp(c) \in ldKnown' \cup ldBlind'
        /\ ldCall'[c].at # "mark"
    BY <1>1, LdPlainMoves DEF LdIp
  <2>4. ldCall'[c].at = "record" /\ ldCall'[c].ttl = 0 /\ ldCall'[c].ip \in ldHad \ ldBlind' => "permanent" \in ldCall'[c].says
    BY <1>1, LdPlainMoves DEF LdKeeps
  <2> QED
    BY <2>1, <2>2, <2>3, <2>4, LdLoudFrame
<1>2. ASSUME NEW c \in LdCallers, LdBusy(c) PROVE LdLoudOK'
  <2>1. CASE LdTrack(c)
    BY <2>1, LdLoudTrack
  <2>2. CASE LdMark(c)
    BY <2>2, LdLoudMark
  <2>3. CASE LdRecord(c)
    <3>1. /\ LdMoved(c) /\ ldCall[c].at = "record" /\ ldCall'[c].at = "clear"
          /\ \A j \in LdIPs : ldRow'[j].total = ldRow[j].total \/ ldRow'[j].total = 0
          /\ ldKnown \subseteq ldKnown'
      BY <2>3, LdRecordMoves
    <3>2. UNCHANGED <<ldHad, ldLeaky, ldBlind>>
      BY <2>3 DEF LdRecord
    <3> QED
      BY <3>1, <3>2, LdLoudFrame
  <2>4. CASE ~(LdTrack(c) \/ LdMark(c) \/ LdRecord(c))
    <3>1. UNCHANGED <<ldRow, ldKnown, ldHad, ldLeaky, ldBlind>>
      BY <1>2, <2>4, LdRateMoves DEF LdBusy, LdLock, LdRising, LdClear, LdAudit
    <3>2. LdMoved(c) /\ ldCall[c].at # "bump" /\ ldCall'[c].at # "mark" /\ (ldCall'[c].at = "record" => ldCall'[c].ttl # 0)
      <4>1. CASE \E i \in LdIPs : LdLock(c, i)
        BY <4>1, LdLockMoves
      <4>2. CASE \E i \in LdIPs, r \in LdRules : LdRising(c, i, r)
        BY <4>2, LdRisingMoves
      <4>3. CASE LdRate(c) \/ LdRateFails(c)
        BY <4>3, LdRateMoves DEF LdKeeps
      <4>4. CASE LdClear(c)
        BY <4>4, LdToMoves, LdAtsAre DEF LdClear
      <4>5. CASE LdAudit(c)
        BY <4>5, LdToMoves, LdAtsAre DEF LdAudit
      <4> QED
        BY <1>2, <2>4, <4>1, <4>2, <4>3, <4>4, <4>5 DEF LdBusy
    <3> QED
      BY <3>1, <3>2, LdLoudFrame
  <2> QED
    BY <2>1, <2>2, <2>3, <2>4
<1>3. ASSUME UNCHANGED <<ldCall, ldKnown, ldBlind, ldHad, ldLeaky>>,
             \A j \in LdIPs : ldRow'[j] = ldRow[j] \/ ldRow'[j].total = 0
      PROVE  LdLoudOK'
  BY <1>3 DEF LdLoudOK, LdIp
<1>4. CASE LdRowStep
  BY <1>3, <1>4, LdOthersMoves DEF LdRowStep, LdRowFresh
<1>5. CASE LdVerbStep \/ LdSetArmed \/ LdTick
  BY <1>3, <1>5 DEF LdVerbStep, LdAuthorize, LdBanFails, LdSetArmed, LdTick
<1>6. CASE LdRestart
  <2>1. \A c \in LdCallers : ldCall'[c].at = "idle"
    BY <1>6, LdIdleIs DEF LdRestart
  <2>2. UNCHANGED <<ldRow, ldKnown, ldHad, ldLeaky>> /\ ldBlind \subseteq ldBlind'
        /\ \A c \in LdCallers : ldCall[c].at = "bump" => LdIp(c) \in ldBlind'
    BY <1>6 DEF LdRestart
  <2> QED
    BY <2>1, <2>2 DEF LdLoudOK
<1> QED
  BY <1>1, <1>2, <1>4, <1>5, <1>6, LdSteps

---------------------------------------------------------------------------
(* The edges of notify_only.                                               *)

LdUsed == {i \in LdIPs : ldEdges[i] # LdNoEdge}

LEMMA LdOneMore ==
    ASSUME NEW S, IsFiniteSet(S), NEW x
    PROVE  IsFiniteSet(S \cup {x}) /\ Cardinality(S \cup {x}) <= Cardinality(S) + 1
<1>1. IsFiniteSet(S \cup {x}) /\ Cardinality(S \cup {x}) = IF x \in S THEN Cardinality(S) ELSE Cardinality(S) + 1
  BY FS_AddElement
<1>2. Cardinality(S) \in Nat
  BY FS_CardinalityType
<1> QED
  BY <1>1, <1>2

\* Eviction makes room for one more.
LEMMA LdEdgeCount ==
    ASSUME LdShape, Cardinality(LdUsed) <= LdEdgeCap, NEW i \in LdIPs, NEW r \in LdRules, LdRemembers(i, r)
    PROVE  Cardinality(LdUsed') <= LdEdgeCap
<1>1. IsFiniteSet(LdUsed) /\ LdUsed \in SUBSET LdIPs
  BY LdAssumption, FS_Subset DEF LdUsed
<1>2. Cardinality(LdUsed) \in Nat /\ LdEdgeCap \in Nat \ {0}
  BY <1>1, LdAssumption, FS_CardinalityType
<1>3. PICK gone \in (IF ldEdges[i] # LdNoEdge THEN {{}} ELSE LdEvicts) :
         ldEdges' = [j \in LdIPs |-> IF j = i THEN [rule |-> r, at |-> ldNow]
                                     ELSE IF j \in gone THEN LdNoEdge ELSE ldEdges[j]]
  BY DEF LdRemembers
<1>4. LdUsed' \subseteq (LdUsed \ gone) \cup {i}
  BY <1>3 DEF LdUsed
<1>5. CASE ldEdges[i] # LdNoEdge
  <2>1. LdUsed' \in SUBSET LdUsed
    BY <1>4, <1>5 DEF LdUsed
  <2>2. Cardinality(LdUsed') <= Cardinality(LdUsed) /\ IsFiniteSet(LdUsed')
    BY <1>1, <2>1, FS_Subset
  <2>3. Cardinality(LdUsed') \in Nat
    BY <2>2, FS_CardinalityType
  <2> QED
    BY <1>2, <2>2, <2>3
<1>6. CASE ldEdges[i] = LdNoEdge /\ Cardinality(LdUsed) < LdEdgeCap
  <2>1. IsFiniteSet(LdUsed \cup {i}) /\ Cardinality(LdUsed \cup {i}) <= Cardinality(LdUsed) + 1
    BY <1>1, LdOneMore
  <2>2. LdUsed' \in SUBSET (LdUsed \cup {i})
    BY <1>4
  <2>3. Cardinality(LdUsed') <= Cardinality(LdUsed \cup {i}) /\ IsFiniteSet(LdUsed')
    BY <2>1, <2>2, FS_Subset
  <2>4. Cardinality(LdUsed') \in Nat /\ Cardinality(LdUsed \cup {i}) \in Nat
    BY <2>1, <2>3, FS_CardinalityType
  <2> QED
    BY <1>2, <1>6, <2>1, <2>3, <2>4
<1>7. CASE ldEdges[i] = LdNoEdge /\ ~(Cardinality(LdUsed) < LdEdgeCap)
  <2>1. gone \in LdEvicts
    BY <1>3, <1>7
  <2>2. Cardinality(LdUsed) # 0
    BY <1>2, <1>7
  <2>3. LdUsed # {}
    BY <1>1, <2>2, FS_EmptySet
  <2>4. PICK o \in LdUsed : o \in gone
    BY <1>7, <2>1, <2>3 DEF LdEvicts, LdUsed
  <2>5. IsFiniteSet(LdUsed \ {o}) /\ Cardinality(LdUsed \ {o}) = Cardinality(LdUsed) - 1
    BY <1>1, <2>4, FS_RemoveElement
  <2>6. Cardinality(LdUsed \ {o}) \in Nat
    BY <2>5, FS_CardinalityType
  <2>7. IsFiniteSet((LdUsed \ {o}) \cup {i}) /\ Cardinality((LdUsed \ {o}) \cup {i}) <= Cardinality(LdUsed \ {o}) + 1
    BY <2>5, LdOneMore
  <2>8. LdUsed' \in SUBSET ((LdUsed \ {o}) \cup {i})
    BY <1>4, <2>4
  <2>9. Cardinality(LdUsed') <= Cardinality((LdUsed \ {o}) \cup {i}) /\ IsFiniteSet(LdUsed')
    BY <2>7, <2>8, FS_Subset
  <2>10. Cardinality(LdUsed') \in Nat /\ Cardinality((LdUsed \ {o}) \cup {i}) \in Nat
    BY <2>7, <2>9, FS_CardinalityType
  <2> QED
    BY <1>2, <2>5, <2>6, <2>7, <2>9, <2>10
<1> QED
  BY <1>5, <1>6, <1>7

\* A step that leaves edges and trail alone, and takes no caller away from
\* the row it is to write or the edge it is to clear.
LEMMA LdEdgesFrame ==
    ASSUME LdShape, LdEdgesOK, UNCHANGED <<ldEdges, ldTrail>>, ldNow' \in Nat, ldNow' >= ldNow,
           \A d \in LdCallers :
              /\ ldCall[d].at = "audit" => ldCall'[d] = ldCall[d] \/ (ldCall'[d].at = "unaudited" /\ ldCall'[d].ip = ldCall[d].ip)
              /\ ldCall[d].at = "unaudited" => ldCall'[d] = ldCall[d]
              /\ ldCall'[d].at = "audit" => ldCall'[d] = ldCall[d]
    PROVE  LdEdgesOK'
<1>1. Cardinality({i \in LdIPs : ldEdges'[i] # LdNoEdge}) <= LdEdgeCap
  BY DEF LdEdgesOK
<1>2. ASSUME NEW i \in LdIPs, ldEdges[i].rule # "none" PROVE LdCovered(i)' /\ ldEdges'[i].at <= ldNow'
  <2>1. ldEdges[i].at \in Nat /\ ldNow \in Nat
    BY LdSceneIs DEF LdShape, LdEdgeType
  <2>2. ldEdges'[i].at <= ldNow'
    BY <1>2, <2>1 DEF LdEdgesOK
  <2>3. LdCovered(i)
    BY <1>2 DEF LdEdgesOK
  <2>4. LdCovered(i)'
    BY <2>3 DEF LdCovered, LdIp
  <2> QED
    BY <2>2, <2>4
<1>3. \A c \in LdCallers : ldCall'[c].at = "audit" => ldCall'[c].rule \in LdRules
  BY DEF LdEdgesOK
<1> QED
  BY <1>1, <1>2, <1>3 DEF LdEdgesOK

LEMMA LdEdgesRising ==
    ASSUME LdShape, LdEdgesOK, NEW c \in LdCallers, NEW i \in LdIPs, NEW r \in LdRules, LdRising(c, i, r)
    PROVE  LdEdgesOK'
<1>1. /\ LdMoved(c) /\ ldCall[c].at = "idle" /\ ldCall'[c].ip = i /\ ldCall'[c].rule = r
      /\ \/ ldCall'[c].at = "quiet" /\ ldEdges' = ldEdges
         \/ ldCall'[c].at = "audit" /\ LdRemembers(i, r)
  BY LdRisingMoves
<1>2. ldNow' = ldNow /\ ldTrail' = ldTrail /\ ldNow \in Nat
  BY LdSceneIs DEF LdRising, ldWorld, ldStore
<1>3. \A d \in LdCallers : d # c => ldCall'[d] = ldCall[d]
  BY <1>1 DEF LdMoved
<1>4. CASE ldCall'[c].at = "quiet" /\ ldEdges' = ldEdges
  BY <1>1, <1>2, <1>3, <1>4, LdEdgesFrame
<1>5. CASE ldCall'[c].at = "audit" /\ LdRemembers(i, r)
  <2>1. Cardinality({j \in LdIPs : ldEdges'[j] # LdNoEdge}) <= LdEdgeCap
    BY <1>5, LdEdgeCount DEF LdEdgesOK, LdUsed
  <2>2. PICK gone \in (IF ldEdges[i] # LdNoEdge THEN {{}} ELSE LdEvicts) :
           ldEdges' = [j \in LdIPs |-> IF j = i THEN [rule |-> r, at |-> ldNow]
                                       ELSE IF j \in gone THEN LdNoEdge ELSE ldEdges[j]]
    BY <1>5 DEF LdRemembers
  <2>3. \A j \in LdIPs : j # i => ldEdges'[j] = ldEdges[j] \/ ldEdges'[j].rule = "none"
    BY <2>2 DEF LdNoEdge
  <2>4. ldEdges'[i].rule = r /\ ldEdges'[i].at = ldNow
    BY <2>2
  <2>5. LdCovered(i)' /\ ldEdges'[i].at <= ldNow'
    BY <1>1, <1>2, <1>5, <2>4 DEF LdCovered, LdIp
  <2>6. ASSUME NEW j \in LdIPs, j # i, ldEdges'[j].rule # "none" PROVE LdCovered(j)' /\ ldEdges'[j].at <= ldNow'
    <3>1. ldEdges'[j] = ldEdges[j] /\ LdCovered(j) /\ ldEdges[j].at <= ldNow
      BY <2>3, <2>6 DEF LdEdgesOK
    <3>2. \A d \in LdCallers : ldCall[d].at \in {"audit", "unaudited"} => ldCall'[d] = ldCall[d]
      BY <1>1, <1>3
    <3> QED
      BY <1>2, <3>1, <3>2 DEF LdCovered, LdIp
  <2>7. \A d \in LdCallers : ldCall'[d].at = "audit" => ldCall'[d].rule \in LdRules
    BY <1>1, <1>3 DEF LdEdgesOK
  <2> QED
    BY <2>1, <2>5, <2>6, <2>7 DEF LdEdgesOK
<1> QED
  BY <1>1, <1>4, <1>5

LEMMA LdEdgesAudit ==
    ASSUME LdShape, LdEdgesOK, NEW c \in LdCallers, LdAudit(c)
    PROVE  LdEdgesOK'
<1> DEFINE i == LdIp(c)
           r == ldCall[c].rule
<1>1. LdMoved(c) /\ ldCall[c].at = "audit" /\ ldCall'[c].at = "quiet"
  BY LdToMoves, LdAtsAre DEF LdAudit
<1>2. /\ ldNow' = ldNow /\ ldEdges' = ldEdges /\ ldNow \in Nat /\ ldNow # LdNever
      /\ ldTrail' = [ldTrail EXCEPT ![i][r] = ldNow]
  BY LdSceneIs DEF LdAudit, ldWorld, ldEngine
<1>3. i \in LdIPs /\ r \in LdRules
  BY <1>1 DEF LdShape, LdCallType, LdIp, LdEdgesOK
<1>4. \A d \in LdCallers : d # c => ldCall'[d] = ldCall[d]
  BY <1>1 DEF LdMoved
<1>5. ldCall[c].rule = r /\ LdIp(c) = i
  OBVIOUS
<1> HIDE DEF i, r
<1>6. ldTrail'[i][r] = ldNow /\ \A j \in LdIPs, s \in LdRules : j # i \/ s # r => ldTrail'[j][s] = ldTrail[j][s]
  BY <1>2, <1>3 DEF LdShape
<1>7. ASSUME NEW j \in LdIPs, ldEdges[j].rule # "none" PROVE LdCovered(j)' /\ ldEdges'[j].at <= ldNow'
  <2>1. LdCovered(j) /\ ldEdges[j].at <= ldNow /\ ldEdges[j].rule \in LdRules
    BY <1>7 DEF LdEdgesOK, LdShape, LdEdgeType
  <2>2. CASE j = i /\ ldEdges[j].rule = r
    BY <1>2, <1>6, <2>1, <2>2 DEF LdCovered
  <2>3. CASE j # i \/ ldEdges[j].rule # r
    <3>1. ldTrail'[j][ldEdges[j].rule] = ldTrail[j][ldEdges[j].rule]
      BY <1>6, <2>1, <2>3
    <3>2. \A d \in LdCallers : ldCall[d].at = "audit" /\ LdIp(d) = j /\ ldCall[d].rule = ldEdges[j].rule =>
             ldCall'[d] = ldCall[d]
      BY <1>4, <1>5, <2>3
    <3>3. \A d \in LdCallers : ldCall[d].at = "unaudited" => ldCall'[d] = ldCall[d]
      BY <1>1, <1>4
    <3> QED
      BY <1>2, <2>1, <3>1, <3>2, <3>3 DEF LdCovered, LdIp
  <2> QED
    BY <2>2, <2>3
<1>8. Cardinality({j \in LdIPs : ldEdges'[j] # LdNoEdge}) <= LdEdgeCap
  BY <1>2 DEF LdEdgesOK
<1>9. \A d \in LdCallers : ldCall'[d].at = "audit" => ldCall'[d].rule \in LdRules
  BY <1>1, <1>4 DEF LdEdgesOK
<1> QED
  BY <1>2, <1>7, <1>8, <1>9 DEF LdEdgesOK

LEMMA LdEdgesClear ==
    ASSUME LdShape, LdEdgesOK, NEW c \in LdCallers, LdClear(c)
    PROVE  LdEdgesOK'
<1> DEFINE i == LdIp(c)
<1>1. LdMoved(c) /\ ldCall[c].at \in {"clear", "unaudited"} /\ ldCall'[c].at \in {"return", "quiet"}
  BY LdToMoves, LdAtsAre DEF LdClear
<1>2. ldNow' = ldNow /\ ldTrail' = ldTrail /\ ldEdges' = [ldEdges EXCEPT ![i] = LdNoEdge]
  BY DEF LdClear, ldWorld, ldStore
<1>3. i \in LdIPs
  BY DEF LdShape, LdCallType, LdIp
<1>4. \A d \in LdCallers : d # c => ldCall'[d] = ldCall[d]
  BY <1>1 DEF LdMoved
<1>5. ldEdges'[i] = LdNoEdge /\ LdNoEdge.rule = "none" /\ \A j \in LdIPs : j # i => ldEdges'[j] = ldEdges[j]
  BY <1>2, <1>3 DEF LdShape, LdNoEdge
<1>6. LdIp(c) = i
  OBVIOUS
<1> HIDE DEF i
<1>7. ASSUME NEW j \in LdIPs, ldEdges'[j].rule # "none" PROVE LdCovered(j)' /\ ldEdges'[j].at <= ldNow'
  <2>1. j # i /\ ldEdges'[j] = ldEdges[j]
    BY <1>5, <1>7
  <2>2. LdCovered(j) /\ ldEdges[j].at <= ldNow
    BY <1>7, <2>1 DEF LdEdgesOK
  <2>3. \A d \in LdCallers : ldCall[d].at \in {"audit", "unaudited"} /\ LdIp(d) = j => ldCall'[d] = ldCall[d]
    BY <1>4, <1>6, <2>1
  <2> QED
    BY <1>2, <2>1, <2>2, <2>3 DEF LdCovered, LdIp
<1>8. Cardinality(LdUsed') <= LdEdgeCap
  <2>1. IsFiniteSet(LdUsed) /\ LdUsed' \in SUBSET LdUsed
    BY <1>5, LdAssumption, FS_Subset DEF LdUsed
  <2>2. Cardinality(LdUsed') <= Cardinality(LdUsed) /\ IsFiniteSet(LdUsed')
    BY <2>1, FS_Subset
  <2>3. Cardinality(LdUsed') \in Nat /\ Cardinality(LdUsed) \in Nat /\ LdEdgeCap \in Nat
    BY <2>1, <2>2, LdAssumption, FS_CardinalityType
  <2> QED
    BY <2>2, <2>3 DEF LdEdgesOK, LdUsed
<1>9. \A d \in LdCallers : ldCall'[d].at = "audit" => ldCall'[d].rule \in LdRules
  BY <1>1, <1>4 DEF LdEdgesOK
<1> QED
  BY <1>7, <1>8, <1>9 DEF LdEdgesOK, LdUsed

LEMMA LdEdgesStep ==
    ASSUME LdShape, LdEdgesOK, LdNext
    PROVE  LdEdgesOK'
<1> USE DEF LdPure, ldWorld, ldStore, ldEngine
<1>1. ldNow \in Nat
  BY LdSceneIs
<1>2. ASSUME NEW c \in LdCallers, LdPlain(c) PROVE LdEdgesOK'
  <2>1. LdMoved(c) /\ UNCHANGED <<ldNow, ldEdges, ldTrail>>
    BY <1>2, LdPlainLeaves, LdPlainMoves
  <2>2. /\ ldCall[c].at = "audit" => ldCall'[c].at = "unaudited" /\ ldCall'[c].ip = ldCall[c].ip
        /\ ldCall[c].at # "unaudited" /\ ldCall'[c].at # "audit"
    BY <1>2, LdPlainMoves DEF LdKeeps
  <2> QED
    BY <1>1, <2>1, <2>2, LdEdgesFrame DEF LdMoved
<1>3. ASSUME NEW c \in LdCallers, LdBusy(c) PROVE LdEdgesOK'
  <2>1. CASE \E i \in LdIPs, r \in LdRules : LdRising(c, i, r)
    BY <2>1, LdEdgesRising
  <2>2. CASE LdClear(c)
    BY <2>2, LdEdgesClear
  <2>3. CASE LdAudit(c)
    BY <2>3, LdEdgesAudit
  <2>4. ASSUME LdMoved(c), UNCHANGED <<ldNow, ldEdges, ldTrail>>,
               ldCall[c].at \notin {"audit", "unaudited"}, ldCall'[c].at # "audit"
        PROVE  LdEdgesOK'
    BY <1>1, <2>4, LdEdgesFrame DEF LdMoved
  <2>5. CASE \E i \in LdIPs : LdLock(c, i)
    BY <2>4, <2>5, LdLockMoves DEF LdLock
  <2>6. CASE LdTrack(c)
    BY <2>4, <2>6, LdTrackMoves DEF LdTrack
  <2>7. CASE LdMark(c)
    BY <2>4, <2>7, LdMarkMoves DEF LdMark
  <2>8. CASE LdRate(c) \/ LdRateFails(c)
    BY <2>4, <2>8, LdRateMoves
  <2>9. CASE LdRecord(c)
    BY <2>4, <2>9, LdRecordMoves DEF LdRecord
  <2> QED
    BY <1>3, <2>1, <2>2, <2>3, <2>5, <2>6, <2>7, <2>8, <2>9 DEF LdBusy
<1>4. CASE LdRowStep
  <2>1. UNCHANGED <<ldNow, ldEdges, ldTrail, ldCall>>
    BY <1>4, LdOthersMoves DEF LdRowStep
  <2> QED
    BY <1>1, <2>1, LdEdgesFrame
<1>5. CASE LdVerbStep \/ LdSetArmed \/ LdTick
  <2>1. UNCHANGED <<ldEdges, ldTrail, ldCall>> /\ (ldNow' = ldNow \/ ldNow' = ldNow + 1)
    BY <1>5 DEF LdVerbStep, LdAuthorize, LdBanFails, LdSetArmed, LdTick
  <2> QED
    BY <1>1, <2>1, LdEdgesFrame
<1>6. CASE LdRestart
  <2>1. \A c \in LdCallers : ldCall'[c].at = "idle"
    BY <1>6, LdIdleIs DEF LdRestart
  <2>2. \A i \in LdIPs : ldEdges'[i] = LdNoEdge /\ ldEdges'[i].rule = "none"
    BY <1>6 DEF LdRestart, LdNoEdge
  <2>3. {i \in LdIPs : ldEdges'[i] # LdNoEdge} = {}
    BY <2>2
  <2>4. Cardinality({i \in LdIPs : ldEdges'[i] # LdNoEdge}) <= LdEdgeCap
    <3>1. Cardinality({}) = 0
      BY FS_EmptySet
    <3>2. Cardinality({i \in LdIPs : ldEdges'[i] # LdNoEdge}) = 0
      BY <2>3, <3>1, Zenon
    <3>3. LdEdgeCap \in Nat
      BY LdAssumption
    <3> QED
      BY <3>2, <3>3
  <2> QED
    BY <2>1, <2>2, <2>4 DEF LdEdgesOK
<1> QED
  BY <1>2, <1>3, <1>4, <1>5, <1>6, LdSteps

---------------------------------------------------------------------------
(* The theorems.                                                           *)

LEMMA LdInitOK == LdInit => LdIndInv /\ LdLoudOK
<1> SUFFICES ASSUME LdInit PROVE LdIndInv /\ LdLoudOK
  OBVIOUS
<1> USE DEF LdInit
<1>1. \A c \in LdCallers : ldCall[c] = LdIdle /\ ldCall[c].at = "idle"
  BY LdIdleIs
<1>2. \A i \in LdIPs : ldRow[i] = LdNoRow /\ ldRow[i].total = 0 /\ ldRow[i].after = 0 /\ ldStrikes[i] = 0
  BY LdNoRowIs
<1>3. \A i \in LdIPs : ldEdges[i] = LdNoEdge /\ ldEdges[i].rule = "none" /\ LdNoEdge \in LdEdgeType
  BY DEF LdNoEdge, LdEdgeType
<1>4. ldScene \in LdScenes /\ ldScene.time \in Nat /\ ldScene.faults \in Nat /\ LdNever \in Nat /\ LdMaxStrikes \in Nat
  <2>1. ldScene \in [ips : SUBSET LdIPs, callers : SUBSET LdCallers, env : SUBSET {"verbs", "strike", "notify"},
                     cap : Nat \ {0}, time : 0..LdNever, faults : Nat]
    BY LdAssumption
  <2>2. ldScene.time \in 0..LdNever /\ ldScene.faults \in Nat
    BY <2>1
  <2> QED
    BY <2>2, LdAssumption
<1>5. LdShape
  <2>1. ldRow \in [LdIPs -> LdRowType] /\ ldStrikes \in [LdIPs -> Nat] /\ ldCall \in [LdCallers -> LdCallType]
        /\ ldEdges \in [LdIPs -> LdEdgeType]
    BY <1>3, LdNoRowIs, LdIdleIs
  <2>2. ldTrail \in [LdIPs -> [LdRules -> 0..ldScene.time \cup {LdNever}]] /\ ldWin \in [start : Nat, n : Nat]
    OBVIOUS
  <2>3. ldNow \in 0..ldScene.time /\ ldFaults \in 0..ldScene.faults
    BY <1>4
  <2>4. ldKnown \cup ldHad \cup ldVerb \cup ldLeaky \cup ldBlind \subseteq LdIPs /\ ldPasses \subseteq LdPassType
    OBVIOUS
  <2>5. ldArmed \in BOOLEAN
    OBVIOUS
  <2> QED
    BY <1>4, <2>1, <2>2, <2>3, <2>4, <2>5, Zenon DEF LdShape
<1>6. LdWindowOK
  BY DEF LdWindowOK
<1>7. LdLockOK
  BY <1>1, <1>2, <1>4 DEF LdLockOK, LdHeld, LdFree
<1>8. LdDiagOK
  BY <1>1, <1>2 DEF LdDiagOK, LdDiagCaller
<1>9. LdEdgesOK
  <2>1. {i \in LdIPs : ldEdges[i] # LdNoEdge} = {}
    BY <1>3
  <2>2. Cardinality({}) = 0
    BY FS_EmptySet
  <2>3. Cardinality({i \in LdIPs : ldEdges[i] # LdNoEdge}) <= LdEdgeCap
    <3>1. Cardinality({i \in LdIPs : ldEdges[i] # LdNoEdge}) = 0
      BY <2>1, <2>2, Zenon
    <3>2. LdEdgeCap \in Nat
      BY LdAssumption
    <3> QED
      BY <3>1, <3>2
  <2> QED
    BY <1>1, <1>3, <2>3 DEF LdEdgesOK
<1>10. LdLoudOK
  BY <1>1, <1>2 DEF LdLoudOK
<1> QED
  BY <1>5, <1>6, <1>7, <1>8, <1>9, <1>10 DEF LdIndInv

LEMMA LdStutters ==
    ASSUME UNCHANGED ldVars
    PROVE  (LdIndInv => LdIndInv') /\ (LdLoudOK => LdLoudOK')
<1> USE DEF ldVars, ldWorld, ldStore, ldEngine
<1>1. LdShape => LdShape'
  BY Zenon DEF LdShape
<1>2. LdWindowOK => LdWindowOK'
  BY DEF LdWindowOK
<1>3. LdLockOK => LdLockOK'
  BY DEF LdLockOK, LdHeld, LdIp
<1>4. LdDiagOK => LdDiagOK'
  BY DEF LdDiagOK, LdDiagCaller, LdIp
<1>5. LdEdgesOK => LdEdgesOK'
  BY DEF LdEdgesOK, LdCovered, LdIp
<1>6. LdLoudOK => LdLoudOK'
  BY DEF LdLoudOK, LdIp
<1> QED
  BY <1>1, <1>2, <1>3, <1>4, <1>5, <1>6 DEF LdIndInv

\* Decide, its diagnosis and its rate limit, the operator's verbs, the sweep
\* and restarts keep the strike lock, the window, the diagnosis and the edges
\* consistent.
THEOREM LdInvariant == LdSpec => []LdIndInv
<1>1. LdInit => LdIndInv
  BY LdInitOK
<1>2. LdIndInv /\ [LdNext]_ldVars => LdIndInv'
  <2> SUFFICES ASSUME LdIndInv, [LdNext]_ldVars PROVE LdIndInv'
    OBVIOUS
  <2>1. CASE UNCHANGED ldVars
    BY <2>1, LdStutters
  <2>2. CASE LdNext
    BY <2>2, LdShapeStep, LdWindowStep, LdLockStep, LdDiagStep, LdEdgesStep DEF LdIndInv
  <2> QED
    BY <2>1, <2>2
<1> QED
  BY <1>1, <1>2, PTL DEF LdSpec

\* Only RecordStrike gives a strike, to the address of its caller.
LEMMA LdStrikeBy ==
    ASSUME LdShape, LdNext, NEW i \in LdIPs, ldStrikes'[i] # ldStrikes[i]
    PROVE  \E c \in LdCallers : LdRecord(c) /\ LdIp(c) = i
<1> USE DEF LdPure, ldWorld, ldStore, ldEngine
<1>1. ASSUME NEW c \in LdCallers, LdPlain(c) PROVE FALSE
  BY <1>1, LdPlainLeaves
<1>2. ~LdRowStep
  BY LdOthersMoves DEF LdRowStep
<1>3. ~(LdVerbStep \/ LdSetArmed \/ LdTick \/ LdRestart)
  BY DEF LdVerbStep, LdAuthorize, LdBanFails, LdSetArmed, LdTick, LdRestart
<1>4. PICK c \in LdCallers : LdBusy(c)
  BY <1>1, <1>2, <1>3, LdSteps
<1>5. LdRecord(c)
  BY <1>4, LdRateMoves DEF LdBusy, LdLock, LdRising, LdTrack, LdMark, LdClear, LdAudit
<1>6. ldStrikes' = [ldStrikes EXCEPT ![LdIp(c)] = @ + 1]
  BY <1>5, LdRecordMoves
<1>7. LdIp(c) = i
  BY <1>6 DEF LdShape
<1> QED
  BY <1>5, <1>7

LEMMA LdRungsStep ==
    ASSUME LdIndInv, LdNext, NEW i \in LdIPs, ldStrikes'[i] # ldStrikes[i]
    PROVE  /\ ldRow'[i].strike = ldStrikes'[i]
           /\ ldRow'[i].until = (IF LdRung(ldStrikes'[i]) = 0 THEN LdNever ELSE ldNow + LdRung(ldStrikes'[i]))
<1> USE DEF LdIndInv
<1>1. PICK c \in LdCallers : LdRecord(c) /\ LdIp(c) = i
  BY LdStrikeBy
<1>2. /\ ldCall[c].at = "record" /\ ldStrikes' = [ldStrikes EXCEPT ![i] = @ + 1]
      /\ ldRow'[i].strike = ldCall[c].strike
      /\ ldRow'[i].until = (IF ldCall[c].ttl = 0 THEN LdNever ELSE ldNow + ldCall[c].ttl)
  BY <1>1, LdRecordMoves
<1>3. ldCall[c].strike = ldStrikes[i] + 1 /\ ldCall[c].ttl = LdRung(ldCall[c].strike)
  BY <1>1, <1>2 DEF LdLockOK
<1>4. ldStrikes'[i] = ldStrikes[i] + 1
  BY <1>2 DEF LdShape
<1> QED
  BY <1>2, <1>3, <1>4

LEMMA LdLoudHolds ==
    ASSUME LdIndInv, LdLoudOK, LdNext, NEW c \in LdCallers, ldCall[c].at = "record",
           ldStrikes'[LdIp(c)] # ldStrikes[LdIp(c)], ldRow'[LdIp(c)].until = LdNever, LdIp(c) \in ldLeaky \ ldBlind
    PROVE  "permanent" \in ldCall[c].says
<1> USE DEF LdIndInv
<1>1. LdIp(c) \in LdIPs
  BY DEF LdShape, LdCallType, LdIp
<1>2. PICK d \in LdCallers : LdRecord(d) /\ LdIp(d) = LdIp(c)
  BY <1>1, LdStrikeBy
<1>3. ldCall[d].at = "record"
  BY <1>2, LdRecordMoves
<1>4. d = c
  BY <1>2, <1>3 DEF LdLockOK, LdHeld, LdFree
<1>5. ldRow'[LdIp(c)].until = (IF ldCall[c].ttl = 0 THEN LdNever ELSE ldNow + ldCall[c].ttl)
  BY <1>2, <1>4, LdRecordMoves
<1>6. ldCall[c].strike \in Nat /\ ldStrikes[LdIp(c)] \in Nat
  BY <1>1 DEF LdShape, LdCallType
<1>7. ldCall[c].strike \in Nat \ {0} /\ ldCall[c].ttl = LdRung(ldCall[c].strike)
  BY <1>6 DEF LdLockOK
<1>8. PICK k \in DOMAIN LdTTLs : ldCall[c].ttl = LdTTLs[k]
  BY <1>7, LdAssumption DEF LdRung
<1>9. ldNow + ldCall[c].ttl < LdNever
  BY <1>8, LdSceneIs
<1>10. ldCall[c].ttl = 0
  BY <1>5, <1>8, <1>9, LdSceneIs
<1> QED
  BY <1>10 DEF LdLoudOK

LEMMA LdUnauditedStep ==
    ASSUME LdIndInv, LdNext, NEW c \in LdCallers, ldCall'[c].at = "quiet", ldCall[c].at = "idle"
    PROVE  LET call == ldCall'[c]
           IN  \/ ldTrail[call.ip][call.rule] # LdNever /\ ldNow < ldTrail[call.ip][call.rule] + LdEdgeWindow
               \/ \E d \in LdCallers : ldCall[d].at \in {"audit", "unaudited"} /\ ldCall[d].ip = call.ip
<1> USE DEF LdIndInv
<1>1. ldCall'[c] # ldCall[c]
  OBVIOUS
<1>2. ASSUME NEW d \in LdCallers, LdMoved(d) PROVE d = c
  BY <1>1, <1>2 DEF LdMoved
<1>3. ASSUME NEW d \in LdCallers, LdPlain(d) PROVE FALSE
  BY <1>2, <1>3, LdPlainMoves
<1>4. ~LdRowStep
  BY <1>1, LdOthersMoves DEF LdRowStep
<1>5. ~(LdVerbStep \/ LdSetArmed \/ LdTick)
  BY <1>1 DEF LdVerbStep, LdAuthorize, LdBanFails, LdSetArmed, LdTick
<1>6. ~LdRestart
  BY LdIdleIs DEF LdRestart
<1>7. PICK d \in LdCallers : LdBusy(d)
  BY <1>3, <1>4, <1>5, <1>6, LdSteps
<1>8. \E i \in LdIPs, r \in LdRules : LdRising(c, i, r)
  <2>1. ~\E i \in LdIPs : LdLock(d, i)
    BY <1>2, LdLockMoves
  <2>2. ~LdTrack(d)
    BY <1>2, LdTrackMoves
  <2>3. ~LdMark(d)
    BY <1>2, LdMarkMoves
  <2>4. ~(LdRate(d) \/ LdRateFails(d))
    BY <1>2, LdRateMoves
  <2>5. ~LdRecord(d)
    BY <1>2, LdRecordMoves
  <2>6. ~LdClear(d)
    BY <1>2, LdToMoves, LdAtsAre DEF LdClear
  <2>7. ~LdAudit(d)
    BY <1>2, LdToMoves, LdAtsAre DEF LdAudit
  <2>8. \E i \in LdIPs, r \in LdRules : LdRising(d, i, r)
    BY <1>7, <2>1, <2>2, <2>3, <2>4, <2>5, <2>6, <2>7 DEF LdBusy
  <2>9. LdMoved(d)
    BY <2>8, LdRisingMoves
  <2> QED
    BY <1>2, <2>8, <2>9
<1>9. PICK i \in LdIPs, r \in LdRules : LdRising(c, i, r)
  BY <1>8
<1>10. ldCall'[c].ip = i /\ ldCall'[c].rule = r /\ ldEdges[i].rule = r /\ ~LdEdgeOld(i)
  BY <1>9, LdRisingMoves
<1>11. ldEdges[i] # LdNoEdge /\ r # "none"
  BY <1>10, LdAssumption DEF LdNoEdge
<1>12. ldEdges[i].at \in Nat /\ ldNow \in Nat /\ LdEdgeWindow \in Nat
  BY LdSceneIs, LdAssumption DEF LdShape, LdEdgeType
<1>13. ldTrail[i][r] \in 0..ldScene.time \cup {LdNever}
  BY DEF LdShape
<1>14. ldTrail[i][r] \in Nat
  BY <1>13, LdSceneIs
<1>15. ldNow < ldEdges[i].at + LdEdgeWindow
  BY <1>10, <1>11, <1>12 DEF LdEdgeOld
<1>16. LdCovered(i)
  BY <1>10, <1>11 DEF LdEdgesOK
<1> QED
  BY <1>10, <1>12, <1>14, <1>15, <1>16 DEF LdCovered, LdIp

LEMMA LdTyped == ASSUME LdIndInv PROVE LdTypeOK
<1> USE DEF LdIndInv
<1>1. \A i \in LdIPs : /\ ldStrikes[i] \in 0..LdMaxStrikes /\ ldRow[i].after <= ldRow[i].total
                       /\ ldEdges[i].rule \in LdRules \cup {"none"}
  BY LdAssumption DEF LdShape, LdLockOK, LdDiagOK, LdEdgeType
<1>2. \A c \in LdCallers : ldCall[c].at \in LdAts /\ ldCall[c].says \subseteq {"leak", "permanent"}
  BY DEF LdShape, LdCallType, LdSayings
<1> QED
  BY <1>1, <1>2, Zenon DEF LdTypeOK, LdShape, LdEdgesOK

\* The decision engine's promises (LdSafe), for every ladder, window, cap, set
\* of addresses and of callers: no rung given twice, no minute over twice the
\* cap, no alarm for what did not happen, no permanent ban of a leaky address
\* in silence, no unaudited notification. ban_ineffective_min_events_in_grace
\* = 1 is excluded: the first suppressed event of a manual ban then marks the
\* ban before BumpLastSeen has made the offender row that remembers the mark.
THEOREM LdEngineIsSafe == ASSUME LdMinIn # 1 PROVE LdSpec => LdSafe
<1>1. LdInit => LdIndInv /\ LdLoudOK
  BY LdInitOK
<1>2. ASSUME LdIndInv, LdLoudOK, [LdNext]_ldVars PROVE LdLoudOK'
  <2>1. CASE UNCHANGED ldVars
    BY <1>2, <2>1, LdStutters
  <2>2. CASE LdNext
    BY <1>2, <2>2, LdLoudStep DEF LdIndInv
  <2> QED
    BY <1>2, <2>1, <2>2
<1>3. ASSUME LdIndInv PROVE LdTypeOK /\ LdPaceHolds
  BY <1>3, LdTyped, LdWindowBound DEF LdIndInv
<1>4. ASSUME LdIndInv, [LdNext]_ldVars
      PROVE  [\A i \in LdIPs : ldStrikes'[i] # ldStrikes[i] =>
                /\ ldRow'[i].strike = ldStrikes'[i]
                /\ ldRow'[i].until = (IF LdRung(ldStrikes'[i]) = 0 THEN LdNever
                                      ELSE ldNow + LdRung(ldStrikes'[i]))]_ldVars
  BY <1>4, LdRungsStep
<1>5. ASSUME LdIndInv, [LdNext]_ldVars
      PROVE  [\A c \in LdCallers :
                LET r == ldRow[LdIp(c)]
                IN  (ldCall[c].at = "mark" /\ "leak" \in ldCall'[c].says /\ r.total = ldCall[c].n) =>
                       /\ ldCall[c].phase = "post_grace" => ldNow >= r.at + LdGrace
                       /\ ldCall[c].phase = "in_grace" => r.total >= LdMinIn]_ldVars
  BY <1>5 DEF LdIndInv, LdDiagOK, LdDiagCaller
<1>6. ASSUME LdIndInv, LdLoudOK, [LdNext]_ldVars
      PROVE  [\A c \in LdCallers : LET i == LdIp(c) IN
                (ldCall[c].at = "record" /\ ldStrikes'[i] # ldStrikes[i] /\ ldRow'[i].until = LdNever
                    /\ i \in ldLeaky \ ldBlind) => "permanent" \in ldCall[c].says]_ldVars
  BY <1>6, LdLoudHolds
<1>7. ASSUME LdIndInv, [LdNext]_ldVars
      PROVE  [\A c \in LdCallers : LET call == ldCall'[c] IN
                (call.at = "quiet" /\ ldCall[c].at = "idle") =>
                   \/ ldTrail[call.ip][call.rule] # LdNever /\ ldNow < ldTrail[call.ip][call.rule] + LdEdgeWindow
                   \/ \E d \in LdCallers : ldCall[d].at \in {"audit", "unaudited"} /\ ldCall[d].ip = call.ip]_ldVars
  BY <1>7, LdUnauditedStep
<1> QED
  BY <1>1, <1>2, <1>3, <1>4, <1>5, <1>6, <1>7, LdInvariant, PTL
     DEF LdSpec, LdSafe, LdRungs, LdAlarmsTrue, LdPermanentLoud, LdNothingUnaudited

-----------------------------------------------------------------------------
(* `ezyshield update`.                                                     *)

\* A run under way, from the moment it knows its flags.
UpRunning == [at : {"fetch", "confirm", "sums", "sig", "main", "enforcer", "install-main",
                    "install-enforcer", "done"},
              cur : UpVersions, pin : UpVersions \cup {0}, allow : BOOLEAN, yes : BOOLEAN,
              ver : UpVersions \cup {0}, sums : -1 .. 2, signed : BOOLEAN]
\* No run: before the first, or after an end that installed nothing.
UpOver == {[at |-> "idle"], [at |-> "uptodate"], [at |-> "failed"]}

\* The version it is about: the pinned one, or one newer than the running binary.
UpVersionOK ==
  upRun.at # "fetch" => /\ upRun.ver \in UpVersions
                        /\ upRun.pin # 0 => upRun.ver = upRun.pin
                        /\ upRun.pin = 0 => upRun.cur < upRun.ver
\* An older version was agreed to before anything is fetched.
UpAgreedOK == upRun.at \notin {"fetch", "confirm"} => (upRun.ver < upRun.cur => upRun.pin # 0 /\ upRun.yes)
\* The binary the run was started from is the installed one until it is replaced.
UpCurrentOK == upRun.at \notin {"install-enforcer", "done"} => upRun.cur = upBin["main"].ver
\* The checksums, verified or waived.
UpSumsOK ==
  /\ upRun.at \notin {"fetch", "confirm", "sums"} => upRun.sums \in 0 .. 2
  /\ upRun.at \in {"main", "enforcer", "install-main", "install-enforcer", "done"} => (upRun.sums = 0 => upWaived)
\* What lies beside the install paths has the digest of those checksums.
UpTmpOK ==
  /\ upRun.at \in {"enforcer", "install-main"} => upTmp["main"] = upRun.sums
  /\ upRun.at \in {"install-main", "install-enforcer"} => upTmp["enforcer"] = upRun.sums
  /\ upRun.at \in {"install-enforcer", "done"} => upBin["main"] = [ver |-> upRun.ver, build |-> upRun.sums]

\* A run that has not ended.
UpRunOK == upRun \in UpRunning /\ UpVersionOK /\ UpAgreedOK /\ UpCurrentOK /\ UpSumsOK /\ UpTmpOK
\* The inductive invariant.
UpIndInv == UpTypeOK /\ upLatest \in UpVersions \cup {0} /\ upWaived \in BOOLEAN /\ UpFailClosed
            /\ (upRun \in UpOver \/ UpRunOK)

\* What can be installed: a version and a build.
UpBins == [ver : UpVersions, build : 0 .. 2]

\* An end of the command (fetch, signature or digest refused, declined, up to date, a failing
\* step) removes what lies beside the install paths and replaces nothing.
LEMMA UpEnds ==
  ASSUME UpIndInv, NEW h \in {"uptodate", "failed"}, UpEnd(h), UNCHANGED <<UpWorld, upBin, upWaived>>
  PROVE  UpIndInv'
<1>1. upRun' \in UpOver /\ upRun'.at = h
  BY DEF UpEnd, UpOver
<1>2. upTmp' \in [UpParts -> -1 .. 2]
  BY DEF UpEnd, UpNoTmp
<1> QED
  BY <1>1, <1>2 DEF UpIndInv, UpTypeOK, UpFailClosed, UpWorld

\* A run that goes on and touches no binary.
LEMMA UpGoesOn ==
  ASSUME UpIndInv, UpRunOK', UNCHANGED <<UpWorld, upBin>>, upTmp' \in [UpParts -> -1 .. 2],
         upWaived' \in BOOLEAN, upWaived => upWaived'
  PROVE  UpIndInv'
<1>1. upRun'.at \in {"fetch", "confirm", "sums", "sig", "main", "enforcer", "install-main",
                    "install-enforcer", "done"}
  BY DEF UpRunOK, UpRunning
<1> QED
  BY <1>1 DEF UpIndInv, UpTypeOK, UpFailClosed, UpWorld

\* A run that has not ended is described by UpRunOK.
LEMMA UpActive ==
  ASSUME UpIndInv, upRun.at \notin {"idle", "uptodate", "failed"}
  PROVE  UpRunOK /\ upRun \in UpRunning
  BY DEF UpIndInv, UpOver, UpRunOK

\* Every step of runUpdate, its death and every edit of the release keep the invariant.
LEMMA UpStep == UpIndInv /\ [UpNext]_upVars => UpIndInv'
<1> SUFFICES ASSUME UpIndInv, [UpNext]_upVars PROVE UpIndInv'
  OBVIOUS
<1> USE UpConstants
<1>0. UpTypeOK /\ upLatest \in UpVersions \cup {0} /\ upWaived \in BOOLEAN /\ UpFailClosed
  BY DEF UpIndInv
<1>1. CASE UpBegin
  <2>1. PICK pin \in UpVersions \cup {0}, allow \in BOOLEAN, yes \in BOOLEAN :
               upRun' = [at |-> "fetch", cur |-> upBin["main"].ver, pin |-> pin, allow |-> allow,
                         yes |-> yes, ver |-> 0, sums |-> -1, signed |-> FALSE]
    BY <1>1 DEF UpBegin
  <2>2. UNCHANGED <<UpWorld, upBin, upTmp, upWaived>>
    BY <1>1 DEF UpBegin
  <2>3. upBin["main"].ver \in UpVersions
    BY <1>0 DEF UpTypeOK, UpParts
  <2>4. upRun' \in UpRunning
    BY <2>1, <2>3 DEF UpRunning
  <2>5. UpRunOK'
    BY <2>1, <2>2, <2>4 DEF UpRunOK, UpVersionOK, UpAgreedOK, UpCurrentOK, UpSumsOK, UpTmpOK
  <2> QED
    BY <1>0, <2>2, <2>5, UpGoesOn DEF UpTypeOK
<1>2. CASE UpUpToDate
  BY <1>2, UpEnds DEF UpUpToDate, UpHistory
<1>3. CASE UpNoStable
  BY <1>3, UpEnds DEF UpNoStable, UpHistory
<1>4. CASE UpFetched
  <2>1. upRun.at = "fetch" /\ UpTarget # 0 /\ (upRun.pin = 0 => upRun.cur < upLatest)
        /\ upRun' = [upRun EXCEPT !.at = "confirm", !.ver = UpTarget, !.signed = upRelease[UpTarget].sig # "none"]
        /\ UNCHANGED <<UpWorld, upBin, upTmp, upWaived>>
    BY <1>4 DEF UpFetched, UpHere, UpHistory
  <2>2. UpRunOK /\ upRun \in UpRunning
    BY <2>1, UpActive
  <2>3. UpTarget \in UpVersions
    BY <1>0, <2>1, <2>2 DEF UpTarget, UpRunning
  <2>4. upRun' \in UpRunning /\ upRun'.at = "confirm" /\ upRun'.ver = UpTarget /\ upRun'.pin = upRun.pin
        /\ upRun'.cur = upRun.cur
    BY <2>1, <2>2, <2>3 DEF UpRunning
  <2>5. UpVersionOK' /\ UpAgreedOK' /\ UpCurrentOK' /\ UpSumsOK' /\ UpTmpOK'
    BY <2>1, <2>2, <2>3, <2>4 DEF UpRunOK, UpTarget, UpVersionOK, UpAgreedOK, UpCurrentOK, UpSumsOK, UpTmpOK
  <2> QED
    BY <1>0, <2>1, <2>4, <2>5, UpGoesOn DEF UpTypeOK, UpRunOK
<1>5. CASE UpConfirm
  <2>1. upRun.at = "confirm" /\ UNCHANGED <<UpWorld, upBin, upTmp, upWaived>>
        /\ \/ ~UpAsks /\ upRun' = [upRun EXCEPT !.at = "sums"]
           \/ UpAsks /\ upRun' = [upRun EXCEPT !.at = "sums", !.yes = TRUE]
    BY <1>5 DEF UpConfirm, UpHere, UpHistory
  <2>2. UpRunOK /\ upRun \in UpRunning
    BY <2>1, UpActive
  <2>3. upRun' \in UpRunning /\ upRun'.at = "sums" /\ upRun'.ver = upRun.ver /\ upRun'.pin = upRun.pin
        /\ upRun'.cur = upRun.cur /\ (upRun'.yes \/ (~UpAsks /\ upRun'.yes = upRun.yes))
    BY <2>1, <2>2 DEF UpRunning
  <2>4. upRun.ver \in UpVersions /\ upRun.cur \in UpVersions
        /\ (upRun.pin # 0 => upRun.ver = upRun.pin) /\ (upRun.pin = 0 => upRun.cur < upRun.ver)
    BY <2>1, <2>2 DEF UpRunOK, UpVersionOK, UpRunning
  <2>5. UpAgreedOK'
    <3>1. CASE UpAsks
      <4>1. upRun'.yes = TRUE
        BY <2>1, <2>2, <3>1 DEF UpRunning
      <4> QED
        BY <2>3, <2>4, <3>1, <4>1 DEF UpAgreedOK, UpAsks
    <3>2. CASE ~UpAsks
      <4>1. upRun'.yes = upRun.yes /\ upRun.yes \in BOOLEAN
        BY <2>1, <2>2, <3>2 DEF UpRunning
      <4>2. ASSUME upRun.ver < upRun.cur PROVE upRun.pin # 0 /\ upRun.yes = TRUE
        <5>1. upRun.ver \in Nat /\ upRun.cur \in Nat
          BY <2>4
        <5>2. ~(upRun.cur < upRun.ver)
          BY <4>2, <5>1
        <5>3. upRun.pin # 0
          BY <2>4, <5>2
        <5> QED
          BY <3>2, <4>1, <4>2, <5>3 DEF UpAsks
      <4> QED
        BY <2>3, <4>1, <4>2 DEF UpAgreedOK
    <3> QED
      BY <3>1, <3>2
  <2>6. UpVersionOK' /\ UpCurrentOK' /\ UpSumsOK' /\ UpTmpOK'
    BY <2>1, <2>2, <2>3, <2>4 DEF UpRunOK, UpVersionOK, UpCurrentOK, UpSumsOK, UpTmpOK
  <2> QED
    BY <1>0, <2>1, <2>3, <2>5, <2>6, UpGoesOn DEF UpTypeOK, UpRunOK
<1>6. CASE UpDeclined
  BY <1>6, UpEnds DEF UpDeclined, UpHistory
<1>7. CASE UpSums
  <2>1. upRun.at = "sums" /\ UNCHANGED <<UpWorld, upBin, upTmp, upWaived>>
        /\ upRun' = [upRun EXCEPT !.at = "sig", !.sums = upRelease[upRun.ver].build]
    BY <1>7 DEF UpSums, UpHere, UpHistory
  <2>2. UpRunOK /\ upRun \in UpRunning
    BY <2>1, UpActive
  <2>3. upRun.ver \in UpVersions
    BY <2>1, <2>2 DEF UpRunOK, UpVersionOK
  <2>4. upRelease[upRun.ver].build \in 0 .. 2
    <3>1. upRelease[upRun.ver] \in UpShapes
      BY <1>0, <2>3 DEF UpTypeOK
    <3>2. \A r \in UpShapes : r.build \in 0 .. 2
      BY DEF UpShapes
    <3> QED
      BY <3>1, <3>2
  <2>5. upRun' \in UpRunning /\ upRun'.at = "sig" /\ upRun'.sums \in 0 .. 2 /\ upRun'.ver = upRun.ver
        /\ upRun'.pin = upRun.pin /\ upRun'.cur = upRun.cur /\ upRun'.yes = upRun.yes
    <3> DEFINE b == upRelease[upRun.ver].build
    <3>1. b \in -1 .. 2 /\ b \in 0 .. 2
      BY <2>4
    <3> HIDE DEF b
    <3>2. upRun' = [upRun EXCEPT !.at = "sig", !.sums = b]
      BY <2>1 DEF b
    <3> QED
      BY <2>2, <3>1, <3>2 DEF UpRunning
  <2>6. UpVersionOK' /\ UpAgreedOK' /\ UpCurrentOK' /\ UpSumsOK' /\ UpTmpOK'
    BY <2>1, <2>2, <2>5 DEF UpRunOK, UpVersionOK, UpAgreedOK, UpCurrentOK, UpSumsOK, UpTmpOK
  <2> QED
    BY <1>0, <2>1, <2>5, <2>6, UpGoesOn DEF UpTypeOK, UpRunOK
<1>8. CASE UpSig
  <2>1. upRun.at = "sig" /\ UpSigOk /\ UNCHANGED <<UpWorld, upBin, upTmp>>
        /\ upRun' = [upRun EXCEPT !.at = "main"] /\ upWaived' = (upWaived \/ ~UpPrerequisites)
    BY <1>8 DEF UpSig, UpHere
  <2>2. UpRunOK /\ upRun \in UpRunning
    BY <2>1, UpActive
  <2>3. upRun.ver \in UpVersions /\ upRun.sums \in 0 .. 2
    BY <2>1, <2>2 DEF UpRunOK, UpVersionOK, UpSumsOK
  <2>4. upRun' \in UpRunning /\ upRun'.at = "main" /\ upRun'.sums = upRun.sums /\ upRun'.ver = upRun.ver
        /\ upRun'.pin = upRun.pin /\ upRun'.cur = upRun.cur /\ upRun'.yes = upRun.yes
    BY <2>1, <2>2 DEF UpRunning
  <2>5. upRun.sums = 0 => upWaived'
    <3>1. upRelease[upRun.ver] \in UpShapes
      BY <1>0, <2>3 DEF UpTypeOK
    <3>2. upRelease[upRun.ver].sig = "good" => upRelease[upRun.ver].build # 0
      BY <3>1 DEF UpShapes
    <3>3. CASE UpPrerequisites
      BY <2>1, <3>2, <3>3 DEF UpSigOk, UpVerifies
    <3>4. CASE ~UpPrerequisites
      BY <2>1, <3>4
    <3> QED
      BY <3>3, <3>4
  <2>6. UpVersionOK' /\ UpAgreedOK' /\ UpCurrentOK' /\ UpSumsOK' /\ UpTmpOK'
    BY <2>1, <2>2, <2>3, <2>4, <2>5 DEF UpRunOK, UpVersionOK, UpAgreedOK, UpCurrentOK, UpSumsOK, UpTmpOK
  <2>7. upWaived' \in BOOLEAN /\ (upWaived => upWaived')
    BY <1>0, <2>1
  <2> QED
    BY <1>0, <2>1, <2>4, <2>6, <2>7, UpGoesOn DEF UpTypeOK, UpRunOK
<1>9. CASE UpSigRefused
  BY <1>9, UpEnds DEF UpSigRefused, UpHistory
<1>10. ASSUME NEW p \in UpParts, UpDownload(p) PROVE UpIndInv'
  <2>1. PICK got : /\ UpDigestOk(p, got) /\ upTmp' = [upTmp EXCEPT ![p] = got]
                   /\ upRun' = [upRun EXCEPT !.at = UpAfter(p)]
    BY <1>10 DEF UpDownload
  <2>2. upRun.at = p /\ UNCHANGED <<UpWorld, upBin, upWaived>>
    BY <1>10 DEF UpDownload, UpHere, UpHistory
  <2>3. UpRunOK /\ upRun \in UpRunning
    BY <2>2, UpActive DEF UpParts
  <2>4. upRun.sums \in 0 .. 2 /\ got = upRun.sums
    BY <2>1, <2>2, <2>3 DEF UpRunOK, UpSumsOK, UpDigestOk, UpParts
  <2>5. upTmp' \in [UpParts -> -1 .. 2] /\ upTmp'[p] = upRun.sums
        /\ \A q \in UpParts \ {p} : upTmp'[q] = upTmp[q]
    BY <1>0, <2>1, <2>4 DEF UpTypeOK
  <2>6. upRun' \in UpRunning /\ upRun'.at = UpAfter(p) /\ upRun'.sums = upRun.sums /\ upRun'.ver = upRun.ver
        /\ upRun'.pin = upRun.pin /\ upRun'.cur = upRun.cur /\ upRun'.yes = upRun.yes
    BY <2>1, <2>3 DEF UpRunning, UpAfter
  <2>7. UpVersionOK' /\ UpAgreedOK' /\ UpCurrentOK' /\ UpSumsOK'
    BY <2>2, <2>3, <2>4, <2>6 DEF UpRunOK, UpVersionOK, UpAgreedOK, UpCurrentOK, UpSumsOK, UpAfter, UpParts
  <2>8. UpTmpOK'
    BY <2>2, <2>3, <2>5, <2>6 DEF UpRunOK, UpTmpOK, UpAfter, UpParts
  <2> QED
    BY <1>0, <2>2, <2>5, <2>6, <2>7, <2>8, UpGoesOn DEF UpRunOK
<1>11. ASSUME NEW p \in UpParts, UpDownloadRefused(p) PROVE UpIndInv'
  BY <1>11, UpEnds DEF UpDownloadRefused, UpHistory
<1>12. ASSUME NEW p \in UpParts, UpInstall(p) PROVE UpIndInv'
  <2>1. /\ upRun.at = UpInstalling[p] /\ UNCHANGED <<UpWorld, upWaived>>
        /\ upBin' = [upBin EXCEPT ![p] = [ver |-> upRun.ver, build |-> upTmp[p]]]
        /\ upTmp' = [upTmp EXCEPT ![p] = -1]
        /\ upRun' = [upRun EXCEPT !.at = IF p = "main" THEN "install-enforcer" ELSE "done"]
    BY <1>12 DEF UpInstall, UpHere, UpHistory
  <2>2. upRun.at \in {"install-main", "install-enforcer"} /\ (p = "main" <=> upRun.at = "install-main")
    BY <2>1 DEF UpInstalling, UpParts
  <2>3. UpRunOK /\ upRun \in UpRunning
    BY <2>2, UpActive
  <2>4. upRun.ver \in UpVersions /\ upRun.sums \in 0 .. 2 /\ upTmp[p] = upRun.sums /\ (upRun.sums = 0 => upWaived)
    BY <2>2, <2>3 DEF UpRunOK, UpVersionOK, UpSumsOK, UpTmpOK, UpParts
  <2>5. upBin' \in [UpParts -> UpBins] /\ upBin'[p] = [ver |-> upRun.ver, build |-> upRun.sums]
        /\ \A q \in UpParts \ {p} : upBin'[q] = upBin[q]
    BY <1>0, <2>1, <2>4 DEF UpTypeOK, UpBins
  <2>6. upTmp' \in [UpParts -> -1 .. 2] /\ \A q \in UpParts \ {p} : upTmp'[q] = upTmp[q]
    BY <1>0, <2>1 DEF UpTypeOK
  <2>7. upRun' \in UpRunning /\ upRun'.sums = upRun.sums /\ upRun'.ver = upRun.ver
        /\ upRun'.at = (IF p = "main" THEN "install-enforcer" ELSE "done")
        /\ upRun'.pin = upRun.pin /\ upRun'.cur = upRun.cur /\ upRun'.yes = upRun.yes
    BY <2>1, <2>3 DEF UpRunning
  <2>8. UpVersionOK' /\ UpAgreedOK' /\ UpCurrentOK' /\ UpSumsOK'
    BY <2>1, <2>2, <2>3, <2>4, <2>7 DEF UpRunOK, UpVersionOK, UpAgreedOK, UpCurrentOK, UpSumsOK
  <2>9. UpTmpOK'
    BY <2>2, <2>3, <2>5, <2>6, <2>7 DEF UpRunOK, UpTmpOK, UpParts
  <2>10. UpFailClosed'
    <3>1. ASSUME NEW q \in UpParts, upBin'[q].build = 0 PROVE upWaived'
      <4>1. CASE q = p
        BY <2>1, <2>4, <2>5, <3>1, <4>1
      <4>2. CASE q # p
        BY <1>0, <2>1, <2>5, <3>1, <4>2 DEF UpFailClosed
      <4> QED
        BY <4>1, <4>2
    <3> QED
      BY <3>1 DEF UpFailClosed
  <2>11. UpTypeOK'
    BY <1>0, <2>1, <2>5, <2>6, <2>7 DEF UpTypeOK, UpBins, UpWorld
  <2> QED
    BY <1>0, <2>1, <2>7, <2>8, <2>9, <2>10, <2>11 DEF UpIndInv, UpRunOK, UpWorld
<1>13. CASE UpFails
  BY <1>13, UpEnds DEF UpFails, UpHistory
<1>14. CASE UpKilled
  BY <1>0, <1>14 DEF UpKilled, UpIdle, UpIndInv, UpOver, UpTypeOK, UpFailClosed, UpWorld
<1>15. CASE UpEdit
  <2>1. UNCHANGED <<upCosign, upBin, upTmp, upRun, upWaived>>
    BY <1>15 DEF UpEdit, UpHistory
  <2>2. upRelease' \in [UpVersions -> UpShapes] /\ upLatest' \in UpVersions \cup {0}
    BY <1>0, <1>15 DEF UpEdit, UpTypeOK
  <2>3. UpTypeOK' /\ UpFailClosed'
    BY <1>0, <2>1, <2>2 DEF UpTypeOK, UpFailClosed
  <2>4. upRun \in UpOver \/ UpRunOK
    BY DEF UpIndInv
  <2>5. (upRun \in UpOver \/ UpRunOK)'
    BY <2>1, <2>4 DEF UpOver, UpRunOK, UpRunning, UpVersionOK, UpAgreedOK, UpCurrentOK, UpSumsOK, UpTmpOK
  <2> QED
    BY <1>0, <2>1, <2>2, <2>3, <2>5 DEF UpIndInv
<1>16. CASE UNCHANGED upVars
  <2>1. upRun \in UpOver \/ UpRunOK
    BY DEF UpIndInv
  <2>2. (upRun \in UpOver \/ UpRunOK)'
    BY <1>16, <2>1 DEF upVars, UpOver, UpRunOK, UpRunning, UpVersionOK, UpAgreedOK, UpCurrentOK, UpSumsOK, UpTmpOK
  <2> QED
    BY <1>0, <1>16, <2>2 DEF upVars, UpIndInv, UpTypeOK, UpFailClosed
<1> QED
  BY <1>1, <1>2, <1>3, <1>4, <1>5, <1>6, <1>7, <1>8, <1>9, <1>10, <1>11, <1>12, <1>13, <1>14, <1>15, <1>16 DEF UpNext

\* Two installed builds of the workflow and no run satisfy the invariant.
LEMMA UpInitial == UpInit => UpIndInv
<1> SUFFICES ASSUME UpInit PROVE UpIndInv
  OBVIOUS
<1>1. upRelease \in [UpVersions -> UpShapes]
  <2>1. [build |-> 1, sig |-> "good"] \in UpShapes
    BY DEF UpShapes
  <2> QED
    BY <2>1 DEF UpInit
<1>2. upBin \in [UpParts -> [ver : UpVersions, build : 0 .. 2]]
  <2>1. [ver |-> UpFirst, build |-> 1] \in [ver : UpVersions, build : 0 .. 2]
    BY UpConstants
  <2> QED
    BY <2>1 DEF UpInit
<1>3. \A p \in UpParts : upBin[p].build = 1
  BY DEF UpInit
<1>4. upTmp \in [UpParts -> -1 .. 2]
  BY DEF UpInit, UpNoTmp
<1>5. upRun \in UpOver /\ upRun.at = "idle"
  BY DEF UpInit, UpOver, UpIdle
<1>6. UpTypeOK
  BY <1>1, <1>2, <1>4, <1>5 DEF UpInit, UpTypeOK
<1>7. UpFailClosed
  BY <1>3 DEF UpFailClosed
<1>8. upLatest \in UpVersions \cup {0} /\ upWaived \in BOOLEAN
  BY DEF UpInit
<1> QED
  BY <1>5, <1>6, <1>7, <1>8 DEF UpIndInv

\* Only AtomicReplace changes an installed binary or lets a run report success.
LEMMA UpInstalls ==
  ASSUME UpIndInv, [UpNext]_upVars, upBin' # upBin \/ (upRun'.at = "done" /\ upRun.at # "done")
  PROVE  \E p \in UpParts : UpInstall(p)
<1> SUFFICES ASSUME ~ \E p \in UpParts : UpInstall(p) PROVE FALSE
  OBVIOUS
<1>1. CASE UNCHANGED upVars
  BY <1>1 DEF upVars
<1>2. CASE UpBegin
  BY <1>2 DEF UpBegin
<1>3. CASE UpUpToDate \/ UpNoStable \/ UpDeclined \/ UpSigRefused \/ UpFails \/ UpKilled \/ UpEdit
           \/ \E p \in UpParts : UpDownloadRefused(p)
  BY <1>3 DEF UpUpToDate, UpNoStable, UpDeclined, UpSigRefused, UpFails, UpKilled, UpEdit, UpDownloadRefused,
              UpEnd, UpIdle
<1>4. CASE UpFetched \/ UpConfirm \/ UpSums \/ UpSig
  <2>1. UpRunOK /\ upRun \in UpRunning
    BY <1>4, UpActive DEF UpFetched, UpConfirm, UpSums, UpSig, UpHere
  <2> QED
    BY <1>4, <2>1 DEF UpFetched, UpConfirm, UpSums, UpSig, UpRunning
<1>5. CASE \E p \in UpParts : UpDownload(p)
  <2>1. UpRunOK /\ upRun \in UpRunning
    BY <1>5, UpActive DEF UpDownload, UpHere, UpParts
  <2> QED
    BY <1>5, <2>1 DEF UpDownload, UpRunning, UpAfter
<1> QED
  BY <1>1, <1>2, <1>3, <1>4, <1>5 DEF UpNext

\* A run that reports success has just installed the second half of a pair whose first half
\* has the digest of the same checksums.
LEMMA UpPairStep ==
  ASSUME UpIndInv, [UpNext]_upVars, upRun.at # "done", upRun'.at = "done"
  PROVE  \A p \in UpParts : upBin'[p] = [ver |-> upRun.ver, build |-> upRun.sums]
<1>1. PICK p \in UpParts : UpInstall(p)
  BY UpInstalls
<1>2. /\ upRun.at = UpInstalling[p]
      /\ upBin' = [upBin EXCEPT ![p] = [ver |-> upRun.ver, build |-> upTmp[p]]]
      /\ upRun' = [upRun EXCEPT !.at = IF p = "main" THEN "install-enforcer" ELSE "done"]
  BY <1>1 DEF UpInstall, UpHere
<1>3. upRun.at \in {"install-main", "install-enforcer"}
  BY <1>2 DEF UpInstalling, UpParts
<1>4. UpRunOK /\ upRun \in UpRunning
  BY <1>3, UpActive
<1>5. p = "enforcer" /\ upRun.at = "install-enforcer"
  BY <1>2, <1>4 DEF UpRunning, UpParts, UpInstalling
<1>6. upTmp["enforcer"] = upRun.sums /\ upBin["main"] = [ver |-> upRun.ver, build |-> upRun.sums]
  BY <1>4, <1>5 DEF UpRunOK, UpTmpOK
<1> QED
  BY <1>2, <1>5, <1>6 DEF UpIndInv, UpTypeOK, UpParts

\* A replacement by an older version is the pinned one, and confirmIfDowngrade got its yes.
LEMMA UpDowngradeStep ==
  ASSUME UpIndInv, [UpNext]_upVars, upBin'["main"].ver < upBin["main"].ver
  PROVE  upRun.pin = upBin'["main"].ver /\ upRun.yes
<1>0. upBin \in [UpParts -> UpBins] /\ "main" \in UpParts /\ UpVersions \subseteq Nat
  BY UpConstants DEF UpIndInv, UpTypeOK, UpBins, UpParts
<1>1. PICK p \in UpParts : UpInstall(p)
  <2>1. upBin["main"].ver \in Nat
    BY <1>0 DEF UpBins
  <2>2. upBin' # upBin
    BY <2>1
  <2> QED
    BY <2>2, UpInstalls
<1>2. /\ upRun.at = UpInstalling[p]
      /\ upBin' = [upBin EXCEPT ![p] = [ver |-> upRun.ver, build |-> upTmp[p]]]
  BY <1>1 DEF UpInstall, UpHere
<1>3. upRun.at \in {"install-main", "install-enforcer"}
  BY <1>2 DEF UpInstalling, UpParts
<1>4. UpRunOK /\ upRun \in UpRunning
  BY <1>3, UpActive
<1>5. p = "main" /\ upBin'["main"].ver = upRun.ver /\ upRun.at = "install-main"
  <2>1. upBin["main"].ver \in Nat
    BY <1>0 DEF UpBins
  <2>2. CASE p # "main"
    BY <1>0, <1>2, <2>1, <2>2
  <2>3. CASE p = "main"
    BY <1>0, <1>2, <2>3 DEF UpInstalling
  <2> QED
    BY <2>2, <2>3
<1>6. upRun.cur = upBin["main"].ver /\ (upRun.ver < upRun.cur => upRun.pin # 0 /\ upRun.yes)
      /\ (upRun.pin # 0 => upRun.ver = upRun.pin)
  BY <1>4, <1>5 DEF UpRunOK, UpCurrentOK, UpAgreedOK, UpVersionOK
<1> QED
  BY <1>5, <1>6

\* What a run of `update` knows at each step holds in every state: the inductive invariant.
THEOREM UpInvariant == UpSpec => []UpIndInv
  BY UpInitial, UpStep, PTL DEF UpSpec

\* For any versions, any edits of a release and a death anywhere, `update` installs only
\* verified (or explicitly waived) binaries, both of one set of checksums when it reports
\* success, and an older main binary only when it was pinned and agreed to.
THEOREM UpdateIsSafe == UpSpec => UpSafe
<1>1. UpIndInv => UpTypeOK /\ UpFailClosed
  BY DEF UpIndInv
<1>2. UpIndInv /\ [UpNext]_upVars =>
        [upRun.at # "done" /\ upRun'.at = "done" =>
           \A p \in UpParts : upBin'[p] = [ver |-> upRun.ver, build |-> upRun.sums]]_upVars
  BY UpPairStep
<1>3. UpIndInv /\ [UpNext]_upVars =>
        [upBin'["main"].ver < upBin["main"].ver => upRun.pin = upBin'["main"].ver /\ upRun.yes]_upVars
  BY UpDowngradeStep
<1> QED
  BY <1>1, <1>2, <1>3, UpInvariant, PTL DEF UpSpec, UpSafe, UpPair, UpNoSilentDowngrade

-----------------------------------------------------------------------------
(* The setup commands.                                                     *)

\* The record of a command.
SuKinds == {"idle", "wizard", "scripted", "component"}
SuSayings == {"none", "group", "proxy", "file"}
SuDockers == [sources : BOOLEAN, host : BOOLEAN, optIn : BOOLEAN, said : SuSayings]
SuWayMaps == [SuSecrets -> SuWays]
SuPends == Seq(SuSecrets)
SuValues == {"none", "stub", "real"}
SuLineMaps == [SuSecrets -> SuValues \cup {"no"}]
SuContents == {"none", "torn", "hand", "old", "new"}
SuSecretSets == SUBSET SuSecrets
SuRuns == [kind : SuKinds, at : SuSteps, force : BOOLEAN, yes : BOOLEAN, docker : SuDockers, how : SuWayMaps,
           pend : SuPends, lines : SuLineMaps, old : SuContents, stubs : SuSecretSets]

\* Which command is at which step; whoever may join the group said so last.
SuCommandOK(r) ==
    /\ r.at = "idle" => r = SuIdle
    /\ r.at \in {"ask", "keys", "config", "configWrite", "policy", "policyWrite", "units", "services"} => r.kind = "wizard"
    /\ r.at \in {"stage", "renameConfig", "renamePolicy"} => r.kind = "scripted"
    /\ r.at \in {"backup", "backupWrite", "save"} => r.kind = "component"
    /\ r.at = "grant" => r.kind \in {"wizard", "scripted"}
    /\ r.kind = "scripted" => \A v \in SuSecrets : r.how[v] \in {"no", "skip"}
    /\ r.docker.optIn => r.docker.said = "group"

\* The files behind a command that has written them, and before one that will.
SuLate == {"env", "envWrite", "units", "services", "done"}
SuDiskOK(r, disk) ==
    /\ r.at \in {"policy", "policyWrite", "renamePolicy"} => disk["config"] = "new"
    /\ r.at \in SuLate /\ r.kind # "component" => disk["config"] = "new" /\ disk["policy"] = "new"
    /\ r.at = "configWrite" => disk["config"] = "torn"
    /\ r.at = "policyWrite" => disk["policy"] = "torn"
    /\ r.kind = "scripted" /\ ~r.force =>
         /\ r.at \in {"grant", "stage", "renameConfig"} => disk["config"] # "hand"
         /\ r.at \in {"grant", "stage", "renameConfig", "renamePolicy"} => disk["policy"] # "hand"
    /\ r.kind = "component" =>
         /\ r.at \in {"backup", "backupWrite"} => r.old = disk["config"]
         /\ r.at \in SuLate \cup {"save"} => r.old = disk["bak"]

\* .env as it will be after the write in progress.
SuEnvAhead(r, env) == IF r.at = "envWrite" THEN r.lines ELSE env
SuIn(pend) == {pend[i] : i \in DOMAIN pend}

\* What it holds of the secrets a command has to see to: each is in it or
\* still to come, and a placeholder was there before or stands for a skipped paste.
SuLinesOK(r, env) ==
    /\ SuEnvAhead(r, env) \in [SuSecrets -> SuValues]
    /\ \A v \in SuSecrets : SuEnvAhead(r, env)[v] = "stub" =>
         r.at = "idle" \/ v \in r.stubs \/ (r.at \in SuLate /\ r.how[v] = "skip")
    /\ r.at \in SuLate => \A v \in SuSecrets : r.how[v] \in {"paste", "skip"} =>
         v \in SuIn(r.pend) \/ SuEnvAhead(r, env)[v] # "none"
    /\ \A v \in SuIn(r.pend) : r.how[v] \in {"paste", "skip"}
    /\ r.at \notin {"renamePolicy", "env", "envWrite"} => r.pend = <<>>

\* A value that was in it is still there, unless a write was cut off.
SuHeldOK(r, env, had, torn) == torn \/ \A v \in had : SuEnvAhead(r, env)[v] = "real"

\* The unit of enabled services has a program to run.
SuUnitOK(r, unit, started) == (started \/ r.at = "services") => unit # "stale"

\* The rest of the variables have their types.
SuWorldOK ==
    /\ suDisk \in [SuFiles -> SuContents] /\ suEnv \in [SuSecrets -> SuValues] /\ suHad \subseteq SuSecrets
    /\ suTorn \in BOOLEAN /\ suGroup \in BOOLEAN /\ suUnit \in {"none", "ours", "stale", "admin"}
    /\ suPackaged \in BOOLEAN /\ suStarted \in BOOLEAN /\ suCount \in 0..SuMaxRuns /\ suEdits \in 0..SuMaxEdits

SuGood(r) ==
    /\ SuCommandOK(r) /\ SuDiskOK(r, suDisk) /\ SuLinesOK(r, suEnv)
    /\ SuHeldOK(r, suEnv, suHad, suTorn) /\ SuUnitOK(r, suUnit, suStarted)

SuIndInv == SuWorldOK /\ suRun \in SuRuns /\ SuGood(suRun)
----

\* A step that changes the running command and only some of the rest.
LEMMA SuCarry ==
    ASSUME NEW r \in SuRuns, suRun' = r, SuWorldOK', SuCommandOK(r), SuDiskOK(r, suDisk'), SuLinesOK(r, suEnv'),
           SuHeldOK(r, suEnv', suHad', suTorn'), SuUnitOK(r, suUnit', suStarted')
    PROVE  SuIndInv'
<1>1. SuGood(suRun)' BY DEF SuGood
<1>. QED BY <1>1 DEF SuIndInv

\* The rest of the variables, when nothing else changes.
SuStill == UNCHANGED <<suFilesVars, suSystem, suBounds>>
LEMMA SuRest ==
    ASSUME SuIndInv, SuStill, NEW r \in SuRuns, suRun' = r, SuCommandOK(r), SuDiskOK(r, suDisk), SuLinesOK(r, suEnv),
           SuHeldOK(r, suEnv, suHad, suTorn), SuUnitOK(r, suUnit, suStarted)
    PROVE  SuIndInv'
<1>1. /\ suDisk' = suDisk /\ suEnv' = suEnv /\ suHad' = suHad /\ suTorn' = suTorn /\ suGroup' = suGroup
      /\ suUnit' = suUnit /\ suPackaged' = suPackaged /\ suStarted' = suStarted /\ suCount' = suCount
      /\ suEdits' = suEdits
  BY DEF SuStill, suFilesVars, suSystem, suBounds
<1>2. SuWorldOK' BY <1>1 DEF SuIndInv, SuWorldOK
<1>3. SuGood(suRun)' BY <1>1 DEF SuGood
<1>. QED BY <1>2, <1>3 DEF SuIndInv

\* No command.
LEMMA SuIdleRun == SuIdle \in SuRuns /\ SuCommandOK(SuIdle) /\ \A disk : SuDiskOK(SuIdle, disk)
<1>1. SuNoDocker \in SuDockers BY DEF SuNoDocker, SuDockers, SuSayings
<1>2. SuNone \in SuWayMaps /\ SuNone \in SuLineMaps BY DEF SuNone, SuWayMaps, SuLineMaps, SuWays
<1>3. <<>> \in SuPends /\ {} \in SuSecretSets BY DEF SuPends, SuSecretSets
<1>4. "idle" \in SuKinds /\ "idle" \in SuSteps /\ "none" \in SuContents BY DEF SuKinds, SuSteps, SuContents
<1>5. SuIdle \in SuRuns BY <1>1, <1>2, <1>3, <1>4 DEF SuRuns, SuIdle
<1>6. SuIdle.at = "idle" /\ SuIdle.kind = "idle" /\ ~SuIdle.docker.optIn BY DEF SuIdle, SuNoDocker
<1>7. SuCommandOK(SuIdle) BY <1>6 DEF SuCommandOK
<1>8. \A disk : SuDiskOK(SuIdle, disk) BY <1>6 DEF SuDiskOK, SuLate
<1>. QED BY <1>5, <1>7, <1>8

\* A command that ends: .env is what it is.
LEMMA SuIdleLines ==
    ASSUME NEW env \in [SuSecrets -> SuValues] PROVE SuLinesOK(SuIdle, env)
<1>1. SuIdle.at = "idle" /\ SuIdle.pend = <<>> BY DEF SuIdle
<1>2. SuIn(SuIdle.pend) = {} BY <1>1 DEF SuIn
<1>. QED BY <1>1, <1>2 DEF SuLinesOK, SuEnvAhead, SuLate

\* Before .env is written, placeholders are those the command found.
SuEarlyOK(r, env) ==
    /\ env \in [SuSecrets -> SuValues] /\ \A v \in SuSecrets : env[v] = "stub" => v \in r.stubs
    /\ \A v \in SuIn(r.pend) : r.how[v] \in {"paste", "skip"}
    /\ r.at # "renamePolicy" => r.pend = <<>>
LEMMA SuEarly ==
    ASSUME NEW r, NEW env, r.at \notin SuLate, r.at # "idle"
    PROVE  SuLinesOK(r, env) <=> SuEarlyOK(r, env)
<1>1. SuEnvAhead(r, env) = env /\ r.at \notin {"env", "envWrite"} BY DEF SuEnvAhead, SuLate
<1>. QED BY <1>1 DEF SuLinesOK, SuEarlyOK

LEMMA SuHeld ==
    ASSUME NEW r, NEW s, NEW env, NEW had, NEW torn, SuHeldOK(r, env, had, torn), r.at # "envWrite", s.at # "envWrite"
    PROVE  SuHeldOK(s, env, had, torn)
BY DEF SuHeldOK, SuEnvAhead

\* SuStart: the files a former command wrote are old ones now.
LEMMA SuStartStep ==
    ASSUME SuIndInv, NEW q \in SuRuns, SuStart(q), q.pend = <<>>, q.docker.optIn => q.docker.said = "group",
           \/ q.at = "ask" /\ q.kind = "wizard"
           \/ q.at = "backup" /\ q.kind = "component"
           \/ /\ q.at = "grant" /\ q.kind = "scripted" /\ (q.force \/ SuFresh)
              /\ \A v \in SuSecrets : q.how[v] \in {"no", "skip"}
    PROVE  SuIndInv'
<1>. DEFINE d == [f \in SuFiles |-> IF suDisk[f] = "new" THEN "old" ELSE suDisk[f]]
            stubs == {v \in SuSecrets : suEnv[v] = "stub"}
            r == [q EXCEPT !.stubs = stubs, !.old = d["config"]]
<1>1. /\ suRun = SuIdle /\ suCount < SuMaxRuns /\ suCount' = suCount + 1 /\ suDisk' = d /\ suRun' = r
      /\ UNCHANGED <<suEnv, suHad, suTorn, suSystem, suEdits>>
  BY DEF SuStart
<1>2. /\ suDisk \in [SuFiles -> SuContents] /\ SuWorldOK /\ SuGood(suRun) BY DEF SuIndInv, SuWorldOK
<1>3. d \in [SuFiles -> SuContents] /\ \A f \in SuFiles : d[f] = "hand" => suDisk[f] = "hand"
  BY <1>2 DEF SuContents
<1>4. "config" \in SuFiles /\ "policy" \in SuFiles /\ stubs \in SuSecretSets BY DEF SuFiles, SuSecretSets
<1>5. d["config"] \in SuContents BY <1>3, <1>4
<1>. HIDE DEF d
<1>6. r \in SuRuns BY <1>4, <1>5 DEF SuRuns
<1>7. /\ r.kind = q.kind /\ r.at = q.at /\ r.force = q.force /\ r.docker = q.docker /\ r.how = q.how
      /\ r.pend = q.pend /\ r.old = d["config"] /\ r.stubs = stubs
  BY DEF SuRuns
<1>. HIDE DEF r
<1>8. SuCommandOK(r) BY <1>7 DEF SuCommandOK
<1>9. SuDiskOK(r, d)
  <2>1. SuFresh => d["config"] # "hand" /\ d["policy"] # "hand" BY <1>3, <1>4 DEF SuFresh, SuExists
  <2>. QED BY <2>1, <1>7 DEF SuDiskOK, SuLate
<1>10. suEnv \in [SuSecrets -> SuValues] BY <1>2 DEF SuWorldOK
<1>11. SuEarlyOK(r, suEnv) BY <1>7, <1>10 DEF SuEarlyOK, SuIn
<1>12. r.at \notin SuLate /\ r.at # "idle" /\ r.at # "services" BY <1>7 DEF SuLate
<1>13. SuLinesOK(r, suEnv) BY <1>11, <1>12, SuEarly
<1>14. SuHeldOK(r, suEnv, suHad, suTorn) /\ SuUnitOK(r, suUnit, suStarted)
  <2>1. suRun.at = "idle" BY <1>1 DEF SuIdle
  <2>2. r.at # "envWrite" BY <1>12 DEF SuLate
  <2>3. SuHeldOK(r, suEnv, suHad, suTorn) BY <2>1, <2>2, <1>2, SuHeld DEF SuGood
  <2>. QED BY <2>3, <1>2, <1>12 DEF SuGood, SuUnitOK
<1>15. SuWorldOK'
  <2>1. suCount' \in 0 .. SuMaxRuns BY <1>1, <1>2, SuAssumption DEF SuWorldOK
  <2>. QED BY <2>1, <1>1, <1>2, <1>3 DEF SuWorldOK, suSystem
<1>. QED BY <1>1, <1>6, <1>8, <1>9, <1>13, <1>14, <1>15, SuCarry DEF suSystem

\* --docker-group and --docker-host.
LEMMA SuFlaggedOK ==
    ASSUME NEW flag \in SuFlags
    PROVE  SuFlagged(flag) \in SuDockers /\ (SuFlagged(flag).optIn => SuFlagged(flag).said = "group")
<1>1. SuNoDocker \in SuDockers BY DEF SuNoDocker, SuDockers, SuSayings
<1>2. flag \in SuSayings BY DEF SuFlags, SuSayings
<1>. QED BY <1>1, <1>2 DEF SuFlagged, SuDockers

\* runInitWizard.
LEMMA SuWizardStep ==
    ASSUME SuIndInv, NEW yes \in BOOLEAN, NEW flag \in SuFlags, SuWizard(yes, flag) PROVE SuIndInv'
<1>. DEFINE docker == SuFlagged(flag)
            q == [SuIdle EXCEPT !.kind = "wizard", !.at = "ask", !.yes = yes, !.docker = docker]
<1>1. SuStart(q) BY DEF SuWizard
<1>2. docker \in SuDockers /\ (docker.optIn => docker.said = "group") BY SuFlaggedOK
<1>3. "wizard" \in SuKinds /\ "ask" \in SuSteps BY DEF SuKinds, SuSteps
<1>4. SuIdle \in SuRuns BY SuIdleRun
<1>. HIDE DEF docker
<1>5. q \in SuRuns BY <1>2, <1>3, <1>4 DEF SuRuns
<1>6. q.at = "ask" /\ q.kind = "wizard" /\ q.docker = docker /\ q.pend = SuIdle.pend BY <1>4 DEF SuRuns
<1>7. SuIdle.pend = <<>> BY DEF SuIdle
<1>. HIDE DEF q
<1>. QED BY <1>1, <1>2, <1>5, <1>6, <1>7, SuStartStep

\* runNonInteractiveInit.
LEMMA SuScriptedStep ==
    ASSUME SuIndInv, NEW force \in BOOLEAN, NEW sources \in BOOLEAN, NEW named \in SUBSET SuSecrets,
           NEW flag \in SuFlags, NEW defect, SuScripted(force, defect, SuApplied(named, flag, sources))
    PROVE  SuIndInv'
<1>. DEFINE how == [v \in SuSecrets |-> IF v \in named THEN "skip" ELSE "no"]
            docker == [SuFlagged(flag) EXCEPT !.sources = sources]
            a == SuApplied(named, flag, sources)
            q == [a EXCEPT !.kind = "scripted", !.at = "grant", !.force = force]
<1>1. SuStart(q) /\ (force \/ SuFresh) BY DEF SuScripted
<1>2. a = [SuIdle EXCEPT !.how = how, !.docker = docker] BY DEF SuApplied
<1>3. how \in SuWayMaps /\ \A v \in SuSecrets : how[v] \in {"no", "skip"} BY DEF SuWayMaps, SuWays
<1>4. SuFlagged(flag) \in SuDockers /\ (SuFlagged(flag).optIn => SuFlagged(flag).said = "group") BY SuFlaggedOK
<1>5. docker \in SuDockers /\ (docker.optIn => docker.said = "group") BY <1>4 DEF SuDockers
<1>6. SuIdle \in SuRuns BY SuIdleRun
<1>7. SuIdle.pend = <<>> BY DEF SuIdle
<1>8. "scripted" \in SuKinds /\ "grant" \in SuSteps BY DEF SuKinds, SuSteps
<1>. HIDE DEF how, docker, a
<1>9. a \in SuRuns /\ a.how = how /\ a.docker = docker /\ a.pend = SuIdle.pend BY <1>2, <1>3, <1>5, <1>6 DEF SuRuns
<1>10. q \in SuRuns BY <1>8, <1>9 DEF SuRuns
<1>11. /\ q.at = "grant" /\ q.kind = "scripted" /\ q.force = force /\ q.docker = docker /\ q.how = how
       /\ q.pend = a.pend
  BY <1>9 DEF SuRuns
<1>. HIDE DEF q
<1>. QED BY <1>1, <1>3, <1>5, <1>7, <1>9, <1>10, <1>11, SuStartStep

\* runConfigComponent.
LEMMA SuComponentStep == ASSUME SuIndInv, NEW how \in SuWayMaps, SuComponent(how) PROVE SuIndInv'
<1>. DEFINE q == [SuIdle EXCEPT !.kind = "component", !.at = "backup", !.how = how]
<1>1. SuStart(q) BY DEF SuComponent
<1>2. "component" \in SuKinds /\ "backup" \in SuSteps BY DEF SuKinds, SuSteps
<1>3. SuIdle \in SuRuns BY SuIdleRun
<1>4. q \in SuRuns BY <1>2, <1>3 DEF SuRuns
<1>5. q.at = "backup" /\ q.kind = "component" /\ q.docker = SuIdle.docker /\ q.pend = SuIdle.pend BY <1>3 DEF SuRuns
<1>6. SuIdle.pend = <<>> /\ ~SuIdle.docker.optIn BY DEF SuIdle, SuNoDocker
<1>. HIDE DEF q
<1>. QED BY <1>1, <1>4, <1>5, <1>6, SuStartStep

\* The commands.
LEMMA SuCommandsStep == ASSUME SuIndInv, SuCommands PROVE SuIndInv'
<1>1. SuNone \in SuWayMaps /\ \A v \in SuSecrets, way \in SuWays : [SuNone EXCEPT ![v] = way] \in SuWayMaps
  BY DEF SuNone, SuWayMaps, SuWays
<1>2. "ai" \in SuSecrets /\ "edge" \in SuSecrets /\ "channel" \in SuSecrets /\ "paste" \in SuWays
  BY DEF SuSecrets, SuWays
<1>3. CASE \E flag \in SuFlags, yes \in BOOLEAN : SuWizard(yes, flag) BY <1>3, SuWizardStep
<1>4. CASE \E flag \in SuFlags, force, sources \in BOOLEAN, named \in SUBSET SuSecrets, defect \in SuDefects :
             SuScripted(force, defect, SuApplied(named, flag, sources))
  BY <1>4, SuScriptedStep
<1>5. CASE \E way \in SuWays \ {"no"} : SuConfigAI(way) BY <1>1, <1>2, <1>5, SuComponentStep DEF SuConfigAI
<1>6. CASE \E way \in SuWays \ {"no"} : SuConfigChannel(way) BY <1>1, <1>2, <1>6, SuComponentStep DEF SuConfigChannel
<1>7. CASE SuConfigEdge BY <1>1, <1>2, <1>7, SuComponentStep DEF SuConfigEdge
<1>8. CASE SuConfigPlain BY <1>1, <1>8, SuComponentStep DEF SuConfigPlain
<1>. QED BY <1>3, <1>4, <1>5, <1>6, <1>7, <1>8 DEF SuCommands

\* Whose step it is.
LEMMA SuKindAt ==
    ASSUME NEW w, SuCommandOK(w) PROVE w.at \in {"policyWrite", "renamePolicy"} => w.kind \in {"wizard", "scripted"}
BY DEF SuCommandOK

\* A command moves on.
LEMMA SuMoved ==
    ASSUME NEW w \in SuRuns, NEW step \in SuSteps, NEW r, r = [w EXCEPT !.at = step]
    PROVE  /\ r \in SuRuns /\ r.at = step /\ r.kind = w.kind /\ r.force = w.force /\ r.docker = w.docker /\ r.how = w.how
           /\ r.pend = w.pend /\ r.lines = w.lines /\ r.old = w.old /\ r.stubs = w.stubs
BY DEF SuRuns

\* As long as the secrets are still ahead.
LEMMA SuQuiet ==
    ASSUME NEW w, NEW r, NEW env, NEW had, NEW torn, NEW unit, NEW started, SuLinesOK(w, env), SuHeldOK(w, env, had, torn),
           SuUnitOK(w, unit, started), w.at \notin SuLate, w.at \notin {"idle", "renamePolicy"}, r.at \notin SuLate,
           r.at \notin {"idle", "renamePolicy"}, r.stubs = w.stubs, r.pend = w.pend
    PROVE  SuLinesOK(r, env) /\ SuHeldOK(r, env, had, torn) /\ SuUnitOK(r, unit, started)
<1>1. SuEarlyOK(w, env) BY SuEarly
<1>2. w.pend = <<>> BY <1>1 DEF SuEarlyOK
<1>3. SuIn(r.pend) = {} BY <1>2 DEF SuIn
<1>4. SuEarlyOK(r, env) BY <1>1, <1>2, <1>3 DEF SuEarlyOK
<1>5. SuLinesOK(r, env) BY <1>4, SuEarly
<1>6. w.at # "envWrite" /\ r.at # "envWrite" /\ r.at # "services" BY DEF SuLate
<1>7. SuHeldOK(r, env, had, torn) BY <1>6, SuHeld
<1>. QED BY <1>5, <1>6, <1>7 DEF SuUnitOK

\* The questions, answered without docker collectors.
LEMMA SuAskNoDockerStep == ASSUME SuIndInv, SuAskNoDocker PROVE SuIndInv'
<1>. DEFINE r == [suRun EXCEPT !.at = "keys"]
<1>1. suRun.at = "ask" /\ suRun' = r /\ SuStill BY DEF SuAskNoDocker, SuAt, SuStill
<1>2. suRun \in SuRuns /\ SuGood(suRun) /\ "keys" \in SuSteps BY DEF SuIndInv, SuSteps
<1>3. /\ r \in SuRuns /\ r.at = "keys" /\ r.kind = suRun.kind /\ r.docker = suRun.docker /\ r.pend = suRun.pend
      /\ r.stubs = suRun.stubs /\ r.how = suRun.how
  BY <1>2, SuMoved
<1>. HIDE DEF r
<1>4. SuCommandOK(r) BY <1>1, <1>2, <1>3 DEF SuGood, SuCommandOK
<1>5. SuDiskOK(r, suDisk) BY <1>1, <1>2, <1>3 DEF SuGood, SuCommandOK, SuDiskOK, SuLate
<1>6. SuLinesOK(r, suEnv) /\ SuHeldOK(r, suEnv, suHad, suTorn) /\ SuUnitOK(r, suUnit, suStarted)
  BY <1>1, <1>2, <1>3, SuQuiet DEF SuGood, SuLate
<1>. QED BY <1>1, <1>3, <1>4, <1>5, <1>6, SuRest

\* askDockerAccess: the group only by the last word.
LEMMA SuDockerAccessOK ==
    ASSUME NEW d \in SuDockers, d.optIn => d.said = "group", NEW choice \in {"none", "file", "proxy", "group"},
           NEW consent \in BOOLEAN, NEW left \in BOOLEAN, NEW e, e = IF choice = "none" THEN d ELSE SuDockerAccess(d, choice, consent, left)
    PROVE  e \in SuDockers /\ (e.optIn => e.said = "group")
<1>1. CASE choice = "none" BY <1>1
<1>2. CASE choice = "file"
  <2>1. e = [d EXCEPT !.said = choice, !.sources = left, !.optIn = FALSE, !.host = FALSE] BY <1>2 DEF SuDockerAccess
  <2>. QED BY <2>1, <1>2 DEF SuDockers, SuSayings
<1>3. CASE choice = "proxy"
  <2>1. e = [d EXCEPT !.said = choice, !.host = TRUE, !.optIn = FALSE] BY <1>3 DEF SuDockerAccess
  <2>. QED BY <2>1, <1>3 DEF SuDockers, SuSayings
<1>4. CASE choice = "group" /\ consent
  <2>1. e = [d EXCEPT !.said = choice, !.optIn = consent, !.host = FALSE] BY <1>4 DEF SuDockerAccess
  <2>. QED BY <2>1, <1>4 DEF SuDockers, SuSayings
<1>5. CASE choice = "group" /\ ~consent
  <2>1. e = [d EXCEPT !.said = "none", !.optIn = consent, !.host = FALSE] BY <1>5 DEF SuDockerAccess
  <2>. QED BY <2>1, <1>5 DEF SuDockers, SuSayings
<1>. QED BY <1>1, <1>2, <1>3, <1>4, <1>5

\* A step of the questions: only the answers change.
LEMMA SuAnswered ==
    ASSUME SuIndInv, SuStill, suRun.at \in {"ask", "keys"}, NEW r \in SuRuns, suRun' = r, r.at \in {"keys", "grant"},
           r.kind = suRun.kind, r.docker.optIn => r.docker.said = "group", r.pend = suRun.pend, r.stubs = suRun.stubs
    PROVE  SuIndInv'
<1>1. SuGood(suRun) BY DEF SuIndInv
<1>2. r.kind = "wizard" BY <1>1 DEF SuGood, SuCommandOK
<1>3. SuCommandOK(r) BY <1>2 DEF SuCommandOK
<1>4. SuDiskOK(r, suDisk) BY <1>2 DEF SuDiskOK, SuLate
<1>5. SuLinesOK(r, suEnv) /\ SuHeldOK(r, suEnv, suHad, suTorn) /\ SuUnitOK(r, suUnit, suStarted)
  BY <1>1, SuQuiet DEF SuGood, SuLate
<1>. QED BY <1>3, <1>4, <1>5, SuRest

LEMMA SuAskDockerStep ==
    ASSUME SuIndInv, NEW choice \in {"none", "file", "proxy", "group"}, NEW consent \in BOOLEAN, NEW left \in BOOLEAN,
           SuAskDocker(choice, consent, left)
    PROVE  SuIndInv'
<1>. DEFINE d == [suRun.docker EXCEPT !.sources = TRUE]
            e == IF choice = "none" THEN d ELSE SuDockerAccess(d, choice, consent, left)
            r == [suRun EXCEPT !.at = "keys", !.docker = e]
<1>1. suRun.at = "ask" /\ suRun' = r /\ SuStill BY DEF SuAskDocker, SuStill
<1>2. suRun \in SuRuns /\ SuGood(suRun) /\ "keys" \in SuSteps BY DEF SuIndInv, SuSteps
<1>3. suRun.docker \in SuDockers BY <1>2 DEF SuRuns
<1>4. d \in SuDockers /\ d.optIn = suRun.docker.optIn /\ d.said = suRun.docker.said BY <1>3 DEF SuDockers
<1>5. d.optIn => d.said = "group" BY <1>2, <1>4 DEF SuGood, SuCommandOK
<1>. HIDE DEF d
<1>6. e \in SuDockers /\ (e.optIn => e.said = "group") BY <1>4, <1>5, SuDockerAccessOK
<1>. HIDE DEF e
<1>7. r \in SuRuns BY <1>2, <1>6 DEF SuRuns
<1>8. /\ r.at = "keys" /\ r.kind = suRun.kind /\ r.docker = e /\ r.pend = suRun.pend /\ r.stubs = suRun.stubs
  BY <1>2 DEF SuRuns
<1>. HIDE DEF r
<1>. QED BY <1>1, <1>6, <1>7, <1>8, SuAnswered

LEMMA SuAskKeysStep == ASSUME SuIndInv, NEW how \in SuHow, SuAskKeys(how) PROVE SuIndInv'
<1>. DEFINE r == [suRun EXCEPT !.how = how, !.at = "grant", !.yes = FALSE]
<1>1. suRun.at = "keys" /\ suRun' = r /\ SuStill BY DEF SuAskKeys, SuStill
<1>2. suRun \in SuRuns /\ SuGood(suRun) /\ "grant" \in SuSteps BY DEF SuIndInv, SuSteps
<1>3. how \in SuWayMaps BY DEF SuHow, SuWayMaps
<1>4. r \in SuRuns BY <1>2, <1>3 DEF SuRuns
<1>5. r.at = "grant" /\ r.kind = suRun.kind /\ r.docker = suRun.docker /\ r.pend = suRun.pend /\ r.stubs = suRun.stubs
  BY <1>2 DEF SuRuns
<1>. HIDE DEF r
<1>6. r.docker.optIn => r.docker.said = "group" BY <1>2, <1>5 DEF SuGood, SuCommandOK
<1>. QED BY <1>1, <1>4, <1>5, <1>6, SuAnswered

LEMMA SuAskStep == ASSUME SuIndInv, SuAsk PROVE SuIndInv'
BY SuAskNoDockerStep, SuAskDockerStep, SuAskKeysStep DEF SuAsk

\* applyDockerGroupDecision.
LEMMA SuGrantStep == ASSUME SuIndInv, NEW ok \in BOOLEAN, SuGrant(ok) PROVE SuIndInv'
<1>. DEFINE step == IF suRun.kind = "wizard" THEN "config" ELSE "stage"
            r == [suRun EXCEPT !.at = step, !.docker = SuNoDocker]
<1>1. /\ suRun.at = "grant" /\ suRun' = r /\ suGroup' = (suGroup \/ ok)
      /\ UNCHANGED <<suFilesVars, suUnit, suPackaged, suStarted, suBounds>>
  BY DEF SuGrant
<1>2. suRun \in SuRuns /\ SuGood(suRun) /\ SuWorldOK BY DEF SuIndInv
<1>3. SuNoDocker \in SuDockers /\ ~SuNoDocker.optIn BY DEF SuNoDocker, SuDockers, SuSayings
<1>4. step \in SuSteps BY DEF SuSteps
<1>5. /\ suRun.kind \in {"wizard", "scripted"}
      /\ suRun.kind = "wizard" => step = "config"
      /\ suRun.kind = "scripted" => step = "stage"
  BY <1>1, <1>2 DEF SuGood, SuCommandOK
<1>. HIDE DEF step
<1>6. r \in SuRuns BY <1>2, <1>3, <1>4 DEF SuRuns
<1>7. /\ r.at = step /\ r.kind = suRun.kind /\ r.force = suRun.force /\ r.docker = SuNoDocker /\ r.how = suRun.how
      /\ r.pend = suRun.pend /\ r.stubs = suRun.stubs
  BY <1>2 DEF SuRuns
<1>. HIDE DEF r
<1>8. SuCommandOK(r) BY <1>2, <1>3, <1>5, <1>7 DEF SuGood, SuCommandOK
<1>9. SuDiskOK(r, suDisk) BY <1>1, <1>2, <1>5, <1>7 DEF SuGood, SuDiskOK, SuLate
<1>10. SuLinesOK(r, suEnv) /\ SuHeldOK(r, suEnv, suHad, suTorn) /\ SuUnitOK(r, suUnit, suStarted)
  BY <1>1, <1>2, <1>5, <1>7, SuQuiet DEF SuGood, SuLate
<1>11. SuWorldOK' BY <1>1, <1>2 DEF SuWorldOK, suFilesVars, suBounds
<1>. QED BY <1>1, <1>6, <1>8, <1>9, <1>10, <1>11, SuCarry DEF suFilesVars

\* A file changes.
SuTouched(f, c) == suDisk' = [suDisk EXCEPT ![f] = c] /\ UNCHANGED <<suEnv, suHad, suTorn, suSystem, suBounds>>
LEMMA SuTouch ==
    ASSUME SuIndInv, NEW f \in SuFiles, NEW c \in SuContents, SuTouched(f, c)
    PROVE  /\ SuWorldOK' /\ suDisk'[f] = c /\ \A g \in SuFiles \ {f} : suDisk'[g] = suDisk[g]
           /\ suEnv' = suEnv /\ suHad' = suHad /\ suTorn' = suTorn /\ suUnit' = suUnit /\ suStarted' = suStarted
<1>1. suDisk \in [SuFiles -> SuContents] /\ SuWorldOK BY DEF SuIndInv, SuWorldOK
<1>2. suDisk' = [suDisk EXCEPT ![f] = c] BY DEF SuTouched
<1>3. suDisk' \in [SuFiles -> SuContents] /\ suDisk'[f] = c /\ \A g \in SuFiles \ {f} : suDisk'[g] = suDisk[g]
  BY <1>1, <1>2
<1>4. /\ suEnv' = suEnv /\ suHad' = suHad /\ suTorn' = suTorn /\ suGroup' = suGroup /\ suUnit' = suUnit
      /\ suPackaged' = suPackaged /\ suStarted' = suStarted /\ suCount' = suCount /\ suEdits' = suEdits
  BY DEF SuTouched, suSystem, suBounds
<1>5. SuWorldOK' BY <1>1, <1>3, <1>4 DEF SuWorldOK
<1>. QED BY <1>3, <1>4, <1>5

\* One file step of a command, ahead of the secrets.
LEMMA SuFileMove ==
    ASSUME SuIndInv, NEW f \in SuFiles, NEW c \in SuContents, SuTouched(f, c), NEW step \in SuSteps, SuAt(step),
           suRun.at \notin SuLate, suRun.at \notin {"idle", "renamePolicy"}, step \notin SuLate,
           step \notin {"idle", "renamePolicy"}, SuCommandOK([suRun EXCEPT !.at = step]),
           SuDiskOK([suRun EXCEPT !.at = step], suDisk')
    PROVE  SuIndInv'
<1>. DEFINE r == [suRun EXCEPT !.at = step]
<1>1. suRun' = r BY DEF SuAt
<1>2. suRun \in SuRuns /\ SuGood(suRun) BY DEF SuIndInv
<1>3. r \in SuRuns /\ r.at = step /\ r.pend = suRun.pend /\ r.stubs = suRun.stubs BY <1>2, SuMoved
<1>4. SuWorldOK' /\ suEnv' = suEnv /\ suHad' = suHad /\ suTorn' = suTorn /\ suUnit' = suUnit /\ suStarted' = suStarted
  BY SuTouch
<1>5. SuCommandOK(r) /\ SuDiskOK(r, suDisk') OBVIOUS
<1>. HIDE DEF r
<1>6. SuLinesOK(r, suEnv) /\ SuHeldOK(r, suEnv, suHad, suTorn) /\ SuUnitOK(r, suUnit, suStarted)
  BY <1>2, <1>3, SuQuiet DEF SuGood
<1>. QED BY <1>1, <1>3, <1>4, <1>5, <1>6, SuCarry

\* The wizard finds no file and empties it.
LEMMA SuTruncateStep ==
    ASSUME SuIndInv, NEW f, NEW step, SuTruncate(f, step),
           \/ f = "config" /\ step = "configWrite"
           \/ f = "policy" /\ step = "policyWrite"
    PROVE  SuIndInv'
<1>. DEFINE r == [suRun EXCEPT !.at = step]
<1>1. suRun.at = f /\ SuTouched(f, "torn") /\ SuAt(step) BY DEF SuTruncate, SuTouched
<1>2. suRun \in SuRuns /\ SuGood(suRun) BY DEF SuIndInv
<1>3. f \in SuFiles /\ step \in SuSteps /\ "torn" \in SuContents BY DEF SuFiles, SuSteps, SuContents
<1>4. r.at = step /\ r.kind = suRun.kind /\ r.docker = suRun.docker BY <1>2, <1>3, SuMoved
<1>5. suDisk'[f] = "torn" /\ \A g \in SuFiles \ {f} : suDisk'[g] = suDisk[g] BY <1>1, <1>3, SuTouch
<1>6. suRun.kind = "wizard" BY <1>1, <1>2 DEF SuGood, SuCommandOK
<1>7. suRun.at \notin SuLate /\ suRun.at \notin {"idle", "renamePolicy"} /\ step \notin SuLate /\ step \notin {"idle", "renamePolicy"}
  BY <1>1 DEF SuLate
<1>. HIDE DEF r
<1>8. SuCommandOK(r) BY <1>2, <1>4, <1>6 DEF SuGood, SuCommandOK
<1>9. "config" \in SuFiles BY DEF SuFiles
<1>10. f = "policy" => suDisk'["config"] = "new" BY <1>1, <1>2, <1>5, <1>9 DEF SuGood, SuDiskOK
<1>11. SuDiskOK(r, suDisk') BY <1>4, <1>5, <1>6, <1>7, <1>10 DEF SuDiskOK
<1>. QED BY <1>1, <1>3, <1>7, <1>8, <1>11, SuFileMove DEF r

LEMMA SuWriteConfigStep == ASSUME SuIndInv, SuWriteConfig PROVE SuIndInv'
<1>1. CASE SuTruncate("config", "configWrite") BY <1>1, SuTruncateStep
<1>2. CASE suRun.at = "configWrite" /\ SuTouched("config", "new") /\ SuAt("policy")
  <2>. DEFINE r == [suRun EXCEPT !.at = "policy"]
  <2>1. suRun \in SuRuns /\ SuGood(suRun) BY DEF SuIndInv
  <2>2. "config" \in SuFiles /\ "policy" \in SuSteps /\ "new" \in SuContents BY DEF SuFiles, SuSteps, SuContents
  <2>3. r.at = "policy" /\ r.kind = suRun.kind /\ r.docker = suRun.docker BY <2>1, <2>2, SuMoved
  <2>4. suDisk'["config"] = "new" BY <1>2, <2>2, SuTouch
  <2>5. suRun.kind = "wizard" BY <1>2, <2>1 DEF SuGood, SuCommandOK
  <2>6. suRun.at \notin SuLate /\ "policy" \notin SuLate BY <1>2 DEF SuLate
  <2>. HIDE DEF r
  <2>7. SuCommandOK(r) BY <2>1, <2>3, <2>5 DEF SuGood, SuCommandOK
  <2>8. SuDiskOK(r, suDisk') BY <2>3, <2>4, <2>5 DEF SuDiskOK, SuLate
  <2>. QED BY <1>2, <2>2, <2>6, <2>7, <2>8, SuFileMove DEF r
<1>. QED BY <1>1, <1>2 DEF SuWriteConfig, SuTouched

\* The .env writes a run owes: one for each secret pasted or skipped.
LEMMA SuIfGivenIs ==
    ASSUME NEW how, NEW v \in SuSecrets
    PROVE  /\ SuIfGiven(how, v) \in SuPends
           /\ \/ SuIfGiven(how, v) = <<>> /\ how[v] \notin {"paste", "skip"}
              \/ SuIfGiven(how, v) = <<v>> /\ how[v] \in {"paste", "skip"}
BY DEF SuIfGiven, SuPends

LEMMA SuInOfJoin ==
    ASSUME NEW s \in SuPends, NEW t \in SuPends
    PROVE  s \o t \in SuPends /\ SuIn(s \o t) = SuIn(s) \cup SuIn(t)
<1>1. s \o t \in SuPends BY DEF SuPends
<1>2. \A i \in DOMAIN (s \o t) : (s \o t)[i] \in SuIn(s) \cup SuIn(t) BY DEF SuPends, SuIn
<1>3. \A i \in DOMAIN s : i \in DOMAIN (s \o t) /\ (s \o t)[i] = s[i] BY DEF SuPends
<1>4. \A i \in DOMAIN t : Len(s) + i \in DOMAIN (s \o t) /\ (s \o t)[Len(s) + i] = t[i] BY DEF SuPends
<1>5. SuIn(s) \subseteq SuIn(s \o t) BY <1>3 DEF SuIn
<1>6. SuIn(t) \subseteq SuIn(s \o t) BY <1>4 DEF SuIn
<1>7. SuIn(s \o t) \subseteq SuIn(s) \cup SuIn(t) BY <1>2 DEF SuIn
<1>. QED BY <1>1, <1>5, <1>6, <1>7

LEMMA SuPendingIs ==
    ASSUME NEW how
    PROVE  SuPending(how) \in SuPends /\ SuIn(SuPending(how)) = {v \in SuSecrets : how[v] \in {"paste", "skip"}}
<1>. DEFINE given(v) == SuIfGiven(how, v)
<1>1. \A v \in SuSecrets : given(v) \in SuPends /\ SuIn(given(v)) = {u \in {v} : how[u] \in {"paste", "skip"}}
  <2>1. TAKE v \in SuSecrets
  <2>2. SuIn(<<>>) = {} /\ SuIn(<<v>>) = {v} BY DEF SuIn
  <2>3. given(v) \in SuPends BY SuIfGivenIs
  <2>4. CASE given(v) = <<>> /\ how[v] \notin {"paste", "skip"} BY <2>2, <2>3, <2>4
  <2>5. CASE given(v) = <<v>> /\ how[v] \in {"paste", "skip"} BY <2>2, <2>3, <2>5
  <2>. QED BY <2>4, <2>5, SuIfGivenIs
<1>2. SuSecrets = {"ai", "edge", "channel"} BY DEF SuSecrets
<1>3. SuPending(how) = given("ai") \o given("edge") \o given("channel") BY DEF SuPending
<1>. HIDE DEF given
<1>4. given("ai") \in SuPends /\ given("edge") \in SuPends /\ given("channel") \in SuPends BY <1>1, <1>2
<1>5. given("ai") \o given("edge") \in SuPends /\ SuIn(given("ai") \o given("edge")) = SuIn(given("ai")) \cup SuIn(given("edge"))
  BY <1>4, SuInOfJoin
<1>6. /\ SuPending(how) \in SuPends
      /\ SuIn(SuPending(how)) = SuIn(given("ai")) \cup SuIn(given("edge")) \cup SuIn(given("channel"))
  BY <1>3, <1>4, <1>5, SuInOfJoin
<1>. QED BY <1>1, <1>2, <1>6

\* A file is in place, .env comes next.
LEMMA SuCommitStep ==
    ASSUME SuIndInv, NEW f \in {"config", "policy"}, NEW step, SuCommit(f, step),
           \/ f = "policy" /\ step = "env" /\ suRun.at \in {"policyWrite", "renamePolicy"}
           \/ f = "config" /\ step = "renamePolicy" /\ suRun.at = "renameConfig"
           \/ f = "config" /\ step = "env" /\ suRun.at = "save"
    PROVE  SuIndInv'
<1>. DEFINE pend == SuPending(suRun.how)
            r == [suRun EXCEPT !.at = step, !.pend = pend]
<1>1. suRun' = r /\ SuTouched(f, "new") BY DEF SuCommit, SuTouched
<1>2. suRun \in SuRuns /\ SuGood(suRun) BY DEF SuIndInv
<1>3. f \in SuFiles /\ step \in SuSteps /\ "new" \in SuContents BY DEF SuFiles, SuSteps, SuContents
<1>4. pend \in SuPends /\ SuIn(pend) = {v \in SuSecrets : suRun.how[v] \in {"paste", "skip"}} BY SuPendingIs
<1>. HIDE DEF pend
<1>5. r \in SuRuns BY <1>2, <1>3, <1>4 DEF SuRuns
<1>6. /\ r.at = step /\ r.kind = suRun.kind /\ r.force = suRun.force /\ r.docker = suRun.docker /\ r.how = suRun.how
      /\ r.pend = pend /\ r.old = suRun.old /\ r.stubs = suRun.stubs
  BY <1>2 DEF SuRuns
<1>. HIDE DEF r
<1>7. /\ SuWorldOK' /\ suDisk'[f] = "new" /\ \A g \in SuFiles \ {f} : suDisk'[g] = suDisk[g]
      /\ suEnv' = suEnv /\ suHad' = suHad /\ suTorn' = suTorn /\ suUnit' = suUnit /\ suStarted' = suStarted
  BY <1>1, <1>3, SuTouch
<1>8. suRun.at \notin SuLate /\ suRun.at # "idle" /\ suRun.at # "envWrite" /\ step # "envWrite" /\ step # "services"
  BY DEF SuLate
<1>9. SuCommandOK(r) BY <1>2, <1>6 DEF SuGood, SuCommandOK
<1>10. SuDiskOK(r, suDisk')
  <2>1. SuFiles = {"config", "policy", "bak"} BY DEF SuFiles
  <2>2. SuDiskOK(suRun, suDisk) /\ SuCommandOK(suRun) BY <1>2 DEF SuGood
  <2>3. CASE f = "policy" /\ step = "env" /\ suRun.at \in {"policyWrite", "renamePolicy"}
    <3>1. suDisk'["config"] = "new" /\ suDisk'["policy"] = "new" BY <1>7, <2>1, <2>2, <2>3 DEF SuDiskOK
    <3>2. r.kind # "component" BY <1>2, <1>6, <2>2, <2>3, SuKindAt
    <3>. QED BY <1>6, <2>3, <3>1, <3>2 DEF SuDiskOK
  <2>4. CASE f = "config" /\ step = "renamePolicy" /\ suRun.at = "renameConfig"
    <3>1. suDisk'["config"] = "new" /\ suDisk'["policy"] = suDisk["policy"] BY <1>7, <2>1, <2>4
    <3>2. r.kind = "scripted" BY <1>6, <2>2, <2>4 DEF SuCommandOK
    <3>. QED BY <1>6, <2>2, <2>4, <3>1, <3>2 DEF SuDiskOK, SuLate
  <2>5. CASE f = "config" /\ step = "env" /\ suRun.at = "save"
    <3>1. suDisk'["bak"] = suDisk["bak"] BY <1>7, <2>1, <2>5
    <3>2. r.kind = "component" BY <1>6, <2>2, <2>5 DEF SuCommandOK
    <3>3. r.old = suDisk["bak"] BY <1>6, <2>2, <2>5, <3>2 DEF SuDiskOK
    <3>. QED BY <1>6, <2>5, <3>1, <3>2, <3>3 DEF SuDiskOK
  <2>. QED BY <2>3, <2>4, <2>5
<1>11. SuLinesOK(r, suEnv)
  <2>1. SuEarlyOK(suRun, suEnv) BY <1>2, <1>8, SuEarly DEF SuGood
  <2>2. SuEnvAhead(r, suEnv) = suEnv BY <1>6, <1>8 DEF SuEnvAhead
  <2>. QED BY <1>4, <1>6, <2>1, <2>2 DEF SuLinesOK, SuEarlyOK
<1>12. SuHeldOK(r, suEnv, suHad, suTorn) BY <1>2, <1>6, <1>8, SuHeld DEF SuGood
<1>13. SuUnitOK(r, suUnit, suStarted) BY <1>2, <1>6, <1>8 DEF SuGood, SuUnitOK
<1>. QED BY <1>1, <1>5, <1>7, <1>9, <1>10, <1>11, <1>12, <1>13, SuCarry

LEMMA SuWritePolicyStep == ASSUME SuIndInv, SuWritePolicy PROVE SuIndInv'
BY SuTruncateStep, SuCommitStep DEF SuWritePolicy

LEMMA SuCommitPairStep == ASSUME SuIndInv, SuCommitPair PROVE SuIndInv'
BY SuCommitStep DEF SuCommitPair

LEMMA SuSaveStep == ASSUME SuIndInv, SuSave PROVE SuIndInv'
BY SuCommitStep DEF SuSave

LEMMA SuStageStep == ASSUME SuIndInv, SuStage PROVE SuIndInv'
<1>. DEFINE r == [suRun EXCEPT !.at = "renameConfig"]
<1>1. suRun.at = "stage" /\ suRun' = r /\ SuStill BY DEF SuStage, SuAt, SuStill
<1>2. suRun \in SuRuns /\ SuGood(suRun) /\ "renameConfig" \in SuSteps BY DEF SuIndInv, SuSteps
<1>3. /\ r \in SuRuns /\ r.at = "renameConfig" /\ r.kind = suRun.kind /\ r.force = suRun.force
      /\ r.docker = suRun.docker /\ r.how = suRun.how /\ r.pend = suRun.pend /\ r.stubs = suRun.stubs
  BY <1>2, SuMoved
<1>. HIDE DEF r
<1>4. SuCommandOK(r) BY <1>1, <1>2, <1>3 DEF SuGood, SuCommandOK
<1>5. suRun.kind = "scripted" BY <1>1, <1>2 DEF SuGood, SuCommandOK
<1>6. SuDiskOK(r, suDisk) BY <1>1, <1>2, <1>3, <1>5 DEF SuGood, SuDiskOK, SuLate
<1>7. SuLinesOK(r, suEnv) /\ SuHeldOK(r, suEnv, suHad, suTorn) /\ SuUnitOK(r, suUnit, suStarted)
  BY <1>1, <1>2, <1>3, SuQuiet DEF SuGood, SuLate
<1>. QED BY <1>1, <1>3, <1>4, <1>6, <1>7, SuRest

\* SaveConfig's copy to .bak.
LEMMA SuBackupStep == ASSUME SuIndInv, SuBackup PROVE SuIndInv'
<1>1. suRun \in SuRuns /\ SuGood(suRun) /\ SuFiles = {"config", "policy", "bak"} BY DEF SuIndInv, SuFiles
<1>2. "torn" \in SuContents /\ suDisk["config"] \in SuContents
  <2>1. suDisk \in [SuFiles -> SuContents] BY DEF SuIndInv, SuWorldOK
  <2>. QED BY <1>1, <2>1 DEF SuContents
<1>3. CASE suRun.at = "backup" /\ SuTouched("bak", "torn") /\ SuAt("backupWrite")
  <2>. DEFINE r == [suRun EXCEPT !.at = "backupWrite"]
  <2>1. suRun.kind = "component" /\ suRun.old = suDisk["config"] BY <1>1, <1>3 DEF SuGood, SuCommandOK, SuDiskOK
  <2>2. "backupWrite" \in SuSteps BY DEF SuSteps
  <2>3. r.at = "backupWrite" /\ r.kind = suRun.kind /\ r.docker = suRun.docker /\ r.old = suRun.old
    BY <1>1, <2>2, SuMoved
  <2>4. suDisk'["config"] = suDisk["config"] BY <1>1, <1>2, <1>3, SuTouch
  <2>5. suRun.at \notin SuLate /\ "backupWrite" \notin SuLate BY <1>3 DEF SuLate
  <2>. HIDE DEF r
  <2>6. SuCommandOK(r) BY <1>1, <2>1, <2>3 DEF SuGood, SuCommandOK
  <2>7. SuDiskOK(r, suDisk') BY <2>1, <2>3, <2>4 DEF SuDiskOK, SuLate
  <2>. QED BY <1>1, <1>2, <1>3, <2>2, <2>5, <2>6, <2>7, SuFileMove DEF r
<1>4. CASE suRun.at = "backupWrite" /\ SuTouched("bak", suDisk["config"]) /\ SuAt("save")
  <2>. DEFINE r == [suRun EXCEPT !.at = "save"]
  <2>1. suRun.kind = "component" /\ suRun.old = suDisk["config"] BY <1>1, <1>4 DEF SuGood, SuCommandOK, SuDiskOK
  <2>2. "save" \in SuSteps BY DEF SuSteps
  <2>3. r.at = "save" /\ r.kind = suRun.kind /\ r.docker = suRun.docker /\ r.old = suRun.old BY <1>1, <2>2, SuMoved
  <2>4. suDisk'["bak"] = suDisk["config"] BY <1>1, <1>2, <1>4, SuTouch
  <2>5. suRun.at \notin SuLate /\ "save" \notin SuLate BY <1>4 DEF SuLate
  <2>. HIDE DEF r
  <2>6. SuCommandOK(r) BY <1>1, <2>1, <2>3 DEF SuGood, SuCommandOK
  <2>7. SuDiskOK(r, suDisk') BY <2>1, <2>3, <2>4 DEF SuDiskOK, SuLate
  <2>. QED BY <1>1, <1>2, <1>4, <2>2, <2>5, <2>6, <2>7, SuFileMove DEF r
<1>. QED BY <1>3, <1>4 DEF SuBackup, SuTouched

\* What a write makes of the lines of .env: every value stays, a placeholder
\* comes only for a skipped paste, no line goes.
SuKeeps(how, env, lines) ==
    /\ lines \in [SuSecrets -> SuValues]
    /\ \A v \in SuSecrets :
         /\ env[v] = "real" => lines[v] = "real"
         /\ lines[v] = "stub" => env[v] = "stub" \/ how[v] = "skip"
         /\ env[v] # "none" => lines[v] # "none"

LEMMA SuMergedKeeps ==
    ASSUME SuIndInv, NEW v \in SuSecrets, suRun.how[v] \in {"paste", "skip"}
    PROVE  SuKeeps(suRun.how, suEnv, SuMerged(suEnv, v)) /\ SuMerged(suEnv, v)[v] # "none"
<1>1. suEnv \in [SuSecrets -> SuValues] BY DEF SuIndInv, SuWorldOK
<1>2. CASE suRun.how[v] = "paste"
  <2>1. SuMerged(suEnv, v) = [suEnv EXCEPT ![v] = "real"] BY <1>2 DEF SuMerged, SuUpsert
  <2>. QED BY <1>1, <2>1 DEF SuKeeps, SuValues
<1>3. CASE suRun.how[v] = "skip" /\ suEnv[v] = "real"
  <2>1. SuMerged(suEnv, v) = suEnv BY <1>3 DEF SuMerged
  <2>. QED BY <1>1, <1>3, <2>1 DEF SuKeeps
<1>4. CASE suRun.how[v] = "skip" /\ suEnv[v] # "real"
  <2>1. SuMerged(suEnv, v) = [suEnv EXCEPT ![v] = "stub"] BY <1>4 DEF SuMerged, SuUpsert
  <2>. QED BY <1>1, <1>4, <2>1 DEF SuKeeps, SuValues
<1>. QED BY <1>2, <1>3, <1>4

LEMMA SuStubbedKeeps ==
    ASSUME SuIndInv
    PROVE  SuKeeps(suRun.how, suEnv, SuStubbed) /\ \A v \in SuSecrets : suRun.how[v] = "skip" => SuStubbed[v] # "none"
<1>1. suEnv \in [SuSecrets -> SuValues] BY DEF SuIndInv, SuWorldOK
<1>2. SuStubbed \in [SuSecrets -> SuValues] BY <1>1 DEF SuStubbed, SuValues
<1>3. \A v \in SuSecrets : SuStubbed[v] = IF suRun.how[v] = "skip" /\ suEnv[v] # "real" THEN "stub" ELSE suEnv[v]
  BY DEF SuStubbed
<1>. QED BY <1>1, <1>2, <1>3 DEF SuKeeps

\* The first of the writes that are left, and the rest.
LEMMA SuHeadIs ==
    ASSUME SuIndInv, suRun.at = "env", suRun.pend # <<>>
    PROVE  /\ Head(suRun.pend) \in SuSecrets /\ suRun.how[Head(suRun.pend)] \in {"paste", "skip"}
           /\ Tail(suRun.pend) \in SuPends /\ SuIn(suRun.pend) = SuIn(Tail(suRun.pend)) \cup {Head(suRun.pend)}
<1>. DEFINE p == suRun.pend
<1>1. p \in SuPends BY DEF SuIndInv, SuRuns
<1>2. p # <<>> OBVIOUS
<1>3. \A v \in SuIn(p) : suRun.how[v] \in {"paste", "skip"} BY DEF SuIndInv, SuGood, SuLinesOK
<1>. HIDE DEF p
<1>4. Tail(p) \in SuPends /\ Head(p) \in SuSecrets /\ Head(p) = p[1] /\ 1 \in DOMAIN p BY <1>1, <1>2 DEF SuPends
<1>5. Head(p) \in SuIn(p) BY <1>4 DEF SuIn
<1>6. \A i \in DOMAIN Tail(p) : i + 1 \in DOMAIN p /\ Tail(p)[i] = p[i + 1] BY <1>1, <1>2 DEF SuPends
<1>7. \A i \in DOMAIN p : i = 1 \/ (i - 1 \in DOMAIN Tail(p) /\ Tail(p)[i - 1] = p[i]) BY <1>1, <1>2 DEF SuPends
<1>8. SuIn(Tail(p)) \subseteq SuIn(p) BY <1>6 DEF SuIn
<1>9. SuIn(p) \subseteq SuIn(Tail(p)) \cup {Head(p)} BY <1>4, <1>7 DEF SuIn
<1>. QED BY <1>3, <1>4, <1>5, <1>8, <1>9 DEF p

\* A write of .env, at once or begun: its lines keep what was there, and what
\* is no longer to come is in them.
LEMMA SuEnvMove ==
    ASSUME SuIndInv, suRun.at = "env", NEW r \in SuRuns, suRun' = r, r.at \in {"env", "envWrite"}, r.kind = suRun.kind,
           r.docker = suRun.docker, r.how = suRun.how, r.old = suRun.old, r.stubs = suRun.stubs,
           r.force = suRun.force, UNCHANGED <<suDisk, suTorn, suSystem, suBounds>>, suEnv' \in [SuSecrets -> SuValues],
           SuKeeps(suRun.how, suEnv, SuEnvAhead(r, suEnv')), SuIn(r.pend) \subseteq SuIn(suRun.pend),
           \A v \in SuIn(suRun.pend) \ SuIn(r.pend) : SuEnvAhead(r, suEnv')[v] # "none",
           suHad' \subseteq SuSecrets, \A v \in suHad' \ suHad : SuEnvAhead(r, suEnv')[v] = "real"
    PROVE  SuIndInv'
<1>1. suRun \in SuRuns /\ SuGood(suRun) /\ SuWorldOK BY DEF SuIndInv
<1>2. r.at \in SuLate /\ suRun.at \in SuLate /\ SuEnvAhead(suRun, suEnv) = suEnv BY DEF SuLate, SuEnvAhead
<1>3. suDisk' = suDisk /\ suTorn' = suTorn /\ suUnit' = suUnit /\ suStarted' = suStarted BY DEF suSystem
<1>4. SuCommandOK(r) BY <1>1 DEF SuGood, SuCommandOK
<1>5. SuDiskOK(r, suDisk') BY <1>1, <1>2, <1>3 DEF SuGood, SuDiskOK
<1>. DEFINE lines == SuEnvAhead(r, suEnv')
<1>6. SuLinesOK(suRun, suEnv) BY <1>1 DEF SuGood
<1>. HIDE DEF lines
<1>7. SuKeeps(suRun.how, suEnv, lines) /\ \A v \in SuIn(suRun.pend) \ SuIn(r.pend) : lines[v] # "none" BY DEF lines
<1>8. lines \in [SuSecrets -> SuValues] BY <1>7 DEF SuKeeps
<1>9. \A v \in SuSecrets : lines[v] = "stub" => v \in r.stubs \/ r.how[v] = "skip"
  BY <1>2, <1>6, <1>7 DEF SuKeeps, SuLinesOK
<1>10. \A v \in SuSecrets : r.how[v] \in {"paste", "skip"} => v \in SuIn(r.pend) \/ lines[v] # "none"
  <2>. SUFFICES ASSUME NEW v \in SuSecrets, r.how[v] \in {"paste", "skip"}, v \notin SuIn(r.pend) PROVE lines[v] # "none"
    OBVIOUS
  <2>1. v \in SuIn(suRun.pend) \/ suEnv[v] # "none" BY <1>2, <1>6 DEF SuLinesOK
  <2>. QED BY <1>7, <2>1 DEF SuKeeps
<1>11. \A v \in SuIn(r.pend) : r.how[v] \in {"paste", "skip"} BY <1>6 DEF SuLinesOK
<1>12. SuLinesOK(r, suEnv') BY <1>2, <1>8, <1>9, <1>10, <1>11 DEF SuLinesOK, lines
<1>13. SuHeldOK(r, suEnv', suHad', suTorn')
  <2>1. suTorn \/ \A v \in suHad : suEnv[v] = "real" BY <1>1, <1>2 DEF SuGood, SuHeldOK
  <2>2. suHad \subseteq SuSecrets BY <1>1 DEF SuWorldOK
  <2>. QED BY <1>3, <1>7, <2>1, <2>2 DEF SuHeldOK, SuKeeps, lines
<1>14. SuUnitOK(r, suUnit', suStarted') BY <1>1, <1>3 DEF SuGood, SuUnitOK
<1>15. SuWorldOK' BY <1>1 DEF SuWorldOK, suSystem, suBounds
<1>. QED BY <1>4, <1>5, <1>12, <1>13, <1>14, <1>15, SuCarry

\* writeOrKeepEnvFile, writeAIEnvFile, writeCloudflareEnvFile by a rename.
LEMMA SuEnvAtomicStep == ASSUME SuIndInv, SuEnvAtomic PROVE SuIndInv'
<1>. DEFINE v == Head(suRun.pend)
            rest == Tail(suRun.pend)
            r == [suRun EXCEPT !.pend = rest]
            lines == SuMerged(suEnv, v)
<1>1. /\ suRun.at = "env" /\ suRun.pend # <<>> /\ suEnv' = lines /\ SuHolds(lines) /\ suRun' = r
      /\ UNCHANGED <<suDisk, suTorn, suSystem, suBounds>>
  BY DEF SuEnvAtomic
<1>2. /\ v \in SuSecrets /\ suRun.how[v] \in {"paste", "skip"} /\ rest \in SuPends
      /\ SuIn(suRun.pend) = SuIn(rest) \cup {v}
  BY <1>1, SuHeadIs
<1>3. SuKeeps(suRun.how, suEnv, lines) /\ lines[v] # "none" BY <1>2, SuMergedKeeps
<1>4. suRun \in SuRuns /\ suHad \subseteq SuSecrets BY DEF SuIndInv, SuWorldOK
<1>. HIDE DEF v, rest, lines
<1>5. r \in SuRuns BY <1>2, <1>4 DEF SuRuns
<1>6. /\ r.at = suRun.at /\ r.kind = suRun.kind /\ r.force = suRun.force /\ r.docker = suRun.docker /\ r.how = suRun.how
      /\ r.pend = rest /\ r.old = suRun.old /\ r.stubs = suRun.stubs
  BY <1>4 DEF SuRuns
<1>. HIDE DEF r
<1>7. SuEnvAhead(r, suEnv') = lines BY <1>1, <1>6 DEF SuEnvAhead
<1>8. lines \in [SuSecrets -> SuValues] BY <1>3 DEF SuKeeps
<1>9. suHad' \subseteq SuSecrets /\ \A u \in suHad' \ suHad : lines[u] = "real" BY <1>1, <1>4 DEF SuHolds
<1>. QED BY <1>1, <1>2, <1>3, <1>5, <1>6, <1>7, <1>8, <1>9, SuEnvMove

\* The in-place writers: what they read before they empty the file.
LEMMA SuNewLinesIs ==
    ASSUME SuIndInv, suRun.at = "env", suRun.pend # <<>>,
           NEW rest, rest = IF suRun.kind = "scripted" THEN <<>> ELSE Tail(suRun.pend)
    PROVE  /\ SuKeeps(suRun.how, suEnv, SuNewLines) /\ rest \in SuPends /\ SuIn(rest) \subseteq SuIn(suRun.pend)
           /\ \A v \in SuIn(suRun.pend) \ SuIn(rest) : SuNewLines[v] # "none"
<1>. DEFINE v == Head(suRun.pend)
<1>1. /\ v \in SuSecrets /\ suRun.how[v] \in {"paste", "skip"} /\ Tail(suRun.pend) \in SuPends
      /\ SuIn(suRun.pend) = SuIn(Tail(suRun.pend)) \cup {v}
  BY SuHeadIs
<1>2. CASE suRun.kind = "scripted"
  <2>1. SuNewLines = SuStubbed /\ rest = <<>> BY <1>2 DEF SuNewLines
  <2>2. \A u \in SuSecrets : suRun.how[u] \in {"no", "skip"} BY <1>2 DEF SuIndInv, SuGood, SuCommandOK
  <2>3. rest \in SuPends /\ SuIn(rest) = {}
    <3>1. <<>> \in SuPends BY DEF SuPends
    <3>2. SuIn(<<>>) = {} BY DEF SuIn
    <3>. QED BY <2>1, <3>1, <3>2
  <2>4. \A u \in SuIn(suRun.pend) : u \in SuSecrets /\ suRun.how[u] \in {"paste", "skip"}
    <3>1. suRun.pend \in SuPends BY DEF SuIndInv, SuRuns
    <3>2. SuIn(suRun.pend) \subseteq SuSecrets BY <3>1 DEF SuIn, SuPends
    <3>. QED BY <3>2 DEF SuIndInv, SuGood, SuLinesOK
  <2>. QED BY <2>1, <2>2, <2>3, <2>4, SuStubbedKeeps
<1>3. CASE suRun.kind # "scripted"
  <2>1. SuNewLines = SuMerged(suEnv, v) /\ rest = Tail(suRun.pend) BY <1>3 DEF SuNewLines
  <2>. HIDE DEF v
  <2>. QED BY <1>1, <2>1, SuMergedKeeps
<1>. QED BY <1>2, <1>3

LEMMA SuEnvTruncateStep == ASSUME SuIndInv, SuEnvTruncate PROVE SuIndInv'
<1>. DEFINE rest == IF suRun.kind = "scripted" THEN <<>> ELSE Tail(suRun.pend)
            lines == SuNewLines
<1>1. /\ suRun.at = "env" /\ suRun.pend # <<>> /\ UNCHANGED <<suDisk, suHad, suTorn, suSystem, suBounds>>
      /\ \/ lines = suEnv /\ suRun' = [suRun EXCEPT !.pend = rest] /\ UNCHANGED suEnv
         \/ /\ suRun' = [suRun EXCEPT !.at = "envWrite", !.lines = lines, !.pend = rest]
            /\ suEnv' = [v \in SuSecrets |-> "none"]
  BY DEF SuEnvTruncate
<1>2. /\ SuKeeps(suRun.how, suEnv, lines) /\ rest \in SuPends /\ SuIn(rest) \subseteq SuIn(suRun.pend)
      /\ \A v \in SuIn(suRun.pend) \ SuIn(rest) : lines[v] # "none"
  BY <1>1, SuNewLinesIs
<1>3. suRun \in SuRuns /\ suHad \subseteq SuSecrets /\ suEnv \in [SuSecrets -> SuValues] BY DEF SuIndInv, SuWorldOK
<1>. HIDE DEF rest, lines
<1>4. lines \in SuLineMaps /\ "envWrite" \in SuSteps BY <1>2 DEF SuKeeps, SuLineMaps, SuSteps
<1>5. CASE lines = suEnv /\ suRun' = [suRun EXCEPT !.pend = rest] /\ UNCHANGED suEnv
  <2>. DEFINE r == [suRun EXCEPT !.pend = rest]
  <2>1. r \in SuRuns BY <1>2, <1>3 DEF SuRuns
  <2>2. /\ r.at = suRun.at /\ r.kind = suRun.kind /\ r.force = suRun.force /\ r.docker = suRun.docker
        /\ r.how = suRun.how /\ r.pend = rest /\ r.old = suRun.old /\ r.stubs = suRun.stubs
    BY <1>3 DEF SuRuns
  <2>3. suRun' = r BY <1>5
  <2>. HIDE DEF r
  <2>4. SuEnvAhead(r, suEnv') = lines BY <1>1, <1>5, <2>2 DEF SuEnvAhead
  <2>5. suHad' \subseteq SuSecrets /\ suHad' \ suHad = {} /\ suEnv' \in [SuSecrets -> SuValues] BY <1>1, <1>3, <1>5
  <2>. QED BY <1>1, <1>2, <2>1, <2>2, <2>3, <2>4, <2>5, SuEnvMove
<1>6. CASE /\ suRun' = [suRun EXCEPT !.at = "envWrite", !.lines = lines, !.pend = rest]
           /\ suEnv' = [v \in SuSecrets |-> "none"]
  <2>. DEFINE r == [suRun EXCEPT !.at = "envWrite", !.lines = lines, !.pend = rest]
  <2>1. r \in SuRuns BY <1>2, <1>3, <1>4 DEF SuRuns
  <2>2. /\ r.at = "envWrite" /\ r.kind = suRun.kind /\ r.force = suRun.force /\ r.docker = suRun.docker
        /\ r.how = suRun.how /\ r.pend = rest /\ r.old = suRun.old /\ r.stubs = suRun.stubs /\ r.lines = lines
    BY <1>3 DEF SuRuns
  <2>3. suRun' = r BY <1>6
  <2>. HIDE DEF r
  <2>4. SuEnvAhead(r, suEnv') = lines BY <2>2 DEF SuEnvAhead
  <2>5. suHad' \subseteq SuSecrets /\ suHad' \ suHad = {} BY <1>1, <1>3
  <2>6. suEnv' \in [SuSecrets -> SuValues] BY <1>6 DEF SuValues
  <2>. QED BY <1>1, <1>2, <2>1, <2>2, <2>3, <2>4, <2>5, <2>6, SuEnvMove
<1>. QED BY <1>1, <1>5, <1>6

\* The write that follows.
LEMMA SuEnvWriteStep == ASSUME SuIndInv, SuEnvWrite PROVE SuIndInv'
<1>. DEFINE r == [suRun EXCEPT !.at = "env", !.lines = SuNone]
<1>1. /\ suRun.at = "envWrite" /\ suEnv' = suRun.lines /\ SuHolds(suRun.lines) /\ suRun' = r
      /\ UNCHANGED <<suDisk, suTorn, suSystem, suBounds>>
  BY DEF SuEnvWrite
<1>2. suRun \in SuRuns /\ SuGood(suRun) /\ SuWorldOK BY DEF SuIndInv
<1>3. SuNone \in SuLineMaps /\ "env" \in SuSteps BY DEF SuNone, SuLineMaps, SuSteps
<1>4. r \in SuRuns BY <1>2, <1>3 DEF SuRuns
<1>5. /\ r.at = "env" /\ r.kind = suRun.kind /\ r.force = suRun.force /\ r.docker = suRun.docker /\ r.how = suRun.how
      /\ r.pend = suRun.pend /\ r.old = suRun.old /\ r.stubs = suRun.stubs
  BY <1>2 DEF SuRuns
<1>. HIDE DEF r
<1>6. SuEnvAhead(suRun, suEnv) = suRun.lines /\ SuEnvAhead(r, suEnv') = suRun.lines BY <1>1, <1>5 DEF SuEnvAhead
<1>7. suDisk' = suDisk /\ suTorn' = suTorn /\ suUnit' = suUnit /\ suStarted' = suStarted BY <1>1 DEF suSystem
<1>8. SuCommandOK(r) BY <1>2, <1>5 DEF SuGood, SuCommandOK
<1>9. SuDiskOK(r, suDisk') BY <1>1, <1>2, <1>5, <1>7 DEF SuGood, SuDiskOK, SuLate
<1>10. SuLinesOK(suRun, suEnv) BY <1>2 DEF SuGood
<1>11. SuLinesOK(r, suEnv') BY <1>1, <1>5, <1>6, <1>10 DEF SuLinesOK, SuLate
<1>12. SuHeldOK(r, suEnv', suHad', suTorn') BY <1>1, <1>2, <1>6 DEF SuGood, SuHeldOK, SuHolds
<1>13. SuUnitOK(r, suUnit', suStarted') BY <1>2, <1>5, <1>7 DEF SuGood, SuUnitOK
<1>14. suEnv' \in [SuSecrets -> SuValues] BY <1>1, <1>6, <1>10 DEF SuLinesOK
<1>15. SuWorldOK' BY <1>1, <1>2, <1>14 DEF SuWorldOK, suSystem, suBounds, SuHolds
<1>. QED BY <1>1, <1>4, <1>8, <1>9, <1>11, <1>12, <1>13, <1>15, SuCarry

\* rules.d, units and services.
LEMMA SuInstalledStep == ASSUME SuIndInv, SuInstallStep PROVE SuIndInv'
<1>1. suRun \in SuRuns /\ SuGood(suRun) /\ SuWorldOK BY DEF SuIndInv
<1>2. suDisk' = suDisk /\ suEnv' = suEnv /\ suHad' = suHad /\ suTorn' = suTorn BY DEF SuInstallStep, suFilesVars
<1>3. PICK step \in {"units", "services", "done"} :
         /\ SuAt(step) /\ suRun.at \in {"env", "units", "services"}
         /\ step = "units" => suRun.kind = "wizard"
         /\ step = "services" => suRun.kind = "wizard"
         /\ suRun.at = "env" => suRun.pend = <<>>
         /\ suUnit' \in {"none", "ours", "stale", "admin"} /\ suStarted' \in BOOLEAN
         /\ (suStarted' \/ step = "services") => suUnit' # "stale"
  <2>1. CASE /\ suRun.at = "env" /\ suRun.pend = <<>> /\ SuAt(IF suRun.kind = "wizard" THEN "units" ELSE "done")
             /\ UNCHANGED <<suUnit, suStarted>>
    <3>1. (suStarted' \/ suRun.at = "services") => suUnit' # "stale" BY <1>1, <2>1 DEF SuGood, SuUnitOK
    <3>. QED BY <1>1, <2>1, <3>1 DEF SuWorldOK
  <2>2. CASE suRun.at = "units" /\ suUnit' = SuUnits /\ SuAt("services") /\ UNCHANGED suStarted
    <3>1. suRun.kind = "wizard" BY <1>1, <2>2 DEF SuGood, SuCommandOK
    <3>2. suUnit' \in {"none", "ours", "admin"} BY <1>1, <2>2 DEF SuUnits, SuWorldOK
    <3>. QED BY <1>1, <2>2, <3>1, <3>2 DEF SuWorldOK
  <2>3. CASE suRun.at = "services" /\ suStarted' = TRUE /\ SuAt("done") /\ UNCHANGED suUnit
    <3>1. suUnit' # "stale" BY <1>1, <2>3 DEF SuGood, SuUnitOK
    <3>. QED BY <1>1, <2>3, <3>1 DEF SuWorldOK
  <2>. QED BY <2>1, <2>2, <2>3 DEF SuInstallStep, SuInstall
<1>. DEFINE r == [suRun EXCEPT !.at = step]
<1>4. step \in SuSteps /\ step \in SuLate /\ suRun.at \in SuLate BY <1>3 DEF SuSteps, SuLate
<1>5. /\ r \in SuRuns /\ r.at = step /\ r.kind = suRun.kind /\ r.force = suRun.force /\ r.docker = suRun.docker
      /\ r.how = suRun.how /\ r.pend = suRun.pend /\ r.old = suRun.old /\ r.stubs = suRun.stubs
  BY <1>1, <1>4, SuMoved
<1>6. suRun' = r BY <1>3 DEF SuAt
<1>. HIDE DEF r
<1>7. SuEnvAhead(suRun, suEnv) = suEnv /\ SuEnvAhead(r, suEnv) = suEnv BY <1>3, <1>5 DEF SuEnvAhead
<1>8. suRun.pend = <<>> BY <1>1, <1>3 DEF SuGood, SuLinesOK
<1>9. SuCommandOK(r) BY <1>1, <1>3, <1>5 DEF SuGood, SuCommandOK
<1>10. SuDiskOK(r, suDisk) BY <1>1, <1>3, <1>4, <1>5 DEF SuGood, SuDiskOK
<1>11. SuLinesOK(r, suEnv) BY <1>1, <1>3, <1>4, <1>5, <1>7, <1>8 DEF SuGood, SuLinesOK
<1>12. SuHeldOK(r, suEnv, suHad, suTorn) BY <1>1, <1>7 DEF SuGood, SuHeldOK
<1>13. SuUnitOK(r, suUnit', suStarted') BY <1>3, <1>5 DEF SuUnitOK
<1>14. SuWorldOK' BY <1>1, <1>2, <1>3 DEF SuWorldOK, SuInstallStep, suBounds
<1>. QED BY <1>2, <1>5, <1>6, <1>9, <1>10, <1>11, <1>12, <1>13, <1>14, SuCarry

\* A command ends, or is cut off.
LEMMA SuEndStep == ASSUME SuIndInv, SuEnd \/ SuAbort PROVE SuIndInv'
<1>1. suRun \in SuRuns /\ SuGood(suRun) /\ SuWorldOK BY DEF SuIndInv
<1>2. /\ suRun' = SuIdle /\ suDisk' = suDisk /\ suEnv' = suEnv /\ suHad' = suHad /\ suTorn' \in BOOLEAN
      /\ suTorn => suTorn' = TRUE
      /\ suRun.at = "envWrite" => suTorn' = TRUE
      /\ UNCHANGED <<suSystem, suBounds>>
  BY <1>1 DEF SuEnd, SuAbort, suFilesVars, SuWorldOK
<1>3. SuIdle \in SuRuns /\ SuCommandOK(SuIdle) /\ SuDiskOK(SuIdle, suDisk') BY SuIdleRun
<1>4. suEnv' \in [SuSecrets -> SuValues] BY <1>1, <1>2 DEF SuWorldOK
<1>5. SuLinesOK(SuIdle, suEnv') BY <1>4, SuIdleLines
<1>6. SuIdle.at = "idle" BY DEF SuIdle
<1>7. SuHeldOK(SuIdle, suEnv', suHad', suTorn')
  <2>1. SuHeldOK(suRun, suEnv, suHad, suTorn) BY <1>1 DEF SuGood
  <2>2. CASE suRun.at = "envWrite" BY <1>2, <2>2 DEF SuHeldOK
  <2>3. CASE suRun.at # "envWrite"
    <3>1. SuHeldOK(SuIdle, suEnv, suHad, suTorn) BY <1>6, <2>1, <2>3, SuHeld
    <3>. QED BY <1>2, <3>1 DEF SuHeldOK
  <2>. QED BY <2>2, <2>3
<1>8. SuUnitOK(SuIdle, suUnit', suStarted') BY <1>1, <1>2, <1>6 DEF SuGood, SuUnitOK, suSystem
<1>9. SuWorldOK' BY <1>1, <1>2 DEF SuWorldOK, suSystem, suBounds
<1>. QED BY <1>2, <1>3, <1>5, <1>7, <1>8, <1>9, SuCarry

\* The operator's own edits.
LEMMA SuEditWorld ==
    ASSUME SuIndInv, SuEdit, suDisk' \in [SuFiles -> SuContents], suEnv' \in [SuSecrets -> SuValues], suHad' \subseteq SuSecrets
    PROVE  SuWorldOK' /\ suRun' = suRun /\ suTorn' = suTorn /\ suUnit' = suUnit /\ suStarted' = suStarted
<1>1. SuWorldOK BY DEF SuIndInv
<1>2. suEdits' \in 0..SuMaxEdits BY <1>1, SuAssumption DEF SuEdit, SuWorldOK
<1>. QED BY <1>1, <1>2 DEF SuWorldOK, SuEdit, suSystem

LEMMA SuHandStep ==
    ASSUME SuIndInv, \/ \E f \in {"config", "policy"} : SuHandWrites(f)
                     \/ SuHandDeletes
                     \/ \E v \in SuSecrets : SuHandFills(v)
    PROVE  SuIndInv'
<1>1. suRun \in SuRuns /\ SuGood(suRun) /\ SuWorldOK BY DEF SuIndInv
<1>2. /\ SuEdit /\ suRun.at \in {"idle", "ask", "keys"} /\ suDisk' \in [SuFiles -> SuContents]
      /\ suEnv' \in [SuSecrets -> SuValues] /\ suHad' \subseteq SuSecrets
      /\ \/ suEnv' = suEnv /\ suHad' = suHad
         \/ /\ suRun = SuIdle /\ SuHolds(suEnv')
            /\ \A v \in SuSecrets : suEnv[v] = "real" => suEnv'[v] = "real"
  <2>1. SuIdle.at = "idle" BY DEF SuIdle
  <2>2. SuFiles = {"config", "policy", "bak"} /\ "hand" \in SuContents /\ "none" \in SuContents /\ "real" \in SuValues
    BY DEF SuFiles, SuContents, SuValues
  <2>3. suDisk \in [SuFiles -> SuContents] /\ suEnv \in [SuSecrets -> SuValues] /\ suHad \subseteq SuSecrets
    BY <1>1 DEF SuWorldOK
  <2>4. CASE \E f \in {"config", "policy"} : SuHandWrites(f)
    <3>1. PICK f \in {"config", "policy"} : SuHandWrites(f) BY <2>4
    <3>2. suDisk' = [suDisk EXCEPT ![f] = "hand"] /\ f \in SuFiles BY <2>2, <3>1 DEF SuHandWrites
    <3>3. suDisk' \in [SuFiles -> SuContents] BY <2>2, <2>3, <3>2
    <3>. QED BY <2>3, <3>1, <3>3 DEF SuHandWrites
  <2>5. CASE SuHandDeletes
    <3>1. suDisk' \in [SuFiles -> SuContents] BY <2>2, <2>3, <2>5 DEF SuHandDeletes
    <3>. QED BY <2>1, <2>3, <2>5, <3>1 DEF SuHandDeletes
  <2>6. CASE \E v \in SuSecrets : SuHandFills(v)
    <3>1. PICK v \in SuSecrets : SuHandFills(v) BY <2>6
    <3>2. suEnv' = [suEnv EXCEPT ![v] = "real"] BY <3>1 DEF SuHandFills
    <3>3. suEnv' \in [SuSecrets -> SuValues] /\ \A u \in SuSecrets : suEnv[u] = "real" => suEnv'[u] = "real"
      BY <2>2, <2>3, <3>2
    <3>4. suHad' \subseteq SuSecrets BY <2>3, <3>1 DEF SuHandFills, SuHolds
    <3>. QED BY <2>1, <2>3, <3>1, <3>3, <3>4 DEF SuHandFills
  <2>. QED BY <2>4, <2>5, <2>6
<1>3. SuWorldOK' /\ suRun' = suRun /\ suTorn' = suTorn /\ suUnit' = suUnit /\ suStarted' = suStarted
  BY <1>2, SuEditWorld
<1>4. SuCommandOK(suRun) BY <1>1 DEF SuGood
<1>5. SuDiskOK(suRun, suDisk')
  <2>1. suRun.at = "idle" => suRun.kind = "idle" BY <1>4 DEF SuCommandOK, SuIdle
  <2>2. suRun.at \in {"ask", "keys"} => suRun.kind = "wizard" BY <1>4 DEF SuCommandOK
  <2>. QED BY <1>2, <2>1, <2>2 DEF SuDiskOK, SuLate
<1>6. SuLinesOK(suRun, suEnv')
  <2>1. CASE suEnv' = suEnv BY <1>1, <2>1 DEF SuGood
  <2>2. CASE suRun = SuIdle BY <1>2, <2>2, SuIdleLines
  <2>. QED BY <1>2, <2>1, <2>2
<1>7. SuHeldOK(suRun, suEnv', suHad', suTorn')
  <2>1. SuEnvAhead(suRun, suEnv) = suEnv /\ SuEnvAhead(suRun, suEnv') = suEnv' BY <1>2 DEF SuEnvAhead
  <2>2. suTorn \/ \A v \in suHad : suEnv[v] = "real" BY <1>1, <2>1 DEF SuGood, SuHeldOK
  <2>3. suHad \subseteq SuSecrets BY <1>1 DEF SuWorldOK
  <2>. QED BY <1>2, <1>3, <2>1, <2>2, <2>3 DEF SuHeldOK, SuHolds
<1>8. SuUnitOK(suRun, suUnit', suStarted') BY <1>1, <1>3 DEF SuGood, SuUnitOK
<1>. QED BY <1>1, <1>3, <1>4, <1>5, <1>6, <1>7, <1>8, SuCarry

LEMMA SuInitOK == ASSUME SuInit PROVE SuIndInv
<1>1. suRun = SuIdle /\ suGroup = FALSE /\ suUnit \in {"stale", "admin"} /\ suPackaged \in BOOLEAN /\ suStarted = FALSE
      /\ suHad = {v \in SuSecrets : suEnv[v] = "real"} /\ suTorn = FALSE /\ suCount = 0 /\ suEdits = 0
  BY DEF SuInit
<1>2. suDisk \in [SuFiles -> SuContents] BY DEF SuInit, SuContents
<1>3. suEnv \in [SuSecrets -> SuValues] BY DEF SuInit, SuValues
<1>4. SuWorldOK
  <2>1. suHad \subseteq SuSecrets /\ suUnit \in {"none", "ours", "stale", "admin"} BY <1>1
  <2>2. 0 \in 0..SuMaxRuns /\ 0 \in 0..SuMaxEdits BY SuAssumption
  <2>. QED BY <1>1, <1>2, <1>3, <2>1, <2>2 DEF SuWorldOK
<1>5. SuIdle \in SuRuns /\ SuCommandOK(SuIdle) /\ SuDiskOK(SuIdle, suDisk) BY SuIdleRun
<1>6. SuLinesOK(SuIdle, suEnv) BY <1>3, SuIdleLines
<1>7. SuIdle.at = "idle" BY DEF SuIdle
<1>8. SuHeldOK(SuIdle, suEnv, suHad, suTorn) BY <1>1, <1>7 DEF SuHeldOK, SuEnvAhead
<1>9. SuUnitOK(SuIdle, suUnit, suStarted) BY <1>1, <1>7 DEF SuUnitOK
<1>. QED BY <1>1, <1>4, <1>5, <1>6, <1>8, <1>9 DEF SuIndInv, SuGood

LEMMA SuNextOK == ASSUME SuIndInv, [SuNext]_suVars PROVE SuIndInv'
<1>1. CASE SuCommands BY <1>1, SuCommandsStep
<1>2. CASE SuStepForward
  <2>1. CASE SuAsk \/ \E ok \in BOOLEAN : SuGrant(ok) BY <2>1, SuAskStep, SuGrantStep
  <2>2. CASE SuWriteConfig \/ SuWritePolicy \/ SuStage \/ SuCommitPair
    BY <2>2, SuWriteConfigStep, SuWritePolicyStep, SuStageStep, SuCommitPairStep
  <2>3. CASE SuBackup \/ SuSave BY <2>3, SuBackupStep, SuSaveStep
  <2>4. CASE SuEnvAtomic \/ SuEnvTruncate \/ SuEnvWrite BY <2>4, SuEnvAtomicStep, SuEnvTruncateStep, SuEnvWriteStep
  <2>5. CASE SuInstallStep \/ SuEnd BY <2>5, SuInstalledStep, SuEndStep
  <2>. QED BY <1>2, <2>1, <2>2, <2>3, <2>4, <2>5 DEF SuStepForward
<1>3. CASE SuAbort BY <1>3, SuEndStep
<1>4. CASE \/ \E f \in {"config", "policy"} : SuHandWrites(f)
           \/ SuHandDeletes
           \/ \E v \in SuSecrets : SuHandFills(v)
  BY <1>4, SuHandStep
<1>5. CASE UNCHANGED suVars
  BY <1>5 DEF suVars, suFilesVars, suSystem, suBounds, SuIndInv, SuWorldOK, SuGood
<1>. QED BY <1>1, <1>2, <1>3, <1>4, <1>5 DEF SuNext

\* What an init replaces, step by step.
LEMMA SuClobberStep ==
    ASSUME SuIndInv, [SuNext]_suVars, NEW f \in {"config", "policy"}, suDisk[f] = "hand", suDisk'[f] # "hand",
           suRun.kind \in {"wizard", "scripted"}
    PROVE  suRun.force
<1>1. SuGood(suRun) /\ suDisk \in [SuFiles -> SuContents] /\ SuFiles = {"config", "policy", "bak"}
  BY DEF SuIndInv, SuWorldOK, SuFiles
<1>2. suRun # SuIdle BY DEF SuIdle
<1>3. ~SuCommands
  <2>1. ASSUME NEW q, SuStart(q) PROVE FALSE BY <1>2, <2>1 DEF SuStart
  <2>. QED BY <2>1 DEF SuCommands, SuWizard, SuScripted, SuConfigAI, SuConfigChannel, SuConfigEdge, SuConfigPlain, SuComponent
<1>4. ASSUME suDisk' = suDisk PROVE FALSE BY <1>4
<1>5. ~SuAsk BY <1>4 DEF SuAsk, SuAskNoDocker, SuAskDocker, SuAskKeys, suFilesVars
<1>6. ~(SuStage \/ SuEnvAtomic \/ SuEnvTruncate \/ SuEnvWrite \/ SuInstallStep \/ SuEnd \/ SuAbort)
  BY <1>4 DEF SuStage, SuEnvAtomic, SuEnvTruncate, SuEnvWrite, SuInstallStep, SuEnd, SuAbort, suFilesVars
<1>7. ~ \E ok \in BOOLEAN : SuGrant(ok) BY <1>4 DEF SuGrant, suFilesVars
<1>8. ~SuBackup /\ ~SuSave BY <1>1 DEF SuBackup, SuSave, SuGood, SuCommandOK
<1>9. ~SuHandDeletes BY <1>2 DEF SuHandDeletes
<1>10. ~ \E v \in SuSecrets : SuHandFills(v) BY <1>4 DEF SuHandFills
<1>11. ~ \E g \in {"config", "policy"} : SuHandWrites(g) BY <1>1 DEF SuHandWrites, SuExists
<1>12. ~UNCHANGED suVars BY <1>4 DEF suVars, suFilesVars
<1>13. ASSUME NEW g, NEW step, SuTruncate(g, step), g \in {"config", "policy"} PROVE FALSE
  BY <1>1, <1>13 DEF SuTruncate, SuExists
<1>14. ASSUME SuWriteConfig PROVE suRun.force
  BY <1>1, <1>13, <1>14 DEF SuWriteConfig, SuGood, SuDiskOK
<1>15. ASSUME SuWritePolicy PROVE suRun.force
  BY <1>1, <1>13, <1>15 DEF SuWritePolicy, SuCommit, SuGood, SuDiskOK
<1>16. ASSUME SuCommitPair PROVE suRun.force
  <2>1. suRun.at \in {"renameConfig", "renamePolicy"} BY <1>16 DEF SuCommitPair
  <2>2. suRun.kind = "scripted" BY <1>1, <2>1 DEF SuGood, SuCommandOK
  <2>. QED BY <1>1, <1>16, <2>2 DEF SuCommitPair, SuCommit, SuGood, SuDiskOK
<1>. QED BY <1>3, <1>5, <1>6, <1>7, <1>8, <1>9, <1>10, <1>11, <1>12, <1>14, <1>15, <1>16 DEF SuNext, SuStepForward

\* Who joins the docker group.
LEMMA SuJoinStep ==
    ASSUME SuIndInv, [SuNext]_suVars, ~suGroup, suGroup'
    PROVE  suRun.docker.said = "group" /\ suRun.docker.sources
<1>1. ASSUME suGroup' = suGroup PROVE FALSE BY <1>1
<1>2. ~SuCommands
  <2>1. ASSUME NEW q, SuStart(q) PROVE FALSE BY <1>1, <2>1 DEF SuStart, suSystem
  <2>. QED BY <2>1 DEF SuCommands, SuWizard, SuScripted, SuConfigAI, SuConfigChannel, SuConfigEdge, SuConfigPlain, SuComponent
<1>3. ~SuAsk BY <1>1 DEF SuAsk, SuAskNoDocker, SuAskDocker, SuAskKeys, suSystem
<1>4. ~(SuStage \/ SuEnvAtomic \/ SuEnvTruncate \/ SuEnvWrite \/ SuInstallStep \/ SuEnd \/ SuAbort)
  BY <1>1 DEF SuStage, SuEnvAtomic, SuEnvTruncate, SuEnvWrite, SuInstallStep, SuEnd, SuAbort, suSystem
<1>5. ~(SuWriteConfig \/ SuWritePolicy \/ SuCommitPair \/ SuBackup \/ SuSave)
  BY <1>1 DEF SuWriteConfig, SuWritePolicy, SuCommitPair, SuBackup, SuSave, SuTruncate, SuCommit, suSystem
<1>6. ~(SuHandDeletes \/ (\E v \in SuSecrets : SuHandFills(v)) \/ \E g \in {"config", "policy"} : SuHandWrites(g))
  BY <1>1 DEF SuHandDeletes, SuHandFills, SuHandWrites, SuEdit, suSystem
<1>7. ~UNCHANGED suVars BY <1>1 DEF suVars, suSystem
<1>8. PICK ok \in BOOLEAN : SuGrant(ok) BY <1>2, <1>3, <1>4, <1>5, <1>6, <1>7 DEF SuNext, SuStepForward
<1>9. SuGrants BY <1>8 DEF SuGrant
<1>. QED BY <1>9 DEF SuGrants, SuIndInv, SuGood, SuCommandOK

\* In every state.
LEMMA SuStatesOK == ASSUME SuIndInv PROVE SuTypeOK /\ SuSecretsKept /\ SuComplete /\ SuEditRecoverable /\ SuUnitRuns
<1>1. suRun \in SuRuns /\ SuWorldOK /\ SuCommandOK(suRun) /\ SuDiskOK(suRun, suDisk) /\ SuLinesOK(suRun, suEnv)
      /\ SuHeldOK(suRun, suEnv, suHad, suTorn) /\ SuUnitOK(suRun, suUnit, suStarted)
  BY DEF SuIndInv, SuGood
<1>2. SuTypeOK
  <2>1. suRun.kind \in SuKinds /\ suRun.at \in SuSteps /\ suRun.how \in SuWayMaps BY <1>1 DEF SuRuns
  <2>. QED BY <1>1, <2>1 DEF SuTypeOK, SuWorldOK, SuKinds, SuWayMaps, SuContents, SuValues
<1>3. SuSecretsKept BY <1>1 DEF SuSecretsKept, SuHeldOK, SuEnvAhead
<1>4. SuComplete
  <2>. SUFFICES ASSUME suRun.at = "done" PROVE SuComplete BY DEF SuComplete
  <2>1. suRun.pend = <<>> /\ SuEnvAhead(suRun, suEnv) = suEnv BY <1>1 DEF SuLinesOK, SuEnvAhead
  <2>2. SuIn(<<>>) = {} BY DEF SuIn
  <2>3. suRun.at \in SuLate /\ suRun.at # "idle" BY DEF SuLate
  <2>4. suRun.kind # "component" => (suDisk["config"] = "new" /\ suDisk["policy"] = "new") BY <1>1, <2>3 DEF SuDiskOK
  <2>5. \A v \in SuSecrets : suRun.how[v] \in {"paste", "skip"} => suEnv[v] # "none"
    BY <1>1, <2>1, <2>2, <2>3 DEF SuLinesOK
  <2>6. \A v \in SuSecrets : (suRun.how[v] = "external" /\ suEnv[v] = "stub") => v \in suRun.stubs
    BY <1>1, <2>1, <2>3 DEF SuLinesOK
  <2>. QED BY <2>4, <2>5, <2>6 DEF SuComplete
<1>5. SuEditRecoverable
  <2>. SUFFICES ASSUME suRun.kind = "component" PROVE suRun.old \in {suDisk["config"], suDisk["bak"]}
    BY DEF SuEditRecoverable
  <2>1. suRun.at \in {"backup", "backupWrite"} \cup SuLate \cup {"save"}
    <3>1. suRun.at \in SuSteps /\ suRun.at # "idle" BY <1>1 DEF SuRuns, SuCommandOK, SuIdle
    <3>. QED BY <1>1, <3>1 DEF SuSteps, SuCommandOK, SuLate
  <2>. QED BY <1>1, <2>1 DEF SuDiskOK
<1>6. SuUnitRuns BY <1>1 DEF SuUnitRuns, SuUnitOK
<1>. QED BY <1>2, <1>3, <1>4, <1>5, <1>6

\* Every reachable state of the setup commands.
THEOREM SuInvariant == SuSpec => []SuIndInv
<1>1. SuInit => SuIndInv BY SuInitOK
<1>2. SuIndInv /\ [SuNext]_suVars => SuIndInv' BY SuNextOK
<1>. QED BY <1>1, <1>2, PTL DEF SuSpec

\* Setup commands that fail, are interrupted and are run again (runInitWizard,
\* runNonInteractiveInit, runConfigComponent).
THEOREM SetupIsSafe == SuSpec => SuSafe
<1>1. SuIndInv => SuTypeOK /\ SuSecretsKept /\ SuComplete /\ SuEditRecoverable /\ SuUnitRuns BY SuStatesOK
<1>2. SuIndInv /\ [SuNext]_suVars =>
        [\A f \in {"config", "policy"} :
            (suDisk[f] = "hand" /\ suDisk'[f] # "hand" /\ suRun.kind \in {"wizard", "scripted"}) => suRun.force]_suVars
  BY SuClobberStep
<1>3. SuIndInv /\ [SuNext]_suVars =>
        [(~suGroup /\ suGroup') => (suRun.docker.said = "group" /\ suRun.docker.sources)]_suVars
  BY SuJoinStep
<1>. QED BY <1>1, <1>2, <1>3, SuInvariant, PTL DEF SuSpec, SuSafe, SuNoClobber, SuGroupByConsent
=============================================================================

-------------------------- MODULE Dashboard_proofs --------------------------
(***************************************************************************)
(* Proofs about the dashboard's sign-in, sessions and roles, for any users,*)
(* requests in flight, caps, limits and windows.                           *)
(*                                                                         *)
(* The guesses an account has seen within a window are bounded although    *)
(* checking, verifying and recording are three steps: a tally of failures  *)
(* is compared with the history of guesses, and every sign-in in flight is *)
(* one guess the tally may not have yet (DbQuota). An expired lockout      *)
(* wipes the tally, so the quota of a window that began before it is the   *)
(* tally's limit twice. Stamps are in order of time, and the number of     *)
(* them in a window is the position of the first one that is not stale.    *)
(***************************************************************************)
EXTENDS Dashboard, FiniteSetTheorems, SequenceTheorems, WellFoundedInduction, TLAPS

LEMMA LeastNatural ==
    ASSUME NEW T \in SUBSET Nat, T # {}
    PROVE  \E x \in T : \A y \in T : x <= y
<1> DEFINE R == {ss \in Nat \X Nat : ss[1] < ss[2]}
<1>1. IsWellFoundedOn(R, Nat)
  BY NatLessThanWellFounded DEF OpToRel
<1>2. PICK x \in T : \A y \in T : ~ (<<y, x>> \in R)
  BY <1>1, WFMin
<1>3. \A y \in T : ~(y < x)
  BY <1>2
<1> QED
  BY <1>3

\* A time that is out of the throttle's window.
DbStale(now, x) == x <= now - DbWindow

\* Stamps in order of time, none later than now.
DbStamps(now, s) ==
    /\ s \in Seq(Nat) /\ \A i \in DOMAIN s : s[i] <= now
    /\ \A i, j \in DOMAIN s : i <= j => s[i] <= s[j]

\* At most n of the stamps are later than x.
DbAtMost(s, x, n) == Len(s) > n => s[Len(s) - n] <= x

\* t is what is left of s without its first k stamps, which are the stale ones.
DbCut(now, s, t, k) ==
    /\ k \in 0 .. Len(s) /\ t \in Seq(Nat) /\ Len(t) = Len(s) - k
    /\ \A i \in 1 .. Len(t) : t[i] = s[k + i] /\ ~DbStale(now, t[i])
    /\ \A i \in 1 .. k : DbStale(now, s[i])

LEMMA DbNumbers ==
  /\ DbMax \in Nat \ {0} /\ DbWindow \in Nat \ {0} /\ DbLockout \in Nat \ {0} /\ DbGlobalMax \in Nat \ {0}
  /\ DbCap \in Nat \ {0} /\ DbTimeout \in Nat \ {0} /\ DbWindow <= DbLockout
  /\ DbMaxTime \in Nat \ {0} /\ DbMaxReloads \in Nat /\ IsFiniteSet(DbReqs)
BY DbConstants

LEMMA DbTrimIs ==
  ASSUME NEW s, DbStamps(dbNow, s), dbNow \in Nat
  PROVE  \E k \in 0 .. Len(s) : DbCut(dbNow, s, DbTrim(s), k)
<1> DEFINE I == {i \in DOMAIN s : DbStale(dbNow, s[i])}
           T == {x \in Nat : x + 1 \notin I}
<1>0. s \in Seq(Nat) /\ DOMAIN s = 1 .. Len(s) /\ Len(s) \in Nat /\ DbWindow \in Nat
  BY DbNumbers DEF DbStamps
<1>1. Len(s) \in T BY <1>0
<1>2. PICK k \in T : \A y \in T : k <= y BY <1>1, LeastNatural
<1>3. k \in 0 .. Len(s) BY <1>0, <1>1, <1>2
<1>4. \A j \in 1 .. k : j \in I
  <2> SUFFICES ASSUME NEW j \in 1 .. k PROVE j \in I OBVIOUS
  <2>1. j - 1 \in Nat /\ j - 1 < k /\ (j - 1) + 1 = j BY <1>3
  <2>2. j - 1 \notin T BY <1>2, <1>3, <2>1
  <2> QED BY <2>1, <2>2
<1>5. \A i \in 1 .. Len(s) : i > k => ~DbStale(dbNow, s[i])
  <2> SUFFICES ASSUME NEW i \in 1 .. Len(s), i > k, DbStale(dbNow, s[i]) PROVE FALSE OBVIOUS
  <2>1. k + 1 \in 1 .. Len(s) /\ k + 1 <= i BY <1>0, <1>3
  <2>2. s[k + 1] <= s[i] BY <1>0, <2>1 DEF DbStamps
  <2>3. s[k + 1] \in Nat /\ s[i] \in Nat BY <1>0, <2>1
  <2>4. DbStale(dbNow, s[k + 1]) BY <1>0, <2>2, <2>3 DEF DbStale
  <2>5. k + 1 \in I BY <1>0, <2>1, <2>4
  <2> QED BY <1>2, <2>5
<1>6. I = 1 .. k BY <1>0, <1>3, <1>4, <1>5
<1>7. Cardinality(I) = k
  <2>1. k \in Nat /\ k \in Int /\ 1 \in Int BY <1>3
  <2>2. Cardinality(1 .. k) = IF 1 > k THEN 0 ELSE k - 1 + 1 BY <2>1, FS_Interval
  <2>3. Cardinality(1 .. k) = k BY <2>1, <2>2
  <2> HIDE DEF I
  <2> QED BY <1>6, <2>3
<1>8. DbTrim(s) = SubSeq(s, k + 1, Len(s))
  <2>1. DbTrim(s) = SubSeq(s, Cardinality(I) + 1, Len(s)) BY DEF DbTrim, DbStale
  <2> QED BY <1>7, <2>1
<1> DEFINE t == SubSeq(s, k + 1, Len(s))
<1>9. \A i \in (k + 1) .. Len(s) : s[i] \in Nat BY <1>0, <1>3
<1> HIDE DEF I, T, t
<1>10. /\ t \in Seq(Nat) /\ Len(t) = IF k + 1 <= Len(s) THEN Len(s) - (k + 1) + 1 ELSE 0
       /\ \A i \in 1 .. Len(s) - (k + 1) + 1 : t[i] = s[(k + 1) + i - 1]
  BY <1>0, <1>3, <1>9, SubSeqProperties DEF t
<1>11. Len(t) = Len(s) - k
  <2>1. Len(t) = IF k + 1 <= Len(s) THEN Len(s) - (k + 1) + 1 ELSE 0 BY <1>10
  <2>2. Len(s) \in Nat /\ k \in 0 .. Len(s) BY <1>0, <1>3
  <2>3. \A l \in Nat : \A c \in 0 .. l : (IF c + 1 <= l THEN l - (c + 1) + 1 ELSE 0) = l - c OBVIOUS
  <2>4. (IF k + 1 <= Len(s) THEN Len(s) - (k + 1) + 1 ELSE 0) = Len(s) - k BY <2>2, <2>3
  <2> QED BY <2>1, <2>4
<1>12. \A i \in 1 .. Len(t) : t[i] = s[k + i] /\ ~DbStale(dbNow, t[i])
  <2> SUFFICES ASSUME NEW i \in 1 .. Len(s) - k PROVE t[i] = s[k + i] /\ ~DbStale(dbNow, t[i]) BY <1>11
  <2>1. i \in 1 .. Len(s) - (k + 1) + 1 /\ (k + 1) + i - 1 = k + i /\ k + i \in 1 .. Len(s) /\ k + i > k
    BY <1>0, <1>3
  <2>2. t[i] = s[(k + 1) + i - 1] BY <1>10, <2>1
  <2>3. t[i] = s[k + i] BY <2>1, <2>2
  <2> QED BY <1>5, <2>1, <2>3
<1>13. \A i \in 1 .. k : DbStale(dbNow, s[i]) BY <1>4 DEF I
<1>14. DbCut(dbNow, s, t, k) BY <1>3, <1>10, <1>11, <1>12, <1>13 DEF DbCut
<1> QED BY <1>3, <1>8, <1>14 DEF t

LEMMA DbCutStamps ==
  ASSUME NEW now \in Nat, NEW s, DbStamps(now, s), NEW t, NEW k, DbCut(now, s, t, k)
  PROVE  DbStamps(now, t)
<1>0. s \in Seq(Nat) /\ DOMAIN s = 1 .. Len(s) /\ Len(s) \in Nat BY DEF DbStamps
<1>1. k \in 0 .. Len(s) /\ t \in Seq(Nat) /\ Len(t) = Len(s) - k /\ (\A i \in 1 .. Len(t) : t[i] = s[k + i])
  BY DEF DbCut
<1>2. DOMAIN t = 1 .. Len(t) BY <1>1
<1>3. \A i \in 1 .. Len(t) : k + i \in 1 .. Len(s) BY <1>0, <1>1
<1>4. \A i, j \in 1 .. Len(t) : i <= j => k + i <= k + j BY <1>0, <1>1
<1> QED BY <1>0, <1>1, <1>2, <1>3, <1>4 DEF DbStamps

LEMMA DbCutAtMost ==
  ASSUME NEW now \in Nat, NEW s, DbStamps(now, s), NEW t, NEW k, DbCut(now, s, t, k), NEW n \in Nat
  PROVE  /\ Len(t) <= n <=> DbAtMost(s, now - DbWindow, n)
         /\ \A x \in Int : DbAtMost(s, x, n) => DbAtMost(t, x, n)
         /\ \A x \in Int : x >= now - DbWindow /\ DbAtMost(t, x, n) => DbAtMost(s, x, n)
<1>0. s \in Seq(Nat) /\ DOMAIN s = 1 .. Len(s) /\ Len(s) \in Nat /\ DbWindow \in Nat BY DbNumbers DEF DbStamps
<1>1. k \in 0 .. Len(s) /\ t \in Seq(Nat) /\ Len(t) = Len(s) - k BY DEF DbCut
<1>2. /\ \A i \in 1 .. Len(t) : t[i] = s[k + i] /\ ~DbStale(now, t[i])
      /\ \A i \in 1 .. k : DbStale(now, s[i])
  BY DEF DbCut
<1>3. ASSUME Len(t) <= n PROVE DbAtMost(s, now - DbWindow, n)
  <2> SUFFICES ASSUME Len(s) > n PROVE s[Len(s) - n] <= now - DbWindow BY DEF DbAtMost
  <2>1. Len(s) - n \in 1 .. k BY <1>0, <1>1, <1>3
  <2> QED BY <1>2, <2>1 DEF DbStale
<1>4. ASSUME DbAtMost(s, now - DbWindow, n) PROVE Len(t) <= n
  <2>1. CASE Len(s) <= n BY <1>0, <1>1, <2>1
  <2>2. CASE Len(s) > n
    <3>1. DbStale(now, s[Len(s) - n]) BY <1>4, <2>2 DEF DbAtMost, DbStale
    <3>2. ASSUME Len(t) > n PROVE FALSE
      <4>1. Len(t) - n \in 1 .. Len(t) /\ k + (Len(t) - n) = Len(s) - n BY <1>0, <1>1, <3>2
      <4>2. ~DbStale(now, s[Len(s) - n]) BY <1>2, <4>1
      <4> QED BY <3>1, <4>2
    <3> QED BY <1>0, <1>1, <3>2
  <2> QED BY <1>0, <2>1, <2>2
<1>5. ASSUME NEW x \in Int, DbAtMost(s, x, n) PROVE DbAtMost(t, x, n)
  <2> SUFFICES ASSUME Len(t) > n PROVE t[Len(t) - n] <= x BY DEF DbAtMost
  <2>1. Len(s) > n /\ Len(t) - n \in 1 .. Len(t) /\ k + (Len(t) - n) = Len(s) - n BY <1>0, <1>1
  <2>2. t[Len(t) - n] = s[Len(s) - n] BY <1>2, <2>1
  <2> QED BY <1>5, <2>1, <2>2 DEF DbAtMost
<1>6. ASSUME NEW x \in Int, x >= now - DbWindow, DbAtMost(t, x, n) PROVE DbAtMost(s, x, n)
  <2> SUFFICES ASSUME Len(s) > n PROVE s[Len(s) - n] <= x BY DEF DbAtMost
  <2>1. CASE Len(t) > n
    <3>1. Len(t) - n \in 1 .. Len(t) /\ k + (Len(t) - n) = Len(s) - n BY <1>0, <1>1, <2>1
    <3>2. t[Len(t) - n] = s[Len(s) - n] BY <1>2, <3>1
    <3> QED BY <1>6, <2>1, <3>2 DEF DbAtMost
  <2>2. CASE ~(Len(t) > n)
    <3>1. Len(s) - n \in 1 .. k BY <1>0, <1>1, <2>2
    <3>2. s[Len(s) - n] <= now - DbWindow BY <1>2, <3>1 DEF DbStale
    <3>3. s[Len(s) - n] \in Nat BY <1>0, <1>1, <3>1
    <3> QED BY <1>0, <1>6, <3>2, <3>3
  <2> QED BY <2>1, <2>2
<1> QED BY <1>3, <1>4, <1>5, <1>6

LEMMA DbPushed ==
  ASSUME NEW now \in Nat, NEW s, DbStamps(now, s)
  PROVE  /\ DbStamps(now, Append(s, now)) /\ Len(Append(s, now)) = Len(s) + 1
         /\ \A i \in 1 .. Len(s) : Append(s, now)[i] = s[i]
         /\ Append(s, now)[Len(s) + 1] = now
         /\ \A n \in Nat, x \in Int : /\ DbAtMost(s, x, n) => DbAtMost(Append(s, now), x, n + 1)
                                      /\ x < now /\ DbAtMost(Append(s, now), x, n) => n > 0 /\ DbAtMost(s, x, n - 1)
<1> DEFINE t == Append(s, now)
<1>0. s \in Seq(Nat) /\ DOMAIN s = 1 .. Len(s) /\ Len(s) \in Nat BY DEF DbStamps
<1>1. /\ t \in Seq(Nat) /\ Len(t) = Len(s) + 1 /\ (\A i \in 1 .. Len(s) : t[i] = s[i]) /\ t[Len(s) + 1] = now
  BY <1>0, AppendProperties
<1> HIDE DEF t
<1>2. DOMAIN t = 1 .. Len(s) + 1 BY <1>1
<1>3. \A i \in 1 .. Len(s) + 1 : i \in 1 .. Len(s) \/ i = Len(s) + 1 BY <1>0
<1>4. \A i \in 1 .. Len(s) + 1 : t[i] <= now
  <2>1. \A i \in 1 .. Len(s) : s[i] <= now BY <1>0 DEF DbStamps
  <2> QED BY <1>1, <1>3, <2>1
<1>5. \A i, j \in 1 .. Len(s) + 1 : i <= j => t[i] <= t[j]
  <2> SUFFICES ASSUME NEW i \in 1 .. Len(s) + 1, NEW j \in 1 .. Len(s) + 1, i <= j PROVE t[i] <= t[j] OBVIOUS
  <2>1. CASE j = Len(s) + 1 BY <1>1, <1>4, <2>1
  <2>2. CASE j # Len(s) + 1
    <3>1. i \in 1 .. Len(s) /\ j \in 1 .. Len(s) BY <1>0, <1>3, <2>2
    <3>2. s[i] <= s[j] BY <1>0, <3>1 DEF DbStamps
    <3> QED BY <1>1, <3>1, <3>2
  <2> QED BY <2>1, <2>2
<1>6. DbStamps(now, t) BY <1>1, <1>2, <1>4, <1>5 DEF DbStamps
<1>7. ASSUME NEW n \in Nat, NEW x \in Int, DbAtMost(s, x, n) PROVE DbAtMost(t, x, n + 1)
  <2> SUFFICES ASSUME Len(t) > n + 1 PROVE t[Len(t) - (n + 1)] <= x BY DEF DbAtMost
  <2>1. Len(s) > n /\ Len(t) - (n + 1) = Len(s) - n /\ Len(s) - n \in 1 .. Len(s) BY <1>0, <1>1
  <2> QED BY <1>1, <1>7, <2>1 DEF DbAtMost
<1>8. ASSUME NEW n \in Nat, NEW x \in Int, x < now, DbAtMost(t, x, n) PROVE n > 0 /\ DbAtMost(s, x, n - 1)
  <2>1. n > 0
    <3> SUFFICES ASSUME n = 0 PROVE FALSE OBVIOUS
    <3>1. Len(t) > n /\ Len(t) - n = Len(s) + 1 BY <1>0, <1>1
    <3>2. now <= x BY <1>1, <1>8, <3>1 DEF DbAtMost
    <3> QED BY <1>8, <3>2
  <2>2. ASSUME Len(s) > n - 1 PROVE s[Len(s) - (n - 1)] <= x
    <3>1. Len(t) > n /\ Len(t) - n = Len(s) - (n - 1) /\ Len(s) - (n - 1) \in 1 .. Len(s) BY <1>0, <1>1, <2>1, <2>2
    <3> QED BY <1>1, <1>8, <3>1 DEF DbAtMost
  <2> QED BY <2>1, <2>2 DEF DbAtMost
<1> QED BY <1>1, <1>6, <1>7, <1>8 DEF t

-----------------------------------------------------------------------------

\* The stamps p and the lockout v of an account against its wrong guesses g: the
\* stamps are the last guesses; of those before them, lost to a clean slate or
\* trimmed, at most DbMax - 1 are in the window, and none of them is later than
\* the failure that set the lockout.
DbTallyOK(now, p, v, g) ==
    /\ DbStamps(now, g) /\ p \in Seq(Nat) /\ v \in Nat /\ Len(p) <= Len(g)
    /\ \A i \in 1 .. Len(p) : p[i] = g[Len(g) - Len(p) + i]
    /\ Len(g) - Len(p) > DbMax - 1 => DbStale(now, g[Len(g) - Len(p) - (DbMax - 1)])
    /\ v # 0 => \A i \in 1 .. Len(g) - Len(p) : DbStale(now, g[i]) \/ g[i] <= v - DbLockout
    /\ Len(p) >= DbMax => v = p[Len(p)] + DbLockout
    /\ v <= now + DbLockout

LEMMA DbTallyFacts ==
  ASSUME NEW now \in Nat, NEW p, NEW v, NEW g, DbTallyOK(now, p, v, g)
  PROVE  /\ g \in Seq(Nat) /\ DOMAIN g = 1 .. Len(g) /\ Len(g) \in Nat /\ p \in Seq(Nat) /\ DOMAIN p = 1 .. Len(p)
         /\ Len(p) \in Nat /\ v \in Nat /\ Len(p) <= Len(g)
         /\ \A i \in 1 .. Len(p) : p[i] = g[Len(g) - Len(p) + i] /\ Len(g) - Len(p) + i \in 1 .. Len(g)
         /\ \A i, j \in 1 .. Len(g) : i <= j => g[i] <= g[j]
         /\ \A i \in 1 .. Len(g) : g[i] \in Nat /\ g[i] <= now
         /\ DbStamps(now, p)
<1>1. /\ g \in Seq(Nat) /\ DOMAIN g = 1 .. Len(g) /\ Len(g) \in Nat /\ p \in Seq(Nat) /\ DOMAIN p = 1 .. Len(p)
      /\ Len(p) \in Nat /\ v \in Nat /\ Len(p) <= Len(g)
  BY DEF DbTallyOK, DbStamps
<1>2. \A i \in 1 .. Len(p) : p[i] = g[Len(g) - Len(p) + i] BY DEF DbTallyOK
<1>3. \A i \in 1 .. Len(p) : Len(g) - Len(p) + i \in 1 .. Len(g) BY <1>1
<1>4. /\ \A i, j \in 1 .. Len(g) : i <= j => g[i] <= g[j]
      /\ \A i \in 1 .. Len(g) : g[i] \in Nat /\ g[i] <= now
  <2>1. DbStamps(now, g) BY DEF DbTallyOK
  <2>2. \A i \in 1 .. Len(g) : g[i] \in Nat BY <1>1
  <2> QED BY <1>1, <2>1, <2>2 DEF DbStamps
<1>5. \A i, j \in 1 .. Len(p) : i <= j => Len(g) - Len(p) + i <= Len(g) - Len(p) + j BY <1>1
<1>6. DbStamps(now, p)
  <2>1. \A i \in DOMAIN p : p[i] <= now BY <1>1, <1>2, <1>3, <1>4
  <2>2. \A i, j \in DOMAIN p : i <= j => p[i] <= p[j] BY <1>1, <1>2, <1>3, <1>4, <1>5
  <2> QED BY <1>1, <2>1, <2>2 DEF DbStamps
<1> QED BY <1>1, <1>2, <1>3, <1>4, <1>6

LEMMA DbTallyTick ==
  ASSUME NEW now \in Nat, NEW p, NEW v, NEW g, DbTallyOK(now, p, v, g)
  PROVE  DbTallyOK(now + 1, p, v, g)
<1>0. DbMax \in Nat \ {0} /\ DbWindow \in Nat /\ DbLockout \in Nat BY DbNumbers
<1>1. /\ g \in Seq(Nat) /\ DOMAIN g = 1 .. Len(g) /\ Len(g) \in Nat /\ Len(p) \in Nat /\ v \in Nat /\ Len(p) <= Len(g)
      /\ \A i \in 1 .. Len(g) : g[i] \in Nat /\ g[i] <= now
  BY DbTallyFacts
<1>2. \A x \in Nat : DbStale(now, x) => DbStale(now + 1, x) BY <1>0 DEF DbStale
<1>3. DbStamps(now + 1, g)
  <2>1. \A i \in 1 .. Len(g) : g[i] <= now + 1 BY <1>1
  <2> QED BY <1>1, <2>1 DEF DbTallyOK, DbStamps
<1>4. Len(g) - Len(p) > DbMax - 1 => DbStale(now + 1, g[Len(g) - Len(p) - (DbMax - 1)])
  <2> SUFFICES ASSUME Len(g) - Len(p) > DbMax - 1 PROVE DbStale(now + 1, g[Len(g) - Len(p) - (DbMax - 1)]) OBVIOUS
  <2>1. Len(g) - Len(p) - (DbMax - 1) \in 1 .. Len(g) BY <1>0, <1>1
  <2>2. DbStale(now, g[Len(g) - Len(p) - (DbMax - 1)]) BY DEF DbTallyOK
  <2> QED BY <1>1, <1>2, <2>1, <2>2
<1>5. v # 0 => \A i \in 1 .. Len(g) - Len(p) : DbStale(now + 1, g[i]) \/ g[i] <= v - DbLockout
  <2> SUFFICES ASSUME v # 0, NEW i \in 1 .. Len(g) - Len(p) PROVE DbStale(now + 1, g[i]) \/ g[i] <= v - DbLockout
    OBVIOUS
  <2>1. i \in 1 .. Len(g) BY <1>1
  <2>2. DbStale(now, g[i]) \/ g[i] <= v - DbLockout BY DEF DbTallyOK
  <2> QED BY <1>1, <1>2, <2>1, <2>2
<1>6. v <= (now + 1) + DbLockout
  <2>1. v <= now + DbLockout BY DEF DbTallyOK
  <2> QED BY <1>0, <1>1, <2>1
<1> QED BY <1>3, <1>4, <1>5, <1>6 DEF DbTallyOK

\* trimStamps on an account's stamps.
LEMMA DbTallyTrim ==
  ASSUME NEW now \in Nat, NEW p, NEW v, NEW g, DbTallyOK(now, p, v, g), NEW t, NEW k, DbCut(now, p, t, k)
  PROVE  DbTallyOK(now, t, v, g)
<1>0. DbMax \in Nat \ {0} /\ DbWindow \in Nat /\ DbLockout \in Nat BY DbNumbers
<1>1. /\ g \in Seq(Nat) /\ DOMAIN g = 1 .. Len(g) /\ Len(g) \in Nat /\ Len(p) \in Nat /\ v \in Nat /\ Len(p) <= Len(g)
      /\ \A i \in 1 .. Len(p) : p[i] = g[Len(g) - Len(p) + i] /\ Len(g) - Len(p) + i \in 1 .. Len(g)
      /\ \A i, j \in 1 .. Len(g) : i <= j => g[i] <= g[j]
      /\ \A i \in 1 .. Len(g) : g[i] \in Nat
  BY DbTallyFacts
<1>2. k \in 0 .. Len(p) /\ t \in Seq(Nat) /\ Len(t) = Len(p) - k BY DEF DbCut
<1>3. \A i \in 1 .. Len(t) : t[i] = p[k + i] BY DEF DbCut
<1>4. \A i \in 1 .. k : DbStale(now, p[i]) BY DEF DbCut
<1>5. Len(t) \in Nat /\ Len(t) <= Len(g) /\ Len(g) - Len(t) = (Len(g) - Len(p)) + k BY <1>1, <1>2
<1>6. \A i \in 1 .. Len(t) : t[i] = g[Len(g) - Len(t) + i]
  <2> SUFFICES ASSUME NEW i \in 1 .. Len(t) PROVE t[i] = g[Len(g) - Len(t) + i] OBVIOUS
  <2>1. k + i \in 1 .. Len(p) /\ Len(g) - Len(p) + (k + i) = Len(g) - Len(t) + i BY <1>1, <1>2, <1>5
  <2> QED BY <1>1, <1>3, <2>1
<1>7. Len(g) - Len(t) > DbMax - 1 => DbStale(now, g[Len(g) - Len(t) - (DbMax - 1)])
  <2> SUFFICES ASSUME Len(g) - Len(t) > DbMax - 1 PROVE DbStale(now, g[Len(g) - Len(t) - (DbMax - 1)]) OBVIOUS
  <2>1. CASE k = 0
    <3>1. Len(g) - Len(t) = Len(g) - Len(p) BY <1>1, <1>2, <2>1
    <3> QED BY <3>1 DEF DbTallyOK
  <2>2. CASE k # 0
    <3>1. k \in 1 .. k /\ k \in 1 .. Len(p) BY <1>1, <1>2, <2>2
    <3>2. DbStale(now, g[Len(g) - Len(p) + k]) BY <1>1, <1>4, <3>1
    <3>3. /\ Len(g) - Len(t) - (DbMax - 1) \in 1 .. Len(g) /\ Len(g) - Len(p) + k \in 1 .. Len(g)
          /\ Len(g) - Len(t) - (DbMax - 1) <= Len(g) - Len(p) + k
      BY <1>0, <1>1, <1>2, <1>5, <3>1
    <3>4. g[Len(g) - Len(t) - (DbMax - 1)] <= g[Len(g) - Len(p) + k] BY <1>1, <3>3
    <3>5. g[Len(g) - Len(t) - (DbMax - 1)] \in Nat /\ g[Len(g) - Len(p) + k] \in Nat BY <1>1, <3>3
    <3> QED BY <1>0, <3>2, <3>4, <3>5 DEF DbStale
  <2> QED BY <2>1, <2>2
<1>8. v # 0 => \A i \in 1 .. Len(g) - Len(t) : DbStale(now, g[i]) \/ g[i] <= v - DbLockout
  <2> SUFFICES ASSUME v # 0, NEW i \in 1 .. Len(g) - Len(t) PROVE DbStale(now, g[i]) \/ g[i] <= v - DbLockout OBVIOUS
  <2>1. CASE i \in 1 .. Len(g) - Len(p) BY <2>1 DEF DbTallyOK
  <2>2. CASE i \notin 1 .. Len(g) - Len(p)
    <3> DEFINE d == i - (Len(g) - Len(p))
    <3>1. d \in 1 .. k /\ d \in 1 .. Len(p) /\ Len(g) - Len(p) + d = i BY <1>1, <1>2, <1>5, <2>2
    <3> HIDE DEF d
    <3>2. p[d] = g[i] BY <1>1, <3>1
    <3> QED BY <1>4, <3>1, <3>2
  <2> QED BY <2>1, <2>2
<1>9. Len(t) >= DbMax => v = t[Len(t)] + DbLockout
  <2> SUFFICES ASSUME Len(t) >= DbMax PROVE v = t[Len(t)] + DbLockout OBVIOUS
  <2>0. Len(t) = Len(p) - k /\ k \in 0 .. Len(p) BY <1>2
  <2>1. Len(t) \in 1 .. Len(t) /\ k + Len(t) = Len(p) /\ Len(p) >= DbMax
    <3>1. \A a, b, c \in Nat, m \in Nat \ {0} : a = b - c /\ c <= b /\ a >= m => a \in 1 .. a /\ c + a = b /\ b >= m
      OBVIOUS
    <3>2. /\ Len(t) \in Nat /\ Len(p) \in Nat /\ DbMax \in Nat \ {0} /\ k \in Nat /\ k <= Len(p)
      BY <1>0, <1>1, <1>5, <2>0
    <3> QED BY <2>0, <3>1, <3>2
  <2>2. v = p[Len(p)] + DbLockout BY <2>1 DEF DbTallyOK
  <2>3. t[Len(t)] = p[Len(p)] BY <1>3, <2>1
  <2> QED BY <2>2, <2>3
<1> QED BY <1>1, <1>2, <1>5, <1>6, <1>7, <1>8, <1>9 DEF DbTallyOK

\* RecordFailure: one more stamp, and the lockout it may set.
LEMMA DbTallyFail ==
  ASSUME NEW now \in Nat, NEW p, NEW v, NEW g, DbTallyOK(now, p, v, g)
  PROVE  DbTallyOK(now, Append(p, now), IF Len(Append(p, now)) >= DbMax THEN now + DbLockout ELSE v, Append(g, now))
<1> DEFINE q == Append(p, now)
           h == Append(g, now)
           w == IF Len(q) >= DbMax THEN now + DbLockout ELSE v
<1>0. DbMax \in Nat \ {0} /\ DbWindow \in Nat /\ DbLockout \in Nat \ {0} BY DbNumbers
<1>1. /\ g \in Seq(Nat) /\ DOMAIN g = 1 .. Len(g) /\ Len(g) \in Nat /\ Len(p) \in Nat /\ v \in Nat /\ Len(p) <= Len(g)
      /\ \A i \in 1 .. Len(p) : p[i] = g[Len(g) - Len(p) + i] /\ Len(g) - Len(p) + i \in 1 .. Len(g)
      /\ \A i \in 1 .. Len(g) : g[i] \in Nat /\ g[i] <= now
      /\ DbStamps(now, p) /\ DbStamps(now, g)
  BY DbTallyFacts DEF DbTallyOK
<1>2. DbStamps(now, h) /\ Len(h) = Len(g) + 1 /\ (\A i \in 1 .. Len(g) : h[i] = g[i]) /\ h[Len(g) + 1] = now
  BY <1>1, DbPushed
<1>3. DbStamps(now, q) /\ Len(q) = Len(p) + 1 /\ (\A i \in 1 .. Len(p) : q[i] = p[i]) /\ q[Len(p) + 1] = now
  BY <1>1, DbPushed
<1> HIDE DEF q, h
<1>4. q \in Seq(Nat) /\ Len(q) <= Len(h) /\ Len(h) - Len(q) = Len(g) - Len(p) BY <1>1, <1>2, <1>3 DEF DbStamps
<1>5. \A i \in 1 .. Len(q) : q[i] = h[Len(h) - Len(q) + i]
  <2> SUFFICES ASSUME NEW i \in 1 .. Len(p) + 1 PROVE q[i] = h[Len(g) - Len(p) + i] BY <1>3, <1>4
  <2>1. CASE i = Len(p) + 1
    <3>1. Len(g) - Len(p) + i = Len(g) + 1 BY <1>1, <2>1
    <3> QED BY <1>2, <1>3, <2>1, <3>1
  <2>2. CASE i # Len(p) + 1
    <3>1. i \in 1 .. Len(p) BY <1>1, <2>2
    <3> QED BY <1>1, <1>2, <1>3, <3>1
  <2> QED BY <2>1, <2>2
<1>6. Len(h) - Len(q) > DbMax - 1 => DbStale(now, h[Len(h) - Len(q) - (DbMax - 1)])
  <2> SUFFICES ASSUME Len(g) - Len(p) > DbMax - 1 PROVE DbStale(now, h[Len(g) - Len(p) - (DbMax - 1)]) BY <1>4
  <2>1. Len(g) - Len(p) - (DbMax - 1) \in 1 .. Len(g) BY <1>0, <1>1
  <2>2. DbStale(now, g[Len(g) - Len(p) - (DbMax - 1)]) BY DEF DbTallyOK
  <2> QED BY <1>2, <2>1, <2>2
<1>7. w \in Nat /\ w <= now + DbLockout
  <2>1. v <= now + DbLockout BY DEF DbTallyOK
  <2> QED BY <1>0, <1>1, <2>1
<1>8. w # 0 => \A i \in 1 .. Len(h) - Len(q) : DbStale(now, h[i]) \/ h[i] <= w - DbLockout
  <2> SUFFICES ASSUME w # 0, NEW i \in 1 .. Len(g) - Len(p) PROVE DbStale(now, h[i]) \/ h[i] <= w - DbLockout BY <1>4
  <2>1. i \in 1 .. Len(g) /\ h[i] = g[i] /\ g[i] <= now BY <1>1, <1>2
  <2>2. CASE Len(q) >= DbMax
    <3>1. w = now + DbLockout BY <2>2
    <3>2. (now + DbLockout) - DbLockout = now BY <1>0
    <3>3. w - DbLockout = now BY <3>1, <3>2
    <3> QED BY <2>1, <3>3
  <2>3. CASE ~(Len(q) >= DbMax)
    <3>1. w = v BY <2>3
    <3>2. DbStale(now, g[i]) \/ g[i] <= v - DbLockout BY <3>1 DEF DbTallyOK
    <3> QED BY <2>1, <3>1, <3>2
  <2> QED BY <2>2, <2>3
<1>9. Len(q) >= DbMax => w = q[Len(q)] + DbLockout BY <1>3
<1>10. DbTallyOK(now, q, w, h) BY <1>2, <1>4, <1>5, <1>6, <1>7, <1>8, <1>9 DEF DbTallyOK
<1> QED BY <1>10 DEF q, h

\* The lockout is over: none of the stamps of more than DbMax - 1 is in the window.
LEMMA DbTallyOver ==
  ASSUME NEW now \in Nat, NEW p, NEW v, NEW g, DbTallyOK(now, p, v, g), v <= now, Len(p) >= DbMax
  PROVE  \A i \in 1 .. Len(p) : DbStale(now, p[i])
<1>0. DbMax \in Nat \ {0} /\ DbWindow \in Nat /\ DbLockout \in Nat /\ DbWindow <= DbLockout BY DbNumbers
<1>1. p \in Seq(Nat) /\ Len(p) \in Nat /\ DOMAIN p = 1 .. Len(p) /\ DbStamps(now, p) BY DbTallyFacts
<1>2. v = p[Len(p)] + DbLockout BY DEF DbTallyOK
<1> SUFFICES ASSUME NEW i \in 1 .. Len(p) PROVE DbStale(now, p[i]) OBVIOUS
<1>3. Len(p) \in 1 .. Len(p) /\ i <= Len(p) BY <1>0, <1>1
<1>4. p[i] <= p[Len(p)] /\ p[i] \in Nat /\ p[Len(p)] \in Nat BY <1>1, <1>3 DEF DbStamps
<1> QED BY <1>0, <1>2, <1>4 DEF DbStale

\* Allow forgets an account whose lockout has expired.
LEMMA DbTallyForget ==
  ASSUME NEW now \in Nat, NEW p, NEW v, NEW g, DbTallyOK(now, p, v, g), v # 0, v <= now
  PROVE  DbTallyOK(now, <<>>, 0, g)
<1>0. DbMax \in Nat \ {0} /\ DbWindow \in Nat /\ DbLockout \in Nat /\ DbWindow <= DbLockout BY DbNumbers
<1>1. /\ g \in Seq(Nat) /\ Len(g) \in Nat /\ Len(p) \in Nat /\ v \in Nat /\ Len(p) <= Len(g)
      /\ \A i \in 1 .. Len(p) : p[i] = g[Len(g) - Len(p) + i] /\ Len(g) - Len(p) + i \in 1 .. Len(g)
      /\ \A i \in 1 .. Len(g) : g[i] \in Nat
      /\ DbStamps(now, g)
  BY DbTallyFacts DEF DbTallyOK
<1>2. Len(g) > DbMax - 1 => DbStale(now, g[Len(g) - (DbMax - 1)])
  <2> SUFFICES ASSUME Len(g) > DbMax - 1 PROVE DbStale(now, g[Len(g) - (DbMax - 1)]) OBVIOUS
  <2> DEFINE e == Len(g) - (DbMax - 1)
  <2>1. e \in 1 .. Len(g) BY <1>0, <1>1
  <2>2. CASE Len(p) >= DbMax
    <3> DEFINE d == Len(p) - (DbMax - 1)
    <3>1. d \in 1 .. Len(p) /\ Len(g) - Len(p) + d = e BY <1>0, <1>1, <2>2
    <3>2. DbStale(now, p[d]) BY <2>2, <3>1, DbTallyOver
    <3> HIDE DEF d, e
    <3>3. p[d] = g[e] BY <1>1, <3>1
    <3> QED BY <3>2, <3>3 DEF e
  <2>3. CASE ~(Len(p) >= DbMax)
    <3>1. e \in 1 .. Len(g) - Len(p) BY <1>0, <1>1, <2>1, <2>3
    <3>2. DbStale(now, g[e]) \/ g[e] <= v - DbLockout BY <3>1 DEF DbTallyOK
    <3>3. g[e] \in Nat BY <1>1, <2>1
    <3> QED BY <1>0, <1>1, <3>2, <3>3 DEF DbStale
  <2> QED BY <2>2, <2>3
<1>3. Len(<<>>) = 0 /\ <<>> \in Seq(Nat) OBVIOUS
<1>4. Len(g) - 0 = Len(g) /\ 0 <= now + DbLockout /\ ~(0 >= DbMax) BY <1>0, <1>1
<1>5. DbMax - 1 \in Int BY <1>0
<1> QED BY <1>1, <1>2, <1>3, <1>4, <1>5 DEF DbTallyOK

\* Whoever Allow lets in has at most 2 * (DbMax - 1) wrong guesses in the window.
LEMMA DbTallyAllowed ==
  ASSUME NEW now \in Nat, NEW p, NEW v, NEW g, DbTallyOK(now, p, v, g), v <= now
  PROVE  DbAtMost(g, now - DbWindow, 2 * (DbMax - 1))
<1>0. DbMax \in Nat \ {0} /\ DbWindow \in Nat /\ DbLockout \in Nat /\ DbWindow <= DbLockout BY DbNumbers
<1>1. /\ g \in Seq(Nat) /\ Len(g) \in Nat /\ Len(p) \in Nat /\ v \in Nat /\ Len(p) <= Len(g)
      /\ \A i \in 1 .. Len(p) : p[i] = g[Len(g) - Len(p) + i] /\ Len(g) - Len(p) + i \in 1 .. Len(g)
      /\ \A i, j \in 1 .. Len(g) : i <= j => g[i] <= g[j]
      /\ \A i \in 1 .. Len(g) : g[i] \in Nat
  BY DbTallyFacts
<1> DEFINE a == Len(g) - 2 * (DbMax - 1)
<1> SUFFICES ASSUME Len(g) > 2 * (DbMax - 1) PROVE g[a] <= now - DbWindow BY DEF DbAtMost
<1>2. a \in 1 .. Len(g) BY <1>0, <1>1
<1>3. PICK b \in 1 .. Len(g) : a <= b /\ DbStale(now, g[b])
  <2>1. CASE Len(p) >= DbMax
    <3> DEFINE d == Len(p) - (DbMax - 1)
    <3>1. d \in 1 .. Len(p) /\ a <= Len(g) - Len(p) + d BY <1>0, <1>1, <2>1
    <3>2. DbStale(now, p[d]) BY <2>1, <3>1, DbTallyOver
    <3> HIDE DEF d
    <3> QED BY <1>1, <3>1, <3>2
  <2>2. CASE ~(Len(p) >= DbMax)
    <3> DEFINE b == Len(g) - Len(p) - (DbMax - 1)
    <3>1. Len(g) - Len(p) > DbMax - 1 /\ b \in 1 .. Len(g) /\ a <= b BY <1>0, <1>1, <2>2
    <3>2. DbStale(now, g[b]) BY <3>1 DEF DbTallyOK
    <3> QED BY <3>1, <3>2
  <2> QED BY <2>1, <2>2
<1>4. g[a] <= g[b] /\ g[a] \in Nat /\ g[b] \in Nat BY <1>1, <1>2, <1>3
<1> QED BY <1>0, <1>3, <1>4 DEF DbStale

LEMMA DbTallyClean ==
  ASSUME NEW now \in Nat
  PROVE  /\ DbTallyOK(now, <<>>, 0, <<>>)
         /\ \A p, v, g : DbTallyOK(now, p, v, g) /\ p = <<>> => DbTallyOK(now, <<>>, 0, g)
<1>0. DbMax \in Nat \ {0} /\ DbLockout \in Nat BY DbNumbers
<1>1. Len(<<>>) = 0 /\ <<>> \in Seq(Nat) /\ DOMAIN <<>> = {} OBVIOUS
<1>2. DbStamps(now, <<>>) BY <1>1 DEF DbStamps
<1>3. ~(0 - 0 > DbMax - 1) /\ ~(0 >= DbMax) /\ 0 <= now + DbLockout BY <1>0
<1>4. DbTallyOK(now, <<>>, 0, <<>>) BY <1>1, <1>2, <1>3 DEF DbTallyOK
<1>5. ASSUME NEW p, NEW v, NEW g, DbTallyOK(now, p, v, g), p = <<>> PROVE DbTallyOK(now, <<>>, 0, g)
  BY <1>1, <1>3, <1>5 DEF DbTallyOK
<1> QED BY <1>4, <1>5

-----------------------------------------------------------------------------

DbKnown == DbUsers \cup DbAdmins

DbReqShape == [pc : {"idle", "verify", "create", "role", "handle"}, user : DbAny \cup {""}, good : BOOLEAN,
               tok : Nat, act : {"", "view", "logout", "ban", "allow"}, csrf : BOOLEAN, reloaded : BOOLEAN]

\* A request under way.
DbReqGood(q) ==
    /\ q \in DbReqShape
    /\ q.pc = "verify" => q.user \in DbAny
    /\ q.pc = "create" => q.user \in DbKnown
    /\ q.pc # "handle" => ~q.reloaded

\* A handler that runs with a role checked since the last reload has it now.
DbRoleOK(q) == q.pc = "handle" /\ ~q.reloaded => DbRoleFor(q.user) >= DbNeed(q.act)

\* The requests that may yet issue a token; those about to check a password.
DbSigning == {r \in DbReqs : dbReq[r].pc \in {"verify", "create"}}
DbTryingAll == {r \in DbReqs : dbReq[r].pc = "verify"}
DbTrying(u) == {r \in DbReqs : dbReq[r].pc = "verify" /\ dbReq[r].user = u}

DbReqsOK ==
    /\ dbScene \in DbScenes /\ dbNow \in 1 .. DbMaxTime /\ dbTries \in 0 .. DbMaxTries[dbScene]
    /\ dbRole \in [DbUsers -> 0 .. 3] /\ dbWrites \in Nat /\ dbIssued \in Nat
    /\ DOMAIN dbReq = DbReqs /\ \A r \in DbReqs : DbReqGood(dbReq[r]) /\ DbRoleOK(dbReq[r])
    /\ dbIssued + Cardinality(DbSigning) <= dbTries

\* Counting requests: one request moved.
LEMMA DbCount ==
  ASSUME NEW A \in SUBSET DbReqs, NEW B \in SUBSET DbReqs, NEW r \in DbReqs, \A x \in DbReqs \ {r} : x \in A <=> x \in B
  PROVE  /\ Cardinality(A) \in Nat /\ Cardinality(B) \in Nat /\ Cardinality(DbReqs) \in Nat
         /\ Cardinality(A) <= Cardinality(DbReqs) /\ Cardinality(B) <= Cardinality(DbReqs)
         /\ r \in A /\ r \notin B => Cardinality(A) = Cardinality(B) + 1
         /\ r \notin A /\ r \in B => Cardinality(B) = Cardinality(A) + 1
         /\ (r \in A <=> r \in B) => Cardinality(B) = Cardinality(A)
<1>1. IsFiniteSet(DbReqs) BY DbNumbers
<1>2. IsFiniteSet(A) /\ IsFiniteSet(B) /\ Cardinality(A) <= Cardinality(DbReqs) /\ Cardinality(B) <= Cardinality(DbReqs)
  BY <1>1, FS_Subset
<1>3. Cardinality(A) \in Nat /\ Cardinality(B) \in Nat /\ Cardinality(DbReqs) \in Nat BY <1>1, <1>2, FS_CardinalityType
<1>4. ASSUME r \in A, r \notin B PROVE Cardinality(A) = Cardinality(B) + 1
  <2>1. A = B \cup {r} BY <1>4
  <2> QED BY <1>2, <1>4, <2>1, FS_AddElement
<1>5. ASSUME r \notin A, r \in B PROVE Cardinality(B) = Cardinality(A) + 1
  <2>1. B = A \cup {r} BY <1>5
  <2> QED BY <1>2, <1>5, <2>1, FS_AddElement
<1>6. ASSUME r \in A <=> r \in B PROVE Cardinality(B) = Cardinality(A)
  <2>1. A = B BY <1>6
  <2> QED BY <2>1
<1> QED BY <1>2, <1>3, <1>4, <1>5, <1>6

LEMMA DbIdleGood ==
  /\ DbReqGood(DbIdle) /\ DbIdle.pc = "idle" /\ DbRoleOK(DbIdle)
  /\ \A u, good : [DbIdle EXCEPT !.pc = "verify", !.user = u, !.good = good].pc = "verify"
BY DEF DbReqGood, DbIdle, DbReqShape, DbRoleOK

LEMMA DbVerifyGood ==
  ASSUME NEW u \in DbAny, NEW good \in BOOLEAN
  PROVE  LET q == [DbIdle EXCEPT !.pc = "verify", !.user = u, !.good = good]
         IN  DbReqGood(q) /\ q.pc = "verify" /\ q.user = u /\ DbRoleOK(q)
BY DEF DbReqGood, DbIdle, DbReqShape, DbRoleOK

LEMMA DbPcGood ==
  ASSUME NEW q, DbReqGood(q), q.pc # "handle", NEW pc \in {"create", "handle"}, pc = "create" => q.user \in DbKnown,
         pc = "handle" => DbRoleFor(q.user) >= DbNeed(q.act)
  PROVE  LET n == [q EXCEPT !.pc = pc] IN DbReqGood(n) /\ n.pc = pc /\ n.user = q.user /\ DbRoleOK(n)
<1> DEFINE n == [q EXCEPT !.pc = pc]
<1>1. /\ n \in DbReqShape /\ n.pc = pc /\ n.user = q.user /\ n.act = q.act /\ n.reloaded = q.reloaded
  BY DEF DbReqGood, DbReqShape
<1> HIDE DEF n
<1>2. ~q.reloaded BY DEF DbReqGood
<1>3. DbReqGood(n) BY <1>1, <1>2 DEF DbReqGood
<1>4. DbRoleOK(n) BY <1>1 DEF DbRoleOK
<1> QED BY <1>1, <1>3, <1>4 DEF n

\* The sessions are well typed and belong to known users.
DbEntriesOK ==
    /\ DOMAIN dbEntries \subseteq 1 .. dbIssued
    /\ \A t \in DOMAIN dbEntries : dbEntries[t] \in [user : DbKnown, expires : Nat]

\* 1 when the request may yet issue a token.
DbHeld(q) == IF q.pc \in {"verify", "create"} THEN 1 ELSE 0

LEMMA DbMoved ==
  ASSUME DOMAIN dbReq = DbReqs, \A x \in DbReqs : DbReqGood(dbReq[x]) /\ DbRoleOK(dbReq[x]), NEW r \in DbReqs, NEW q,
         DbReqGood(q), DbRoleOK(q), dbReq' = [dbReq EXCEPT ![r] = q], dbRole' = dbRole
  PROVE  /\ DOMAIN dbReq' = DbReqs /\ \A x \in DbReqs : DbReqGood(dbReq'[x]) /\ DbRoleOK(dbReq[x])'
         /\ Cardinality(DbSigning) \in Nat /\ Cardinality(DbSigning') \in Nat
         /\ Cardinality(DbSigning') = Cardinality(DbSigning) + DbHeld(q) - DbHeld(dbReq[r])
<1>1. DOMAIN dbReq' = DbReqs /\ dbReq'[r] = q /\ \A x \in DbReqs \ {r} : dbReq'[x] = dbReq[x] OBVIOUS
<1>2. \A x \in DbReqs : DbReqGood(dbReq'[x])
  <2> SUFFICES ASSUME NEW x \in DbReqs PROVE DbReqGood(dbReq'[x]) OBVIOUS
  <2>1. CASE x = r BY <1>1, <2>1
  <2>2. CASE x # r BY <1>1, <2>2
  <2> QED BY <2>1, <2>2
<1>3. \A x \in DbReqs : DbRoleOK(dbReq[x])'
  <2> SUFFICES ASSUME NEW x \in DbReqs PROVE DbRoleOK(dbReq[x])' OBVIOUS
  <2>0. DbRoleOK(IF x = r THEN q ELSE dbReq[x]) OBVIOUS
  <2>1. dbReq'[x] = IF x = r THEN q ELSE dbReq[x] OBVIOUS
  <2> QED BY <2>0, <2>1 DEF DbRoleOK, DbRoleFor
<1>4. DbSigning \in SUBSET DbReqs /\ DbSigning' \in SUBSET DbReqs /\ \A x \in DbReqs \ {r} : x \in DbSigning <=> x \in DbSigning'
  BY <1>1 DEF DbSigning
<1>5. (r \in DbSigning <=> dbReq[r].pc \in {"verify", "create"}) /\ (r \in DbSigning' <=> q.pc \in {"verify", "create"})
  BY <1>1 DEF DbSigning
<1> HIDE DEF DbSigning
<1>6. /\ Cardinality(DbSigning) \in Nat /\ Cardinality(DbSigning') \in Nat
      /\ r \in DbSigning /\ r \notin DbSigning' => Cardinality(DbSigning) = Cardinality(DbSigning') + 1
      /\ r \notin DbSigning /\ r \in DbSigning' => Cardinality(DbSigning') = Cardinality(DbSigning) + 1
      /\ (r \in DbSigning <=> r \in DbSigning') => Cardinality(DbSigning') = Cardinality(DbSigning)
  BY <1>4, DbCount
<1>7. Cardinality(DbSigning') = Cardinality(DbSigning) + DbHeld(q) - DbHeld(dbReq[r])
  <2>1. CASE r \in DbSigning /\ r \in DbSigning'
    <3>1. DbHeld(q) = 1 /\ DbHeld(dbReq[r]) = 1 BY <1>5, <2>1 DEF DbHeld
    <3> QED BY <1>6, <2>1, <3>1
  <2>2. CASE r \in DbSigning /\ r \notin DbSigning'
    <3>1. DbHeld(q) = 0 /\ DbHeld(dbReq[r]) = 1 BY <1>5, <2>2 DEF DbHeld
    <3> QED BY <1>6, <2>2, <3>1
  <2>3. CASE r \notin DbSigning /\ r \in DbSigning'
    <3>1. DbHeld(q) = 1 /\ DbHeld(dbReq[r]) = 0 BY <1>5, <2>3 DEF DbHeld
    <3> QED BY <1>6, <2>3, <3>1
  <2>4. CASE r \notin DbSigning /\ r \notin DbSigning'
    <3>1. DbHeld(q) = 0 /\ DbHeld(dbReq[r]) = 0 BY <1>5, <2>4 DEF DbHeld
    <3> QED BY <1>6, <2>4, <3>1
  <2> QED BY <2>1, <2>2, <2>3, <2>4
<1> QED BY <1>1, <1>2, <1>3, <1>6, <1>7

LEMMA DbTries ==
  ASSUME DbReqsOK
  PROVE  DbMaxTries[dbScene] \in Nat /\ DbMaxTries[dbScene] <= Len(DbNames)
<1>1. DbMaxTries \in [DbScenes -> 0 .. Len(DbNames)] /\ Len(DbNames) \in Nat BY DbConstants
<1>2. DbMaxTries[dbScene] \in 0 .. Len(DbNames) BY <1>1 DEF DbReqsOK
<1> QED BY <1>1, <1>2

\* The steps, each with the names it may be about.
LEMMA DbSteps ==
  ASSUME DbReqsOK, DbNext
  PROVE  \/ \E r \in DbReqs, u \in DbAny, good \in BOOLEAN : DbLoginAllowed(r, u, good)
         \/ \E u \in DbAny : DbLoginRefused(u)
         \/ \E r \in DbReqs, tok \in 1 .. dbIssued, csrf \in BOOLEAN :
              \E act \in {"view", "logout", "ban", "allow"} : DbArrives(r, tok, act, csrf)
         \/ \E roles \in [DbUsers -> 0 .. 3] : DbReload(roles)
         \/ \E r \in DbReqs : DbLoginWrong(r) \/ DbLoginRight(r) \/ DbLookupFails(r) \/ DbCreate(r)
         \/ \E r \in DbReqs : DbUnknown(r) \/ DbGranted(r) \/ DbLogout(r) \/ DbWrite(r)
         \/ \E r \in DbReqs : dbReq[r].pc \in {"role", "handle"} /\ DbEnds(r)
         \/ DbTick
<1>1. DbAdmins \subseteq DbAny /\ DbUsers \subseteq DbAny BY DEF DbAny
<1>2. dbTries < DbMaxTries[dbScene] => DbNames[dbTries + 1] \in DbAny
  <2> SUFFICES ASSUME dbTries < DbMaxTries[dbScene] PROVE DbNames[dbTries + 1] \in DbAny OBVIOUS
  <2>1. dbTries \in Nat /\ DbMaxTries[dbScene] \in Nat /\ DbMaxTries[dbScene] <= Len(DbNames) BY DbTries DEF DbReqsOK
  <2>2. DbNames \in Seq(ToSet(DbNames)) BY DbConstants
  <2>3. dbTries + 1 \in 1 .. Len(DbNames) BY <2>1, <2>2
  <2>4. DbNames[dbTries + 1] \in ToSet(DbNames) BY <2>2, <2>3
  <2> QED BY <2>4 DEF DbAny
<1>3. CASE /\ dbScene = "login"
           /\ \/ \E r \in DbReqs, u \in DbAdmins, good \in BOOLEAN : DbLoginAllowed(r, u, good)
              \/ \E u \in DbAdmins : DbLoginRefused(u)
  BY <1>1, <1>3
<1>4. CASE /\ dbScene = "names" /\ dbTries < DbMaxTries[dbScene]
           /\ \/ \E r \in DbReqs : DbLoginAllowed(r, DbNames[dbTries + 1], FALSE)
              \/ DbLoginRefused(DbNames[dbTries + 1])
  BY <1>2, <1>4
<1>5. CASE /\ dbScene = "session"
           /\ \/ \E r \in DbReqs, u \in DbUsers : DbLoginAllowed(r, u, TRUE)
              \/ \E r \in DbReqs, tok \in 1 .. dbIssued, csrf \in BOOLEAN :
                   \E act \in {"view", "logout", "ban", "allow"} : DbArrives(r, tok, act, csrf)
              \/ \E roles \in [DbUsers -> 0 .. 3] : DbReload(roles)
  BY <1>1, <1>5
<1>6. CASE \E r \in DbReqs :
             \/ DbLoginWrong(r) \/ DbLoginRight(r) \/ DbLookupFails(r) \/ DbCreate(r)
             \/ DbUnknown(r) \/ DbDenied(r) \/ DbGranted(r) \/ DbPage(r) \/ DbForged(r)
             \/ DbBadForm(r) \/ DbLogout(r) \/ DbWrite(r) \/ DbWriteFails(r)
  <2>1. \A r \in DbReqs : DbDenied(r) \/ DbPage(r) \/ DbForged(r) \/ DbBadForm(r) \/ DbWriteFails(r) =>
          dbReq[r].pc \in {"role", "handle"} /\ DbEnds(r)
    BY DEF DbDenied, DbPage, DbForged, DbBadForm, DbWriteFails
  <2> QED BY <1>6, <2>1
<1>7. CASE DbTick BY <1>7
<1> QED BY <1>3, <1>4, <1>5, <1>6, <1>7 DEF DbNext

LEMMA DbReqsInit == DbInit => DbReqsOK
<1> SUFFICES ASSUME DbInit PROVE DbReqsOK OBVIOUS
<1>1. DbSigning = {} BY DEF DbInit, DbSigning, DbIdle
<1>2. Cardinality(DbSigning) = 0 BY <1>1, FS_EmptySet
<1>3. dbScene \in DbScenes /\ dbNow \in 1 .. DbMaxTime BY DbNumbers DEF DbInit
<1>4. dbTries \in 0 .. DbMaxTries[dbScene]
  <2>1. DbMaxTries \in [DbScenes -> 0 .. Len(DbNames)] /\ Len(DbNames) \in Nat BY DbConstants
  <2>2. DbMaxTries[dbScene] \in Nat BY <1>3, <2>1
  <2> QED BY <2>2 DEF DbInit
<1>5. dbRole \in [DbUsers -> 0 .. 3] /\ dbWrites \in Nat /\ dbIssued \in Nat BY DEF DbInit
<1>6. DOMAIN dbReq = DbReqs /\ \A r \in DbReqs : DbReqGood(dbReq[r]) /\ DbRoleOK(dbReq[r]) BY DbIdleGood DEF DbInit
<1>7. dbIssued + Cardinality(DbSigning) <= dbTries BY <1>2 DEF DbInit
<1> QED BY <1>3, <1>4, <1>5, <1>6, <1>7 DEF DbReqsOK

LEMMA DbReqsStutter ==
  ASSUME DbReqsOK, UNCHANGED <<dbScene, dbNow, dbTries, dbRole, dbIssued, dbReq, dbWrites>>
  PROVE  DbReqsOK'
BY DEF DbReqsOK, DbSigning, DbRoleOK, DbRoleFor

\* One request moved, and the counters with it.
LEMMA DbReqsMove ==
  ASSUME DbReqsOK, NEW r \in DbReqs, NEW q, DbReqGood(q), DbRoleOK(q), dbReq' = [dbReq EXCEPT ![r] = q],
         UNCHANGED <<dbScene, dbNow, dbRole>>, dbWrites' \in Nat, dbTries' \in 0 .. DbMaxTries[dbScene],
         dbIssued' \in Nat,
         dbIssued' - dbIssued + DbHeld(q) <= dbTries' - dbTries + DbHeld(dbReq[r])
  PROVE  DbReqsOK'
<1>1. DOMAIN dbReq = DbReqs /\ \A x \in DbReqs : DbReqGood(dbReq[x]) /\ DbRoleOK(dbReq[x]) BY DEF DbReqsOK
<1> DEFINE s == Cardinality(DbSigning)
           t == Cardinality(DbSigning')
<1>2. DOMAIN dbReq' = DbReqs /\ \A x \in DbReqs : DbReqGood(dbReq'[x]) /\ DbRoleOK(dbReq[x])' BY <1>1, DbMoved
<1>3. s \in Nat /\ t \in Nat /\ t = s + DbHeld(q) - DbHeld(dbReq[r]) BY <1>1, DbMoved
<1> HIDE DEF s, t
<1>4. dbIssued + s <= dbTries /\ dbIssued \in Nat /\ dbTries \in Nat /\ dbTries' \in Nat /\ dbIssued' \in Nat
  <2>1. DbMaxTries[dbScene] \in Nat BY DbTries
  <2> QED BY <2>1 DEF DbReqsOK, s
<1>5. dbIssued' + t <= dbTries'
  <2>1. \A i, j, x, y, m, n \in Nat, a, b \in 0 .. 1 :
          i + m <= x /\ j - i + a <= y - x + b /\ n = m + a - b => j + n <= y
    OBVIOUS
  <2>2. DbHeld(q) \in 0 .. 1 /\ DbHeld(dbReq[r]) \in 0 .. 1 BY DEF DbHeld
  <2> QED BY <1>3, <1>4, <2>1, <2>2
<1>6. dbScene' \in DbScenes /\ dbNow' \in 1 .. DbMaxTime /\ dbTries' \in 0 .. DbMaxTries[dbScene'] /\ dbRole' \in [DbUsers -> 0 .. 3]
  BY DEF DbReqsOK
<1> QED BY <1>2, <1>5, <1>6 DEF DbReqsOK, t

LEMMA DbEnded ==
  ASSUME DbReqsOK, NEW r \in DbReqs, dbReq' = [dbReq EXCEPT ![r] = DbIdle], UNCHANGED <<dbScene, dbNow, dbTries, dbRole>>,
         dbWrites' \in Nat, dbIssued' \in Nat, dbIssued' - dbIssued <= DbHeld(dbReq[r])
  PROVE  DbReqsOK'
<1>1. DbReqGood(DbIdle) /\ DbRoleOK(DbIdle) /\ DbHeld(DbIdle) = 0 BY DbIdleGood DEF DbHeld
<1>2. dbTries' \in 0 .. DbMaxTries[dbScene] /\ dbTries' - dbTries = 0 /\ dbIssued \in Nat
  <2>1. DbMaxTries[dbScene] \in Nat BY DbTries
  <2> QED BY <2>1 DEF DbReqsOK
<1>3. DbHeld(dbReq[r]) \in 0 .. 1 BY DEF DbHeld
<1>4. dbIssued' - dbIssued + DbHeld(DbIdle) <= dbTries' - dbTries + DbHeld(dbReq[r])
  BY <1>1, <1>2, <1>3
<1> QED BY <1>1, <1>2, <1>4, DbReqsMove

\* No request moved; at most one more try.
LEMMA DbReqsKept ==
  ASSUME DbReqsOK, UNCHANGED <<dbScene, dbNow, dbRole, dbIssued, dbReq, dbWrites>>, dbTries' = dbTries + 1,
         dbTries < DbMaxTries[dbScene]
  PROVE  DbReqsOK'
<1>0. /\ DbMaxTries[dbScene] \in Nat /\ dbTries \in 0 .. DbMaxTries[dbScene] /\ dbIssued \in Nat
      /\ \A r \in DbReqs : DbReqGood(dbReq[r]) /\ DbRoleOK(dbReq[r])
  BY DbTries DEF DbReqsOK
<1>2. dbTries' \in 0 .. DbMaxTries[dbScene] BY <1>0
<1>3. Cardinality(DbSigning') = Cardinality(DbSigning) /\ Cardinality(DbSigning) \in Nat
  <2>1. DbSigning' = DbSigning BY DEF DbSigning
  <2>2. IsFiniteSet(DbSigning)
    <3>1. DbSigning \subseteq DbReqs BY DEF DbSigning
    <3> QED BY <3>1, DbNumbers, FS_Subset
  <2> QED BY <2>1, <2>2, FS_CardinalityType
<1>4. dbIssued' + Cardinality(DbSigning') <= dbTries'
  <2>1. dbIssued + Cardinality(DbSigning) <= dbTries BY DEF DbReqsOK
  <2>2. dbTries \in Nat BY <1>0
  <2> QED BY <1>0, <1>3, <2>1, <2>2
<1>5. \A x \in DbReqs : DbRoleOK(dbReq[x])' BY <1>0 DEF DbRoleOK, DbRoleFor
<1> QED BY <1>2, <1>4, <1>5 DEF DbReqsOK

LEMMA DbReqsNext ==
  ASSUME DbReqsOK, DbEntriesOK, [DbNext]_dbVars
  PROVE  DbReqsOK'
<1>0. /\ DbMaxTries[dbScene] \in Nat /\ dbTries \in 0 .. DbMaxTries[dbScene] /\ dbIssued \in Nat /\ dbWrites \in Nat
      /\ \A r \in DbReqs : DbReqGood(dbReq[r]) /\ DbRoleOK(dbReq[r])
  BY DbTries DEF DbReqsOK
<1>1. ASSUME NEW r \in DbReqs, NEW u \in DbAny, NEW good \in BOOLEAN, DbLoginAllowed(r, u, good) PROVE DbReqsOK'
  <2> DEFINE q == [DbIdle EXCEPT !.pc = "verify", !.user = u, !.good = good]
  <2>1. DbReqGood(q) /\ DbRoleOK(q) /\ q.pc = "verify" BY DbVerifyGood
  <2>2. DbHeld(q) = 1 BY <2>1 DEF DbHeld
  <2>3. dbReq' = [dbReq EXCEPT ![r] = q] /\ dbReq[r] = DbIdle BY <1>1 DEF DbLoginAllowed
  <2> HIDE DEF q
  <2>4. DbHeld(dbReq[r]) = 0 BY <2>3, DbIdleGood DEF DbHeld
  <2>5. /\ UNCHANGED <<dbScene, dbNow, dbRole>> /\ dbWrites' \in Nat /\ dbTries' = dbTries + 1
        /\ dbTries' \in 0 .. DbMaxTries[dbScene] /\ dbIssued' \in Nat /\ dbIssued' = dbIssued
    BY <1>0, <1>1 DEF DbLoginAllowed, dbSessions
  <2>6. dbIssued' - dbIssued + DbHeld(q) <= dbTries' - dbTries + DbHeld(dbReq[r]) BY <1>0, <2>2, <2>4, <2>5
  <2> QED BY <2>1, <2>3, <2>5, <2>6, DbReqsMove
<1>2. ASSUME NEW u, DbLoginRefused(u) PROVE DbReqsOK'
  <2>1. /\ dbTries' = dbTries + 1 /\ dbTries < DbMaxTries[dbScene]
        /\ UNCHANGED <<dbScene, dbNow, dbRole, dbIssued, dbReq, dbWrites>>
    BY <1>2 DEF DbLoginRefused, dbSessions
  <2> QED BY <2>1, DbReqsKept
<1>3. ASSUME NEW r \in DbReqs, NEW tok \in 1 .. dbIssued, NEW csrf \in BOOLEAN, NEW act \in {"view", "logout", "ban", "allow"},
             DbArrives(r, tok, act, csrf)
      PROVE  DbReqsOK'
  <2>1. /\ UNCHANGED <<dbScene, dbNow, dbRole, dbIssued, dbWrites>> /\ dbTries' = dbTries + 1 /\ dbReq[r] = DbIdle
        /\ dbTries' \in 0 .. DbMaxTries[dbScene]
    BY <1>0, <1>3 DEF DbArrives
  <2>2. CASE tok \in DOMAIN dbEntries /\ dbNow < dbEntries[tok].expires
    <3> DEFINE n(u) == [DbIdle EXCEPT !.pc = "role", !.user = u, !.tok = tok, !.act = act, !.csrf = csrf]
    <3>1. dbReq' = [dbReq EXCEPT ![r] = n(dbEntries[tok].user)] BY <1>3, <2>2 DEF DbArrives
    <3>2. dbEntries[tok].user \in DbKnown /\ tok \in Nat BY <1>0, <2>2 DEF DbEntriesOK
    <3>3. ASSUME NEW u \in DbKnown PROVE DbReqGood(n(u)) /\ n(u).pc = "role" /\ DbRoleOK(n(u))
      <4>1. u \in DbAny BY DEF DbKnown, DbAny
      <4>2. /\ n(u) \in DbReqShape /\ n(u).pc = "role" /\ ~n(u).reloaded
        BY <3>2, <4>1 DEF DbIdle, DbReqShape
      <4> HIDE DEF n
      <4> QED BY <4>2 DEF DbReqGood, DbRoleOK
    <3> HIDE DEF n
    <3>4. PICK q : q = n(dbEntries[tok].user) OBVIOUS
    <3>5. DbReqGood(q) /\ q.pc = "role" /\ DbRoleOK(q) BY <3>2, <3>3, <3>4
    <3>6. dbReq' = [dbReq EXCEPT ![r] = q] BY <3>1, <3>4
    <3>7. DbHeld(q) = 0 BY <3>5 DEF DbHeld
    <3>8. DbHeld(dbReq[r]) = 0 BY <2>1, DbIdleGood DEF DbHeld
    <3>9. dbIssued' - dbIssued + DbHeld(q) <= dbTries' - dbTries + DbHeld(dbReq[r])
      <4>1. dbTries \in Nat BY <1>0
      <4> QED BY <1>0, <2>1, <3>7, <3>8, <4>1
    <3>10. dbWrites' \in Nat /\ dbIssued' \in Nat BY <1>0, <2>1
    <3> QED BY <2>1, <3>5, <3>6, <3>9, <3>10, DbReqsMove
  <2>3. CASE ~(tok \in DOMAIN dbEntries /\ dbNow < dbEntries[tok].expires)
    <3>1. dbReq' = dbReq /\ dbTries < DbMaxTries[dbScene] BY <1>3, <2>3 DEF DbArrives
    <3> QED BY <2>1, <3>1, DbReqsKept
  <2> QED BY <2>2, <2>3
<1>4. ASSUME NEW roles \in [DbUsers -> 0 .. 3], DbReload(roles) PROVE DbReqsOK'
  <2>1. /\ dbRole' = roles /\ dbReq' = [r \in DbReqs |-> [dbReq[r] EXCEPT !.reloaded = dbReq[r].pc = "handle"]]
        /\ UNCHANGED <<dbScene, dbNow, dbTries, dbIssued, dbWrites>>
    BY <1>4 DEF DbReload, dbSessions
  <2>2. ASSUME NEW r \in DbReqs
        PROVE  dbReq'[r].pc = dbReq[r].pc /\ DbReqGood(dbReq'[r]) /\ (dbReq'[r].pc = "handle" => dbReq'[r].reloaded)
    <3>1. DbReqGood(dbReq[r]) BY <1>0
    <3>2. dbReq'[r] = [dbReq[r] EXCEPT !.reloaded = dbReq[r].pc = "handle"] BY <2>1
    <3> DEFINE o == dbReq[r]
               n == [o EXCEPT !.reloaded = o.pc = "handle"]
    <3>3. n \in DbReqShape /\ n.pc = o.pc /\ n.user = o.user /\ (n.reloaded <=> o.pc = "handle")
      BY <3>1 DEF DbReqGood, DbReqShape
    <3>4. DbReqGood(n) BY <3>1, <3>3 DEF DbReqGood
    <3> QED BY <3>2, <3>3, <3>4
  <2>3. \A r \in DbReqs : DbReqGood(dbReq'[r]) /\ DbRoleOK(dbReq[r])' BY <2>2 DEF DbRoleOK
  <2>4. DbSigning' = DbSigning BY <2>2 DEF DbSigning
  <2>5. DOMAIN dbReq' = DbReqs BY <2>1
  <2> QED BY <2>1, <2>3, <2>4, <2>5 DEF DbReqsOK
<1>5. ASSUME NEW r \in DbReqs, DbLoginWrong(r) \/ DbLookupFails(r) \/ DbCreate(r) \/ DbUnknown(r) \/ DbLogout(r) \/ DbWrite(r)
                               \/ DbEnds(r)
      PROVE  DbReqsOK'
  <2>1. dbReq' = [dbReq EXCEPT ![r] = DbIdle] /\ UNCHANGED <<dbScene, dbNow, dbTries, dbRole>>
    BY <1>5 DEF DbLoginWrong, DbLookupFails, DbCreate, DbUnknown, DbLogout, DbWrite, DbEnds
  <2>2. dbWrites' \in Nat
    <3>1. dbWrites' = dbWrites \/ dbWrites' = dbWrites + 1
      BY <1>5 DEF DbLoginWrong, DbLookupFails, DbCreate, DbUnknown, DbLogout, DbWrite, DbEnds
    <3> QED BY <1>0, <3>1
  <2>3. dbIssued' = dbIssued \/ (dbReq[r].pc = "create" /\ dbIssued' = dbIssued + 1)
    BY <1>5 DEF DbLoginWrong, DbLookupFails, DbCreate, DbUnknown, DbLogout, DbWrite, DbEnds, dbSessions
  <2>4. dbIssued' \in Nat /\ dbIssued' - dbIssued <= DbHeld(dbReq[r])
    <3>1. dbIssued' \in Nat BY <1>0, <2>3
    <3>2. CASE dbIssued' = dbIssued
      <4>1. DbHeld(dbReq[r]) \in 0 .. 1 BY DEF DbHeld
      <4> QED BY <1>0, <3>2, <4>1
    <3>3. CASE dbReq[r].pc = "create" /\ dbIssued' = dbIssued + 1
      <4>1. DbHeld(dbReq[r]) = 1 BY <3>3 DEF DbHeld
      <4> QED BY <1>0, <3>3, <4>1
    <3> QED BY <2>3, <3>1, <3>2, <3>3
  <2> QED BY <2>1, <2>2, <2>4, DbEnded
<1>6. ASSUME NEW r \in DbReqs, DbLoginRight(r) \/ DbGranted(r) PROVE DbReqsOK'
  <2> DEFINE pc == IF DbLoginRight(r) THEN "create" ELSE "handle"
             q == [dbReq[r] EXCEPT !.pc = pc]
  <2>1. /\ dbReq' = [dbReq EXCEPT ![r].pc = pc]
        /\ UNCHANGED <<dbScene, dbNow, dbTries, dbRole, dbIssued, dbWrites>>
    <3>1. CASE DbLoginRight(r) BY <3>1 DEF DbLoginRight, dbSessions
    <3>2. CASE ~DbLoginRight(r) BY <1>6, <3>2 DEF DbGranted, dbSessions
    <3> QED BY <3>1, <3>2
  <2>2. dbReq' = [dbReq EXCEPT ![r] = q] BY <2>1
  <2>3. /\ dbReq[r].pc # "handle" /\ pc \in {"create", "handle"} /\ (pc = "create" => dbReq[r].user \in DbKnown)
        /\ (pc = "handle" => DbRoleFor(dbReq[r].user) >= DbNeed(dbReq[r].act))
        /\ DbHeld(dbReq[r]) = (IF pc = "create" THEN 1 ELSE 0)
    <3>1. CASE DbLoginRight(r) BY <3>1 DEF DbLoginRight, DbVerified, DbKnown, DbHeld
    <3>2. CASE ~DbLoginRight(r) BY <1>6, <3>2 DEF DbGranted, DbHeld
    <3> QED BY <3>1, <3>2
  <2>4. DbReqGood(dbReq[r]) BY <1>0
  <2> HIDE DEF pc
  <2>5. DbReqGood(q) /\ q.pc = pc /\ DbRoleOK(q) BY <2>3, <2>4, DbPcGood
  <2> HIDE DEF q
  <2>6. DbHeld(q) = (IF pc = "create" THEN 1 ELSE 0) BY <2>3, <2>5 DEF DbHeld
  <2>7. dbIssued' - dbIssued + DbHeld(q) <= dbTries' - dbTries + DbHeld(dbReq[r])
    <3>1. dbTries \in Nat BY <1>0
    <3> QED BY <1>0, <2>1, <2>3, <2>6, <3>1
  <2>8. dbWrites' \in Nat /\ dbIssued' \in Nat /\ dbTries' \in 0 .. DbMaxTries[dbScene] BY <1>0, <2>1
  <2>9. UNCHANGED <<dbScene, dbNow, dbRole>> BY <2>1
  <2> QED BY <2>2, <2>5, <2>7, <2>8, <2>9, DbReqsMove
<1>7. CASE DbTick
  <2>1. /\ dbNow' = dbNow + 1 /\ dbNow < DbMaxTime /\ dbNow \in 1 .. DbMaxTime
        /\ UNCHANGED <<dbScene, dbTries, dbRole, dbIssued, dbReq, dbWrites>>
    BY <1>7 DEF DbTick, dbSessions, DbReqsOK
  <2>2. dbNow' \in 1 .. DbMaxTime BY <2>1, DbNumbers
  <2>3. DbSigning' = DbSigning BY <2>1 DEF DbSigning
  <2>4. \A x \in DbReqs : DbRoleOK(dbReq[x])' BY <1>0, <2>1 DEF DbRoleOK, DbRoleFor
  <2> QED BY <2>1, <2>2, <2>3, <2>4 DEF DbReqsOK
<1>8. CASE DbNext
  <2> USE <1>8
  <2> QED BY <1>1, <1>2, <1>3, <1>4, <1>5, <1>6, <1>7, DbSteps
<1>9. CASE UNCHANGED dbVars
  <2>1. UNCHANGED <<dbScene, dbNow, dbTries, dbRole, dbIssued, dbReq, dbWrites>> BY <1>9 DEF dbVars, dbSessions
  <2> QED BY <2>1, DbReqsStutter
<1> QED BY <1>8, <1>9

\* A write goes out only for a user whose role was checked since the last reload.
LEMMA DbRoleStep ==
  ASSUME DbReqsOK, [DbNext]_dbVars
  PROVE  \A r \in DbReqs :
           (dbWrites' # dbWrites /\ dbReq'[r] # dbReq[r] /\ ~dbReq[r].reloaded) =>
             \/ dbReq[r].user \in DbAdmins
             \/ dbRole[dbReq[r].user] >= (IF dbReq[r].act = "ban" THEN 2 ELSE 3)
<1> SUFFICES ASSUME NEW x \in DbReqs, dbWrites' # dbWrites, dbReq'[x] # dbReq[x], ~dbReq[x].reloaded
             PROVE  \/ dbReq[x].user \in DbAdmins
                    \/ dbRole[dbReq[x].user] >= (IF dbReq[x].act = "ban" THEN 2 ELSE 3)
  OBVIOUS
<1>1. DbNext BY DEF dbVars
<1>2. PICK r \in DbReqs : DbWrite(r)
  <2> USE <1>1
  <2>1. \A r, u, good : ~DbLoginAllowed(r, u, good) BY DEF DbLoginAllowed
  <2>2. \A u : ~DbLoginRefused(u) BY DEF DbLoginRefused
  <2>3. \A r, tok, csrf, act : ~DbArrives(r, tok, act, csrf) BY DEF DbArrives
  <2>4. \A roles : ~DbReload(roles) BY DEF DbReload
  <2>5. \A r : ~(DbLoginWrong(r) \/ DbLoginRight(r) \/ DbLookupFails(r) \/ DbCreate(r))
    BY DEF DbLoginWrong, DbLoginRight, DbLookupFails, DbCreate
  <2>6. \A r : ~(DbUnknown(r) \/ DbGranted(r) \/ DbLogout(r) \/ DbEnds(r)) BY DEF DbUnknown, DbGranted, DbLogout, DbEnds
  <2>7. ~DbTick BY DEF DbTick
  <2> QED BY <2>1, <2>2, <2>3, <2>4, <2>5, <2>6, <2>7, DbSteps
<1>3. x = r BY <1>2 DEF DbWrite, DbReqsOK
<1>4. dbReq[x].pc = "handle" /\ dbReq[x].act \in {"ban", "allow"} BY <1>2, <1>3 DEF DbWrite
<1>5. DbRoleFor(dbReq[x].user) >= DbNeed(dbReq[x].act) BY <1>4 DEF DbReqsOK, DbRoleOK
<1>6. DbNeed(dbReq[x].act) = IF dbReq[x].act = "ban" THEN 2 ELSE 3 BY <1>4 DEF DbNeed
<1>7. dbReq[x].user \in DbUsers \/ dbReq[x].user \in DbAdmins BY <1>4, <1>5, <1>6 DEF DbRoleFor
<1>8. CASE dbReq[x].user \in DbUsers BY <1>5, <1>6, <1>8 DEF DbRoleFor
<1> QED BY <1>7, <1>8

\* An account's record, the empty one when it has none.
DbOf(f, u) == IF u \in DOMAIN f THEN f[u] ELSE [stamps |-> <<>>, until |-> 0]

\* The throttle's records against the wrong guesses.
DbTallies(now, f, g) ==
    /\ DOMAIN f \subseteq DbAny /\ IsFiniteSet(DOMAIN f) /\ DOMAIN g = DbAny
    /\ \A u \in DOMAIN f : f[u] \in [stamps : Seq(Nat), until : Nat]
    /\ \A u \in DbAny : DbTallyOK(now, DbOf(f, u).stamps, DbOf(f, u).until, g[u])

\* What an account and all of them may have in the window: the more, the fewer
\* requests are about to check a password.
DbQuota(u) == 2 * (DbMax - 1) + Cardinality(DbReqs) - Cardinality(DbTrying(u))
DbQuotaAll == DbGlobalMax - 1 + Cardinality(DbReqs) - Cardinality(DbTryingAll)

DbGuessesOK ==
    /\ DbStamps(dbNow, dbGlobal)
    /\ \A u \in DbAny : DbAtMost(dbGuesses[u], dbNow - DbWindow, DbQuota(u))
    /\ DbAtMost(dbGlobal, dbNow - DbWindow, DbQuotaAll)

LEMMA DbAtMostMore ==
  ASSUME NEW now \in Nat, NEW s, DbStamps(now, s), NEW x \in Int, NEW y \in Int, x <= y, NEW n \in Nat, NEW m \in Nat, n <= m,
         DbAtMost(s, x, n)
  PROVE  DbAtMost(s, y, m)
<1>0. s \in Seq(Nat) /\ DOMAIN s = 1 .. Len(s) /\ Len(s) \in Nat BY DEF DbStamps
<1> SUFFICES ASSUME Len(s) > m PROVE s[Len(s) - m] <= y BY DEF DbAtMost
<1>1. Len(s) > n /\ Len(s) - n \in 1 .. Len(s) /\ Len(s) - m \in 1 .. Len(s) /\ Len(s) - m <= Len(s) - n BY <1>0
<1>2. s[Len(s) - m] <= s[Len(s) - n] /\ s[Len(s) - m] \in Nat /\ s[Len(s) - n] \in Nat
  <2>1. \A i, j \in 1 .. Len(s) : i <= j => s[i] <= s[j] BY <1>0 DEF DbStamps
  <2>2. \A i \in 1 .. Len(s) : s[i] \in Nat BY <1>0
  <2> QED BY <1>1, <2>1, <2>2
<1>3. s[Len(s) - n] <= x BY <1>1 DEF DbAtMost
<1> QED BY <1>2, <1>3

LEMMA DbShort ==
  ASSUME NEW s, NEW n \in Nat, Len(s) <= n, Len(s) \in Nat, NEW x
  PROVE  DbAtMost(s, x, n)
BY DEF DbAtMost

LEMMA DbOfOther ==
  ASSUME NEW f, NEW u, NEW n, n # u
  PROVE  /\ DbOf(Restrict(f, DOMAIN f \ {u}), n) = DbOf(f, n)
         /\ DbOf(Restrict(f, DOMAIN f \ {u}), u) = [stamps |-> <<>>, until |-> 0]
BY DEF DbOf, Restrict

\* Removing an account's record.
LEMMA DbDropped ==
  ASSUME NEW now \in Nat, NEW f, NEW g, NEW u \in DbAny, DbTallies(now, f, g), NEW h, DOMAIN h = DbAny,
         \A n \in DbAny \ {u} : h[n] = g[n], DbTallyOK(now, <<>>, 0, h[u])
  PROVE  DbTallies(now, Restrict(f, DOMAIN f \ {u}), h)
<1> DEFINE e == Restrict(f, DOMAIN f \ {u})
<1>1. DOMAIN e = DOMAIN f \ {u} /\ \A n \in DOMAIN e : e[n] = f[n] BY DEF Restrict
<1>2. DOMAIN e \subseteq DbAny /\ \A n \in DOMAIN e : e[n] \in [stamps : Seq(Nat), until : Nat] BY <1>1 DEF DbTallies
<1>3. IsFiniteSet(DOMAIN e) BY <1>1, FS_Subset DEF DbTallies
<1>4. \A n \in DbAny \ {u} : DbOf(e, n) = DbOf(f, n) BY <1>1 DEF DbOf
<1>5. DbOf(e, u).stamps = <<>> /\ DbOf(e, u).until = 0 BY <1>1 DEF DbOf
<1> HIDE DEF e
<1>6. ASSUME NEW n \in DbAny PROVE DbTallyOK(now, DbOf(e, n).stamps, DbOf(e, n).until, h[n])
  <2>1. CASE n = u BY <1>5, <2>1
  <2>2. CASE n # u
    <3>1. DbOf(e, n) = DbOf(f, n) /\ h[n] = g[n] BY <1>4, <2>2
    <3>2. DbTallyOK(now, DbOf(f, n).stamps, DbOf(f, n).until, g[n]) BY DEF DbTallies
    <3> QED BY <3>1, <3>2
  <2> QED BY <2>1, <2>2
<1>7. DbTallies(now, e, h) BY <1>2, <1>3, <1>6 DEF DbTallies
<1> QED BY <1>7 DEF e

\* One account's record replaced.
DbWith(f, u, p, v) == [n \in DOMAIN f \cup {u} |-> IF n = u THEN [stamps |-> p, until |-> v] ELSE f[n]]

LEMMA DbPut ==
  ASSUME NEW now \in Nat, NEW f, NEW g, NEW u \in DbAny, DbTallies(now, f, g), NEW h, DOMAIN h = DbAny,
         \A n \in DbAny \ {u} : h[n] = g[n], NEW p \in Seq(Nat), NEW v \in Nat, DbTallyOK(now, p, v, h[u])
  PROVE  DbTallies(now, DbWith(f, u, p, v), h)
<1> DEFINE rec == [stamps |-> p, until |-> v]
           e == DbWith(f, u, p, v)
<1>0. rec \in [stamps : Seq(Nat), until : Nat] /\ rec.stamps = p /\ rec.until = v OBVIOUS
<1> HIDE DEF rec
<1>1. DOMAIN e = DOMAIN f \cup {u} /\ e[u] = rec /\ \A n \in DOMAIN f \ {u} : e[n] = f[n] BY DEF DbWith, rec
<1> HIDE DEF e
<1>2. DOMAIN e \subseteq DbAny /\ \A n \in DOMAIN e : e[n] \in [stamps : Seq(Nat), until : Nat] BY <1>0, <1>1 DEF DbTallies
<1>3. IsFiniteSet(DOMAIN e)
  <2>1. IsFiniteSet(DOMAIN f) BY DEF DbTallies
  <2> QED BY <1>1, <2>1, FS_AddElement
<1>4. \A n \in DbAny \ {u} : DbOf(e, n) = DbOf(f, n) BY <1>1 DEF DbOf
<1>5. DbOf(e, u) = rec BY <1>1 DEF DbOf
<1>6. ASSUME NEW n \in DbAny PROVE DbTallyOK(now, DbOf(e, n).stamps, DbOf(e, n).until, h[n])
  <2>1. CASE n = u BY <1>0, <1>5, <2>1
  <2>2. CASE n # u
    <3>1. DbOf(e, n) = DbOf(f, n) /\ h[n] = g[n] BY <1>4, <2>2
    <3>2. DbTallyOK(now, DbOf(f, n).stamps, DbOf(f, n).until, g[n]) BY DEF DbTallies
    <3> QED BY <3>1, <3>2
  <2> QED BY <2>1, <2>2
<1>7. DbTallies(now, e, h) BY <1>2, <1>3, <1>6 DEF DbTallies
<1> QED BY <1>7 DEF e

\* A record with its stamps trimmed.
DbTrimmed(rec) == [rec EXCEPT !.stamps = DbTrim(@)]

LEMMA DbTrimmedIs ==
  ASSUME NEW rec, rec \in [stamps : Seq(Nat), until : Nat], dbNow \in Nat, DbStamps(dbNow, rec.stamps)
  PROVE  /\ DbTrimmed(rec) \in [stamps : Seq(Nat), until : Nat] /\ DbTrimmed(rec).until = rec.until
         /\ DbTrimmed(rec).stamps = DbTrim(rec.stamps)
<1>1. PICK k : DbCut(dbNow, rec.stamps, DbTrim(rec.stamps), k) BY DbTrimIs
<1>2. DbTrim(rec.stamps) \in Seq(Nat) BY <1>1 DEF DbCut
<1> QED BY <1>2 DEF DbTrimmed

\* The map kept bounded: what is dropped had nothing left to say.
LEMMA DbPrunedTallies ==
  ASSUME dbNow \in Nat, NEW f, NEW g, DbTallies(dbNow, f, g)
  PROVE  /\ DbTallies(dbNow, DbPruned(f), g) /\ DOMAIN DbPruned(f) \subseteq DOMAIN f
         /\ Cardinality(DOMAIN f) <= DbGlobalMax => DbPruned(f) = f
         /\ ~(Cardinality(DOMAIN f) <= DbGlobalMax) =>
              \A n \in DOMAIN DbPruned(f) : /\ DbPruned(f)[n] = DbTrimmed(f[n])
                                            /\ DbTrimmed(f[n]).stamps # <<>> \/ dbNow < DbTrimmed(f[n]).until
<1>1. CASE Cardinality(DOMAIN f) <= DbGlobalMax BY <1>1 DEF DbPruned
<1>2. CASE ~(Cardinality(DOMAIN f) <= DbGlobalMax)
  <2> DEFINE K == {n \in DOMAIN f : DbTrim(f[n].stamps) # <<>> \/ dbNow < f[n].until}
             e == DbPruned(f)
  <2>1. e = Restrict([n \in DOMAIN f |-> DbTrimmed(f[n])], K) BY <1>2 DEF DbPruned, DbTrimmed
  <2>2. DOMAIN e = K /\ \A n \in K : e[n] = DbTrimmed(f[n]) BY <2>1 DEF Restrict
  <2> HIDE DEF e
  <2>3. ASSUME NEW n \in DOMAIN f
        PROVE  /\ f[n] \in [stamps : Seq(Nat), until : Nat] /\ DbTallyOK(dbNow, f[n].stamps, f[n].until, g[n]) /\ n \in DbAny
               /\ DbTrimmed(f[n]) \in [stamps : Seq(Nat), until : Nat] /\ DbTrimmed(f[n]).until = f[n].until
               /\ DbTrimmed(f[n]).stamps = DbTrim(f[n].stamps)
               /\ DbTallyOK(dbNow, DbTrim(f[n].stamps), f[n].until, g[n])
    <3>1. f[n] \in [stamps : Seq(Nat), until : Nat] /\ n \in DbAny BY DEF DbTallies
    <3>2. DbTallyOK(dbNow, f[n].stamps, f[n].until, g[n]) BY <3>1 DEF DbTallies, DbOf
    <3>3. DbStamps(dbNow, f[n].stamps) BY <3>2, DbTallyFacts
    <3>4. PICK k : DbCut(dbNow, f[n].stamps, DbTrim(f[n].stamps), k) BY <3>3, DbTrimIs
    <3>5. DbTallyOK(dbNow, DbTrim(f[n].stamps), f[n].until, g[n]) BY <3>2, <3>4, DbTallyTrim
    <3> QED BY <3>1, <3>2, <3>3, <3>5, DbTrimmedIs
  <2>4. IsFiniteSet(DOMAIN e)
    <3>1. IsFiniteSet(DOMAIN f) BY DEF DbTallies
    <3>2. K \subseteq DOMAIN f OBVIOUS
    <3> QED BY <2>2, <3>1, <3>2, FS_Subset
  <2>5. \A n \in DOMAIN e : e[n] \in [stamps : Seq(Nat), until : Nat] /\ n \in DbAny BY <2>2, <2>3
  <2>6. ASSUME NEW n \in DbAny PROVE DbTallyOK(dbNow, DbOf(e, n).stamps, DbOf(e, n).until, g[n])
    <3>1. CASE n \in K
      <4>1. DbOf(e, n) = DbTrimmed(f[n]) BY <2>2, <3>1 DEF DbOf
      <4> QED BY <2>3, <3>1, <4>1
    <3>2. CASE n \notin K
      <4>1. DbOf(e, n).stamps = <<>> /\ DbOf(e, n).until = 0 BY <2>2, <3>2 DEF DbOf
      <4>2. \E p, v : DbTallyOK(dbNow, p, v, g[n]) /\ p = <<>>
        <5>1. CASE n \in DOMAIN f
          <6>1. DbTrim(f[n].stamps) = <<>> BY <3>2, <5>1
          <6> QED BY <2>3, <5>1, <6>1
        <5>2. CASE n \notin DOMAIN f
          <6>1. DbOf(f, n).stamps = <<>> BY <5>2 DEF DbOf
          <6>2. DbTallyOK(dbNow, DbOf(f, n).stamps, DbOf(f, n).until, g[n]) BY DEF DbTallies
          <6> QED BY <6>1, <6>2
        <5> QED BY <5>1, <5>2
      <4>3. DbTallyOK(dbNow, <<>>, 0, g[n]) BY <4>2, DbTallyClean
      <4> QED BY <4>1, <4>3
    <3> QED BY <3>1, <3>2
  <2>7. DbTallies(dbNow, e, g) BY <2>4, <2>5, <2>6 DEF DbTallies
  <2>8. \A n \in DOMAIN e : e[n] = DbTrimmed(f[n]) /\ (DbTrimmed(f[n]).stamps # <<>> \/ dbNow < DbTrimmed(f[n]).until)
    BY <2>2, <2>3
  <2>9. DOMAIN e \subseteq DOMAIN f BY <2>2
  <2> HIDE DEF K
  <2> QED BY <1>2, <2>7, <2>8, <2>9 DEF e
<1> QED BY <1>1, <1>2

\* RecordFailure on the records.
LEMMA DbFailedTallies ==
  ASSUME dbNow \in Nat, NEW u \in DbAny, DbTallies(dbNow, dbFail, dbGuesses)
  PROVE  \E v \in Nat :
           LET p == Append(DbTrim(DbOf(dbFail, u).stamps), dbNow)
           IN  /\ p \in Seq(Nat) /\ DbFailed(u) = DbPruned(DbWith(dbFail, u, p, v))
               /\ DbTallies(dbNow, DbWith(dbFail, u, p, v), [dbGuesses EXCEPT ![u] = Append(@, dbNow)])
<1> DEFINE o == DbOf(dbFail, u)
           t == DbTrim(o.stamps)
           p == Append(t, dbNow)
           v == IF Len(p) >= DbMax THEN dbNow + DbLockout ELSE o.until
           h == [dbGuesses EXCEPT ![u] = Append(@, dbNow)]
           f == DbWith(dbFail, u, p, v)
<1>1. DbTallyOK(dbNow, o.stamps, o.until, dbGuesses[u]) BY DEF DbTallies
<1>2. DbStamps(dbNow, o.stamps) BY <1>1, DbTallyFacts
<1>3. PICK k : DbCut(dbNow, o.stamps, t, k) BY <1>2, DbTrimIs
<1>4. DbTallyOK(dbNow, t, o.until, dbGuesses[u])
  <2> HIDE DEF o, t
  <2> QED BY <1>1, <1>3, DbTallyTrim
<1>5. DbTallyOK(dbNow, p, v, Append(dbGuesses[u], dbNow))
  <2> HIDE DEF o, t
  <2> QED BY <1>4, DbTallyFail
<1>6. DOMAIN h = DbAny /\ h[u] = Append(dbGuesses[u], dbNow) /\ \A n \in DbAny \ {u} : h[n] = dbGuesses[n] BY DEF DbTallies
<1>7. p \in Seq(Nat) /\ v \in Nat
  <2> HIDE DEF p, v
  <2> QED BY <1>5, DbTallyFacts
<1>8. DbFailed(u) = DbPruned(f)
  <2>1. dbNow + DbLockout # 0 BY DbNumbers
  <2>2. (IF DbUntil(p) # 0 THEN DbUntil(p) ELSE o.until) = v BY <2>1 DEF DbUntil
  <2>3. DbFailed(u) = DbPruned([n \in DOMAIN dbFail \cup {u} |->
          IF n = u THEN [stamps |-> p, until |-> IF DbUntil(p) # 0 THEN DbUntil(p) ELSE o.until] ELSE dbFail[n]])
    BY DEF DbFailed, DbOf
  <2> HIDE DEF p, v, o
  <2> QED BY <2>2, <2>3 DEF DbWith
<1> HIDE DEF p, v, h
<1>9. DbTallies(dbNow, f, h) BY <1>5, <1>6, <1>7, DbPut
<1>10. \E w \in Nat : p \in Seq(Nat) /\ DbFailed(u) = DbPruned(DbWith(dbFail, u, p, w))
                      /\ DbTallies(dbNow, DbWith(dbFail, u, p, w), h)
  BY <1>7, <1>8, <1>9
<1> QED BY <1>10 DEF h, p

\* The accounts with a stamp, or a failure that locked them, later than x.
DbFresh(f, x) == {u \in DOMAIN f : f[u].until - DbLockout > x \/ \E i \in DOMAIN f[u].stamps : f[u].stamps[i] > x}

\* Each of them has a stamp of its own in the global list.
DbMemory(now, f, gl) ==
    \A n \in Nat, x \in Int : x >= now - DbWindow /\ DbAtMost(gl, x, n) => Cardinality(DbFresh(f, x)) <= n

LEMMA DbMemoryLess ==
  ASSUME NEW now \in Nat, NEW f, NEW gl, DbMemory(now, f, gl), NEW e, IsFiniteSet(DOMAIN f),
         DOMAIN e \subseteq DOMAIN f, \A u \in DOMAIN e : e[u] = f[u], NEW hl,
         \A n \in Nat, x \in Int : x >= now - DbWindow /\ DbAtMost(hl, x, n) => DbAtMost(gl, x, n)
  PROVE  DbMemory(now, e, hl)
<1> SUFFICES ASSUME NEW n \in Nat, NEW x \in Int, x >= now - DbWindow, DbAtMost(hl, x, n) PROVE Cardinality(DbFresh(e, x)) <= n
  BY DEF DbMemory
<1>1. DbFresh(e, x) \subseteq DbFresh(f, x) /\ DbFresh(f, x) \subseteq DOMAIN f BY DEF DbFresh
<1>2. Cardinality(DbFresh(f, x)) <= n BY DEF DbMemory
<1>3. IsFiniteSet(DbFresh(f, x)) BY <1>1, FS_Subset
<1>4. Cardinality(DbFresh(e, x)) <= Cardinality(DbFresh(f, x)) /\ IsFiniteSet(DbFresh(e, x)) BY <1>1, <1>3, FS_Subset
<1>5. Cardinality(DbFresh(e, x)) \in Nat /\ Cardinality(DbFresh(f, x)) \in Nat BY <1>3, <1>4, FS_CardinalityType
<1> QED BY <1>2, <1>4, <1>5

LEMMA DbMemoryTick ==
  ASSUME NEW now \in Nat, NEW f, NEW gl, DbMemory(now, f, gl)
  PROVE  DbMemory(now + 1, f, gl)
<1>1. DbWindow \in Nat BY DbNumbers
<1> SUFFICES ASSUME NEW n \in Nat, NEW x \in Int, x >= (now + 1) - DbWindow, DbAtMost(gl, x, n)
             PROVE  Cardinality(DbFresh(f, x)) <= n
  BY DEF DbMemory
<1>2. x >= now - DbWindow BY <1>1
<1> QED BY <1>2 DEF DbMemory

LEMMA DbMemoryFail ==
  ASSUME dbNow \in Nat, NEW f, NEW g, DbTallies(dbNow, f, g), NEW gl, DbStamps(dbNow, gl), DbMemory(dbNow, f, gl),
         NEW u \in DbAny, NEW p, NEW v, NEW h, DbTallies(dbNow, DbWith(f, u, p, v), h)
  PROVE  DbMemory(dbNow, DbPruned(DbWith(f, u, p, v)), Append(DbTrim(gl), dbNow))
<1> DEFINE e == DbWith(f, u, p, v)
           d == DbPruned(e)
           t == DbTrim(gl)
<1>0. IsFiniteSet(DOMAIN f) /\ DbWindow \in Nat \ {0} /\ DbLockout \in Nat BY DbNumbers DEF DbTallies
<1>1. PICK k : DbCut(dbNow, gl, t, k) BY DbTrimIs
<1>2. DbStamps(dbNow, t) BY <1>1, DbCutStamps
<1>3. \A n \in DOMAIN e \ {u} : n \in DOMAIN f /\ e[n] = f[n] BY DEF DbWith
<1>4. /\ DbTallies(dbNow, d, h) /\ DOMAIN d \subseteq DOMAIN e
      /\ Cardinality(DOMAIN e) <= DbGlobalMax => d = e
      /\ ~(Cardinality(DOMAIN e) <= DbGlobalMax) => \A n \in DOMAIN d : d[n] = DbTrimmed(e[n])
  <2>1. DbTallies(dbNow, e, h) OBVIOUS
  <2> HIDE DEF e
  <2> QED BY <2>1, DbPrunedTallies
<1>5. ASSUME NEW n \in DOMAIN d, n # u
      PROVE  /\ n \in DOMAIN f /\ d[n].until = f[n].until
             /\ \A i \in DOMAIN d[n].stamps : \E j \in DOMAIN f[n].stamps : d[n].stamps[i] = f[n].stamps[j]
  <2>1. n \in DOMAIN f /\ e[n] = f[n] BY <1>3, <1>4, <1>5
  <2>2. CASE Cardinality(DOMAIN e) <= DbGlobalMax
    <3>1. d[n] = f[n] BY <1>4, <2>1, <2>2
    <3> QED BY <2>1, <3>1
  <2>3. CASE ~(Cardinality(DOMAIN e) <= DbGlobalMax)
    <3>1. d[n] = DbTrimmed(f[n]) BY <1>4, <2>1, <2>3
    <3>2. f[n] \in [stamps : Seq(Nat), until : Nat] /\ DbStamps(dbNow, f[n].stamps)
      <4>1. n \in DbAny BY <2>1 DEF DbTallies
      <4>2. DbTallyOK(dbNow, f[n].stamps, f[n].until, g[n]) BY <2>1, <4>1 DEF DbTallies, DbOf
      <4> QED BY <2>1, <4>2, DbTallyFacts DEF DbTallies
    <3>3. d[n].until = f[n].until /\ d[n].stamps = DbTrim(f[n].stamps) BY <3>1, <3>2, DbTrimmedIs
    <3>4. PICK c \in 0 .. Len(f[n].stamps) : DbCut(dbNow, f[n].stamps, DbTrim(f[n].stamps), c) BY <3>2, DbTrimIs
    <3> DEFINE s == f[n].stamps
               m == DbTrim(s)
    <3>5. s \in Seq(Nat) /\ DOMAIN s = 1 .. Len(s) /\ Len(s) \in Nat BY <3>2 DEF DbStamps
    <3>6. m \in Seq(Nat) /\ Len(m) = Len(s) - c /\ \A i \in 1 .. Len(m) : m[i] = s[c + i] BY <3>4 DEF DbCut
    <3> HIDE DEF s, m
    <3>7. DOMAIN m = 1 .. Len(m) /\ \A i \in 1 .. Len(m) : c + i \in 1 .. Len(s)
      <4>1. c \in 0 .. Len(s) BY <3>4 DEF s
      <4>2. DOMAIN m = 1 .. Len(m) BY <3>6
      <4>3. \A i \in 1 .. Len(m) : c + i \in 1 .. Len(s) BY <3>5, <3>6, <4>1
      <4> QED BY <4>2, <4>3
    <3>8. \A i \in DOMAIN m : \E j \in DOMAIN s : m[i] = s[j] BY <3>5, <3>6, <3>7
    <3> QED BY <2>1, <3>3, <3>8 DEF s, m
  <2> QED BY <2>2, <2>3
<1>6. ASSUME NEW n \in DOMAIN d
      PROVE  d[n].until - DbLockout <= dbNow /\ \A i \in DOMAIN d[n].stamps : d[n].stamps[i] <= dbNow
  <2>1. n \in DbAny BY <1>4 DEF DbTallies
  <2>2. DbTallyOK(dbNow, d[n].stamps, d[n].until, h[n]) BY <1>4, <2>1 DEF DbTallies, DbOf
  <2>3. DbStamps(dbNow, d[n].stamps) /\ d[n].until \in Nat BY <2>2, DbTallyFacts
  <2>4. d[n].until <= dbNow + DbLockout BY <2>2 DEF DbTallyOK
  <2> QED BY <1>0, <2>3, <2>4 DEF DbStamps
<1> SUFFICES ASSUME NEW n \in Nat, NEW x \in Int, x >= dbNow - DbWindow, DbAtMost(Append(t, dbNow), x, n)
             PROVE  Cardinality(DbFresh(d, x)) <= n
  BY DEF DbMemory
<1> HIDE DEF d, e, t
<1>7. CASE x < dbNow
  <2>1. n > 0 /\ DbAtMost(t, x, n - 1) BY <1>2, <1>7, DbPushed
  <2>2. n - 1 \in Nat BY <2>1
  <2>3. DbAtMost(gl, x, n - 1) BY <1>1, <2>1, <2>2, DbCutAtMost
  <2>4. Cardinality(DbFresh(f, x)) <= n - 1 BY <2>2, <2>3 DEF DbMemory
  <2>5. DbFresh(d, x) \subseteq DbFresh(f, x) \cup {u}
    <3> SUFFICES ASSUME NEW a \in DbFresh(d, x), a # u PROVE a \in DbFresh(f, x) OBVIOUS
    <3>1. a \in DOMAIN d BY DEF DbFresh
    <3>2. /\ a \in DOMAIN f /\ d[a].until = f[a].until
          /\ \A i \in DOMAIN d[a].stamps : \E j \in DOMAIN f[a].stamps : d[a].stamps[i] = f[a].stamps[j]
      BY <1>5, <3>1
    <3> QED BY <3>2 DEF DbFresh
  <2>6. IsFiniteSet(DbFresh(f, x))
    <3>1. DbFresh(f, x) \subseteq DOMAIN f BY DEF DbFresh
    <3> QED BY <1>0, <3>1, FS_Subset
  <2>7. /\ IsFiniteSet(DbFresh(f, x) \cup {u}) /\ Cardinality(DbFresh(f, x)) \in Nat
        /\ Cardinality(DbFresh(f, x) \cup {u}) <= Cardinality(DbFresh(f, x)) + 1
    <3>1. IsFiniteSet(DbFresh(f, x) \cup {u}) BY <2>6, FS_AddElement
    <3>2. Cardinality(DbFresh(f, x)) \in Nat BY <2>6, FS_CardinalityType
    <3>3. Cardinality(DbFresh(f, x) \cup {u}) =
            IF u \in DbFresh(f, x) THEN Cardinality(DbFresh(f, x)) ELSE Cardinality(DbFresh(f, x)) + 1
      BY <2>6, FS_AddElement
    <3> QED BY <3>1, <3>2, <3>3
  <2>8. Cardinality(DbFresh(d, x)) <= Cardinality(DbFresh(f, x) \cup {u}) /\ IsFiniteSet(DbFresh(d, x))
    BY <2>5, <2>7, FS_Subset
  <2>9. Cardinality(DbFresh(d, x)) \in Nat /\ Cardinality(DbFresh(f, x) \cup {u}) \in Nat BY <2>7, <2>8, FS_CardinalityType
  <2> QED BY <2>4, <2>7, <2>8, <2>9
<1>8. CASE ~(x < dbNow)
  <2>1. DbFresh(d, x) = {}
    <3> SUFFICES ASSUME NEW a \in DbFresh(d, x) PROVE FALSE OBVIOUS
    <3>1. a \in DOMAIN d BY DEF DbFresh
    <3>2. d[a].until - DbLockout <= dbNow /\ \A i \in DOMAIN d[a].stamps : d[a].stamps[i] <= dbNow BY <1>6, <3>1
    <3>3. /\ a \in DbAny /\ d[a] \in [stamps : Seq(Nat), until : Nat] BY <1>4, <3>1 DEF DbTallies
    <3>4. d[a].until \in Nat /\ d[a].stamps \in Seq(Nat) BY <3>3
    <3>5. \A i \in DOMAIN d[a].stamps : d[a].stamps[i] \in Nat BY <3>4
    <3>6. ~(d[a].until - DbLockout > x) BY <1>0, <1>8, <3>2, <3>4
    <3>7. \A i \in DOMAIN d[a].stamps : ~(d[a].stamps[i] > x) BY <1>8, <3>2, <3>5
    <3> QED BY <3>6, <3>7 DEF DbFresh
  <2>2. Cardinality(DbFresh(d, x)) = 0 BY <2>1, FS_EmptySet
  <2> QED BY <2>2
<1> QED BY <1>7, <1>8

DbThrottleOK == DbTallies(dbNow, dbFail, dbGuesses) /\ DbGuessesOK /\ DbMemory(dbNow, dbFail, dbGlobal)

\* The map never outgrows the guesses the global throttle lets through.
DbSizeOK == Cardinality(DOMAIN dbFail) <= DbGlobalMax + Cardinality(DbReqs) - 1

LEMMA DbPart ==
  ASSUME NEW A \in SUBSET DbReqs
  PROVE  Cardinality(A) \in Nat /\ Cardinality(DbReqs) \in Nat /\ Cardinality(A) <= Cardinality(DbReqs)
<1>1. IsFiniteSet(DbReqs) BY DbNumbers
<1>2. IsFiniteSet(A) /\ Cardinality(A) <= Cardinality(DbReqs) BY <1>1, FS_Subset
<1> QED BY <1>1, <1>2, FS_CardinalityType

LEMMA DbQuotas ==
  /\ \A u : /\ DbQuota(u) \in Nat /\ 2 * (DbMax - 1) <= DbQuota(u) /\ DbQuota(u) <= 2 * (DbMax - 1) + Cardinality(DbReqs)
            /\ DbQuota(u)' \in Nat /\ 2 * (DbMax - 1) <= DbQuota(u)'
            /\ DbQuota(u)' - DbQuota(u) = Cardinality(DbTrying(u)) - Cardinality(DbTrying(u)')
  /\ DbQuotaAll \in Nat /\ DbGlobalMax - 1 <= DbQuotaAll /\ DbQuotaAll <= DbGlobalMax - 1 + Cardinality(DbReqs)
  /\ DbQuotaAll' \in Nat /\ DbGlobalMax - 1 <= DbQuotaAll'
  /\ DbQuotaAll' - DbQuotaAll = Cardinality(DbTryingAll) - Cardinality(DbTryingAll')
  /\ 2 * (DbMax - 1) \in Nat /\ DbGlobalMax - 1 \in Nat /\ Cardinality(DbReqs) \in Nat
<1>1. DbMax \in Nat \ {0} /\ DbGlobalMax \in Nat \ {0} BY DbNumbers
<1>2. DbTryingAll \in SUBSET DbReqs /\ DbTryingAll' \in SUBSET DbReqs BY DEF DbTryingAll
<1>3. \A u : DbTrying(u) \in SUBSET DbReqs /\ DbTrying(u)' \in SUBSET DbReqs BY DEF DbTrying
<1>4. /\ Cardinality(DbTryingAll) \in Nat /\ Cardinality(DbTryingAll) <= Cardinality(DbReqs) /\ Cardinality(DbReqs) \in Nat
      /\ Cardinality(DbTryingAll') \in Nat /\ Cardinality(DbTryingAll') <= Cardinality(DbReqs)
  BY <1>2, DbPart
<1>5. \A u : /\ Cardinality(DbTrying(u)) \in Nat /\ Cardinality(DbTrying(u)) <= Cardinality(DbReqs)
             /\ Cardinality(DbTrying(u)') \in Nat /\ Cardinality(DbTrying(u)') <= Cardinality(DbReqs)
  BY <1>3, DbPart
<1>6. \A m \in Nat \ {0}, n, a, b \in Nat :
        a <= n /\ b <= n =>
          /\ 2 * (m - 1) \in Nat /\ m - 1 \in Nat
          /\ 2 * (m - 1) + n - a \in Nat /\ 2 * (m - 1) <= 2 * (m - 1) + n - a /\ 2 * (m - 1) + n - a <= 2 * (m - 1) + n
          /\ m - 1 + n - a \in Nat /\ m - 1 <= m - 1 + n - a /\ m - 1 + n - a <= m - 1 + n
          /\ (2 * (m - 1) + n - b) - (2 * (m - 1) + n - a) = a - b /\ (m - 1 + n - b) - (m - 1 + n - a) = a - b
  OBVIOUS
<1>7. ASSUME NEW u
      PROVE /\ DbQuota(u) \in Nat /\ 2 * (DbMax - 1) <= DbQuota(u) /\ DbQuota(u) <= 2 * (DbMax - 1) + Cardinality(DbReqs)
            /\ DbQuota(u)' \in Nat /\ 2 * (DbMax - 1) <= DbQuota(u)'
            /\ DbQuota(u)' - DbQuota(u) = Cardinality(DbTrying(u)) - Cardinality(DbTrying(u)')
  <2>1. DbQuota(u) = 2 * (DbMax - 1) + Cardinality(DbReqs) - Cardinality(DbTrying(u)) BY DEF DbQuota
  <2>2. DbQuota(u)' = 2 * (DbMax - 1) + Cardinality(DbReqs) - Cardinality(DbTrying(u)') BY DEF DbQuota
  <2> QED BY <1>1, <1>4, <1>5, <1>6, <2>1, <2>2
<1>8. /\ DbQuotaAll \in Nat /\ DbGlobalMax - 1 <= DbQuotaAll /\ DbQuotaAll <= DbGlobalMax - 1 + Cardinality(DbReqs)
      /\ DbQuotaAll' \in Nat /\ DbGlobalMax - 1 <= DbQuotaAll'
      /\ DbQuotaAll' - DbQuotaAll = Cardinality(DbTryingAll) - Cardinality(DbTryingAll')
  <2>1. DbQuotaAll = DbGlobalMax - 1 + Cardinality(DbReqs) - Cardinality(DbTryingAll) BY DEF DbQuotaAll
  <2>2. DbQuotaAll' = DbGlobalMax - 1 + Cardinality(DbReqs) - Cardinality(DbTryingAll') BY DEF DbQuotaAll
  <2> QED BY <1>1, <1>4, <1>6, <2>1, <2>2
<1>9. 2 * (DbMax - 1) \in Nat /\ DbGlobalMax - 1 \in Nat BY <1>1
<1> QED BY <1>4, <1>7, <1>8, <1>9

\* A request that is not about to check a password any more frees its share.
LEMMA DbQuotaMoved ==
  ASSUME DOMAIN dbReq = DbReqs, NEW r \in DbReqs, NEW q, dbReq' = [dbReq EXCEPT ![r] = q], NEW w, w = dbReq[r].user
  PROVE  /\ \A u : q.pc # "verify" \/ q.user # u => DbQuota(u) <= DbQuota(u)'
         /\ q.pc # "verify" => DbQuotaAll <= DbQuotaAll'
         /\ dbReq[r].pc = "verify" /\ q.pc # "verify" =>
              DbQuota(w)' = DbQuota(w) + 1 /\ DbQuotaAll' = DbQuotaAll + 1
<1>1. dbReq'[r] = q /\ \A x \in DbReqs \ {r} : dbReq'[x] = dbReq[x] OBVIOUS
<1>2. ASSUME NEW u
      PROVE /\ Cardinality(DbTrying(u)) \in Nat /\ Cardinality(DbTrying(u)') \in Nat
            /\ q.pc # "verify" \/ q.user # u => Cardinality(DbTrying(u)') <= Cardinality(DbTrying(u))
            /\ dbReq[r].pc = "verify" /\ q.pc # "verify" /\ dbReq[r].user = u =>
                 Cardinality(DbTrying(u)) = Cardinality(DbTrying(u)') + 1
  <2> DEFINE A == DbTrying(u)
             B == DbTrying(u)'
  <2>1. A \in SUBSET DbReqs /\ B \in SUBSET DbReqs /\ \A x \in DbReqs \ {r} : x \in A <=> x \in B BY <1>1 DEF DbTrying
  <2>2. (r \in A <=> dbReq[r].pc = "verify" /\ dbReq[r].user = u) /\ (r \in B <=> q.pc = "verify" /\ q.user = u)
    BY <1>1 DEF DbTrying
  <2> HIDE DEF A, B
  <2>3. /\ Cardinality(A) \in Nat /\ Cardinality(B) \in Nat
        /\ r \in A /\ r \notin B => Cardinality(A) = Cardinality(B) + 1
        /\ (r \in A <=> r \in B) => Cardinality(B) = Cardinality(A)
    BY <2>1, DbCount
  <2>4. q.pc # "verify" \/ q.user # u => Cardinality(B) <= Cardinality(A)
    <3> SUFFICES ASSUME q.pc # "verify" \/ q.user # u PROVE Cardinality(B) <= Cardinality(A) OBVIOUS
    <3>1. r \notin B BY <2>2
    <3>2. CASE r \in A BY <2>3, <3>1, <3>2
    <3>3. CASE r \notin A BY <2>3, <3>1, <3>3
    <3> QED BY <3>2, <3>3
  <2> QED BY <2>2, <2>3, <2>4 DEF A, B
<1>3. /\ Cardinality(DbTryingAll) \in Nat /\ Cardinality(DbTryingAll') \in Nat
      /\ q.pc # "verify" => Cardinality(DbTryingAll') <= Cardinality(DbTryingAll)
      /\ dbReq[r].pc = "verify" /\ q.pc # "verify" => Cardinality(DbTryingAll) = Cardinality(DbTryingAll') + 1
  <2> DEFINE A == DbTryingAll
             B == DbTryingAll'
  <2>1. A \in SUBSET DbReqs /\ B \in SUBSET DbReqs /\ \A x \in DbReqs \ {r} : x \in A <=> x \in B BY <1>1 DEF DbTryingAll
  <2>2. (r \in A <=> dbReq[r].pc = "verify") /\ (r \in B <=> q.pc = "verify") BY <1>1 DEF DbTryingAll
  <2> HIDE DEF A, B
  <2>3. /\ Cardinality(A) \in Nat /\ Cardinality(B) \in Nat
        /\ r \in A /\ r \notin B => Cardinality(A) = Cardinality(B) + 1
        /\ (r \in A <=> r \in B) => Cardinality(B) = Cardinality(A)
    BY <2>1, DbCount
  <2>4. q.pc # "verify" => Cardinality(B) <= Cardinality(A)
    <3> SUFFICES ASSUME q.pc # "verify" PROVE Cardinality(B) <= Cardinality(A) OBVIOUS
    <3>1. r \notin B BY <2>2
    <3>2. CASE r \in A BY <2>3, <3>1, <3>2
    <3>3. CASE r \notin A BY <2>3, <3>1, <3>3
    <3> QED BY <3>2, <3>3
  <2> QED BY <2>2, <2>3, <2>4 DEF A, B
<1>4. \A a, b, x, y \in Nat : y - x = a - b => (b <= a => x <= y) /\ (a = b + 1 => y = x + 1) OBVIOUS
<1>5. ASSUME NEW u
      PROVE /\ q.pc # "verify" \/ q.user # u => DbQuota(u) <= DbQuota(u)'
            /\ dbReq[r].pc = "verify" /\ q.pc # "verify" /\ dbReq[r].user = u => DbQuota(u)' = DbQuota(u) + 1
  <2>1. DbQuota(u) \in Nat /\ DbQuota(u)' \in Nat /\ DbQuota(u)' - DbQuota(u) = Cardinality(DbTrying(u)) - Cardinality(DbTrying(u)')
    BY DbQuotas
  <2> QED BY <1>2, <1>4, <2>1
<1>6. /\ q.pc # "verify" => DbQuotaAll <= DbQuotaAll'
      /\ dbReq[r].pc = "verify" /\ q.pc # "verify" => DbQuotaAll' = DbQuotaAll + 1
  <2>1. /\ DbQuotaAll \in Nat /\ DbQuotaAll' \in Nat
        /\ DbQuotaAll' - DbQuotaAll = Cardinality(DbTryingAll) - Cardinality(DbTryingAll')
    BY DbQuotas
  <2> QED BY <1>3, <1>4, <2>1
<1> QED BY <1>5, <1>6

LEMMA DbThrottleAllowed ==
  ASSUME DbReqsOK, DbThrottleOK, NEW r \in DbReqs, NEW u \in DbAny, NEW good \in BOOLEAN, DbLoginAllowed(r, u, good)
  PROVE  DbThrottleOK' /\ DOMAIN dbFail' \subseteq DOMAIN dbFail
<1> DEFINE q == [DbIdle EXCEPT !.pc = "verify", !.user = u, !.good = good]
           g == DbTrim(dbGlobal)
<1>0. dbNow \in Nat /\ DbWindow \in Nat /\ DbStamps(dbNow, dbGlobal) BY DbNumbers DEF DbReqsOK, DbThrottleOK, DbGuessesOK
<1>1. /\ dbGlobal' = g /\ dbReq' = [dbReq EXCEPT ![r] = q] /\ UNCHANGED <<dbNow, dbGuesses>>
      /\ dbFail' = (IF DbUnlocked(u) THEN Restrict(dbFail, DOMAIN dbFail \ {u}) ELSE dbFail)
      /\ Len(g) < DbGlobalMax /\ ~DbLocked(u)
  BY DEF DbLoginAllowed, DbAllow
<1>2. DOMAIN dbReq = DbReqs BY DEF DbReqsOK
<1>3. q.user = u /\ q.pc = "verify" BY DbVerifyGood
<1>4. PICK k : DbCut(dbNow, dbGlobal, g, k) BY <1>0, DbTrimIs
<1>5. DbStamps(dbNow, g) BY <1>0, <1>4, DbCutStamps
<1> HIDE DEF q, g
<1>6. DbTallies(dbNow, dbFail, dbGuesses) BY DEF DbThrottleOK
<1>7. DbTallyOK(dbNow, DbOf(dbFail, u).stamps, DbOf(dbFail, u).until, dbGuesses[u]) BY <1>6 DEF DbTallies
<1>8. DbOf(dbFail, u).until <= dbNow
  <2>1. CASE u \in DOMAIN dbFail
    <3>1. dbFail[u] \in [stamps : Seq(Nat), until : Nat] BY <1>6, <2>1 DEF DbTallies
    <3> QED BY <1>0, <1>1, <2>1, <3>1 DEF DbOf, DbLocked
  <2>2. CASE u \notin DOMAIN dbFail BY <1>0, <2>2 DEF DbOf
  <2> QED BY <2>1, <2>2
<1>9. DbTallies(dbNow, dbFail', dbGuesses)
  <2>1. CASE DbUnlocked(u)
    <3>1. u \in DOMAIN dbFail /\ DbOf(dbFail, u).until # 0 BY <2>1 DEF DbUnlocked, DbOf
    <3>2. DbTallyOK(dbNow, <<>>, 0, dbGuesses[u]) BY <1>0, <1>7, <1>8, <3>1, DbTallyForget
    <3>3. DOMAIN dbGuesses = DbAny BY <1>6 DEF DbTallies
    <3>4. DbTallies(dbNow, Restrict(dbFail, DOMAIN dbFail \ {u}), dbGuesses) BY <1>0, <1>6, <3>2, <3>3, DbDropped
    <3> QED BY <1>1, <2>1, <3>4
  <2>2. CASE ~DbUnlocked(u) BY <1>1, <1>6, <2>2
  <2> QED BY <2>1, <2>2
<1>10. DOMAIN dbFail' \subseteq DOMAIN dbFail /\ \A n \in DOMAIN dbFail' : dbFail'[n] = dbFail[n]
  BY <1>1 DEF Restrict
<1>11. DbAtMost(g, dbNow - DbWindow, DbQuotaAll')
  <2>1. g \in Seq(Nat) /\ Len(g) \in Nat BY <1>5 DEF DbStamps
  <2>2. DbQuotaAll' \in Nat /\ DbGlobalMax - 1 <= DbQuotaAll' /\ DbGlobalMax - 1 \in Nat BY DbQuotas
  <2>3. DbGlobalMax \in Nat BY DbNumbers
  <2>4. Len(g) <= DbQuotaAll' BY <1>1, <2>1, <2>2, <2>3
  <2> QED BY <2>1, <2>2, <2>4, DbShort
<1>12. ASSUME NEW x \in DbAny PROVE DbAtMost(dbGuesses[x], dbNow - DbWindow, DbQuota(x)')
  <2>0. DbStamps(dbNow, dbGuesses[x]) BY <1>6 DEF DbTallies, DbTallyOK
  <2>1. /\ DbQuota(x) \in Nat /\ DbQuota(x)' \in Nat /\ 2 * (DbMax - 1) \in Nat /\ 2 * (DbMax - 1) <= DbQuota(x)'
    BY DbQuotas
  <2>2. dbNow - DbWindow \in Int BY <1>0
  <2>3. CASE x = u
    <3>1. DbAtMost(dbGuesses[u], dbNow - DbWindow, 2 * (DbMax - 1)) BY <1>0, <1>7, <1>8, DbTallyAllowed
    <3> QED BY <1>0, <2>0, <2>1, <2>2, <2>3, <3>1, DbAtMostMore
  <2>4. CASE x # u
    <3>1. DbQuota(x) <= DbQuota(x)' BY <1>1, <1>2, <1>3, <2>4, DbQuotaMoved
    <3>2. DbAtMost(dbGuesses[x], dbNow - DbWindow, DbQuota(x)) BY DEF DbThrottleOK, DbGuessesOK
    <3> QED BY <1>0, <2>0, <2>1, <2>2, <3>1, <3>2, DbAtMostMore
  <2> QED BY <2>3, <2>4
<1>13. DbGuessesOK' BY <1>1, <1>5, <1>11, <1>12 DEF DbGuessesOK
<1>14. DbMemory(dbNow, dbFail', g)
  <2>1. \A n \in Nat, x \in Int : x >= dbNow - DbWindow /\ DbAtMost(g, x, n) => DbAtMost(dbGlobal, x, n)
    BY <1>0, <1>4, DbCutAtMost
  <2>2. DbMemory(dbNow, dbFail, dbGlobal) /\ IsFiniteSet(DOMAIN dbFail) BY <1>6 DEF DbThrottleOK, DbTallies
  <2> QED BY <1>0, <1>10, <2>1, <2>2, DbMemoryLess
<1>15. DbTallies(dbNow, dbFail, dbGuesses)' BY <1>1, <1>9 DEF DbTallies
<1>16. DbMemory(dbNow, dbFail, dbGlobal)' BY <1>1, <1>14 DEF DbMemory, DbFresh
<1> QED BY <1>10, <1>13, <1>15, <1>16 DEF DbThrottleOK

LEMMA DbThrottleRefused ==
  ASSUME DbReqsOK, DbThrottleOK, NEW u, DbLoginRefused(u)
  PROVE  DbThrottleOK'
<1> DEFINE g == DbTrim(dbGlobal)
<1>0. dbNow \in Nat /\ DbWindow \in Nat /\ DbStamps(dbNow, dbGlobal) BY DbNumbers DEF DbReqsOK, DbThrottleOK, DbGuessesOK
<1>1. dbGlobal' = g /\ UNCHANGED <<dbNow, dbGuesses, dbFail, dbReq>> BY DEF DbLoginRefused
<1>2. PICK k : DbCut(dbNow, dbGlobal, g, k) BY <1>0, DbTrimIs
<1>3. DbStamps(dbNow, g) BY <1>0, <1>2, DbCutStamps
<1> HIDE DEF g
<1>4. DbTallies(dbNow, dbFail, dbGuesses) BY DEF DbThrottleOK
<1>5. DbAtMost(g, dbNow - DbWindow, DbQuotaAll)
  <2>1. DbQuotaAll \in Nat BY DbQuotas
  <2>2. dbNow - DbWindow \in Int BY <1>0
  <2>3. DbAtMost(dbGlobal, dbNow - DbWindow, DbQuotaAll) BY DEF DbThrottleOK, DbGuessesOK
  <2> QED BY <1>0, <1>2, <2>1, <2>2, <2>3, DbCutAtMost
<1>6. DbQuotaAll' = DbQuotaAll /\ \A x : DbQuota(x)' = DbQuota(x)
  BY <1>1 DEF DbQuotaAll, DbQuota, DbTryingAll, DbTrying
<1>7. DbGuessesOK'
  <2>1. \A x \in DbAny : DbAtMost(dbGuesses[x], dbNow - DbWindow, DbQuota(x)) BY DEF DbThrottleOK, DbGuessesOK
  <2> QED BY <1>1, <1>3, <1>5, <1>6, <2>1 DEF DbGuessesOK
<1>8. DbMemory(dbNow, dbFail, g)
  <2>1. \A n \in Nat, x \in Int : x >= dbNow - DbWindow /\ DbAtMost(g, x, n) => DbAtMost(dbGlobal, x, n)
    BY <1>0, <1>2, DbCutAtMost
  <2>2. DbMemory(dbNow, dbFail, dbGlobal) /\ IsFiniteSet(DOMAIN dbFail) BY <1>4 DEF DbThrottleOK, DbTallies
  <2> QED BY <1>0, <2>1, <2>2, DbMemoryLess
<1>9. DbTallies(dbNow, dbFail, dbGuesses)' BY <1>1, <1>4 DEF DbTallies
<1>10. DbMemory(dbNow, dbFail, dbGlobal)' BY <1>1, <1>8 DEF DbMemory, DbFresh
<1> QED BY <1>7, <1>9, <1>10 DEF DbThrottleOK

LEMMA DbThrottleWrong ==
  ASSUME DbReqsOK, DbThrottleOK, NEW r \in DbReqs, DbLoginWrong(r)
  PROVE  /\ DbThrottleOK'
         /\ DbLockout = DbWindow => DbSizeOK'
<1>0. dbNow \in Nat /\ DbWindow \in Nat /\ DbStamps(dbNow, dbGlobal) BY DbNumbers DEF DbReqsOK, DbThrottleOK, DbGuessesOK
<1>1. PICK u : u = dbReq[r].user OBVIOUS
<1>2. u \in DbAny /\ dbReq[r].pc = "verify" /\ DOMAIN dbReq = DbReqs
  BY <1>1 DEF DbLoginWrong, DbReqsOK, DbReqGood
<1> DEFINE g == DbTrim(dbGlobal)
           h == [dbGuesses EXCEPT ![u] = Append(@, dbNow)]
           p == Append(DbTrim(DbOf(dbFail, u).stamps), dbNow)
<1>3. /\ dbFail' = DbFailed(u) /\ dbGuesses' = h /\ dbGlobal' = Append(g, dbNow)
      /\ dbReq' = [dbReq EXCEPT ![r] = DbIdle] /\ UNCHANGED dbNow
  BY <1>1 DEF DbLoginWrong
<1>4. DbTallies(dbNow, dbFail, dbGuesses) BY DEF DbThrottleOK
<1>5. DbTallyOK(dbNow, DbOf(dbFail, u).stamps, DbOf(dbFail, u).until, dbGuesses[u]) /\ DOMAIN dbGuesses = DbAny
  BY <1>2, <1>4 DEF DbTallies
<1>6. PICK v \in Nat : DbFailed(u) = DbPruned(DbWith(dbFail, u, p, v)) /\ DbTallies(dbNow, DbWith(dbFail, u, p, v), h)
  BY <1>0, <1>2, <1>4, DbFailedTallies
<1>7. h[u] = Append(dbGuesses[u], dbNow) /\ \A x \in DbAny \ {u} : h[x] = dbGuesses[x] BY <1>2, <1>5
<1>8. PICK k : DbCut(dbNow, dbGlobal, g, k) BY <1>0, DbTrimIs
<1>9. DbStamps(dbNow, g) BY <1>0, <1>8, DbCutStamps
<1> HIDE DEF g, h, p
<1> DEFINE e == DbWith(dbFail, u, p, v)
           d == DbPruned(e)
<1>10. DbTallies(dbNow, e, h) BY <1>6
<1>11. DbMemory(dbNow, d, Append(g, dbNow))
  <2>1. DbMemory(dbNow, dbFail, dbGlobal) BY DEF DbThrottleOK
  <2> QED BY <1>0, <1>2, <1>4, <1>10, <2>1, DbMemoryFail DEF g
<1>12. dbFail' = d BY <1>3, <1>6
<1> HIDE DEF e, d
<1>13. /\ DbTallies(dbNow, d, h) /\ DOMAIN d \subseteq DOMAIN e /\ (Cardinality(DOMAIN e) <= DbGlobalMax => d = e)
       /\ ~(Cardinality(DOMAIN e) <= DbGlobalMax) =>
            \A n \in DOMAIN d : d[n] = DbTrimmed(e[n]) /\ (DbTrimmed(e[n]).stamps # <<>> \/ dbNow < DbTrimmed(e[n]).until)
  BY <1>0, <1>10, DbPrunedTallies DEF d
<1>14. DbIdle.pc = "idle" BY DbIdleGood
<1>15. DbQuota(u)' = DbQuota(u) + 1 /\ DbQuotaAll' = DbQuotaAll + 1 /\ \A x : DbQuota(x) <= DbQuota(x)'
  BY <1>1, <1>2, <1>3, <1>14, DbQuotaMoved
<1>16. DbQuotaAll \in Nat /\ \A x : DbQuota(x) \in Nat /\ DbQuota(x)' \in Nat BY DbQuotas
<1>17. dbNow - DbWindow \in Int BY <1>0
<1>18. ASSUME NEW x \in DbAny PROVE DbAtMost(h[x], dbNow - DbWindow, DbQuota(x)')
  <2>0. DbStamps(dbNow, dbGuesses[x]) BY <1>4 DEF DbTallies, DbTallyOK
  <2>1. DbAtMost(dbGuesses[x], dbNow - DbWindow, DbQuota(x)) BY DEF DbThrottleOK, DbGuessesOK
  <2>2. CASE x = u
    <3>1. DbAtMost(Append(dbGuesses[u], dbNow), dbNow - DbWindow, DbQuota(u) + 1)
      BY <1>0, <1>16, <1>17, <2>0, <2>1, <2>2, DbPushed
    <3> QED BY <1>7, <1>15, <2>2, <3>1
  <2>3. CASE x # u
    <3>1. DbAtMost(dbGuesses[x], dbNow - DbWindow, DbQuota(x)') BY <1>0, <1>15, <1>16, <1>17, <2>0, <2>1, DbAtMostMore
    <3> QED BY <1>7, <2>3, <3>1
  <2> QED BY <2>2, <2>3
<1>19. DbAtMost(Append(g, dbNow), dbNow - DbWindow, DbQuotaAll')
  <2>1. DbAtMost(dbGlobal, dbNow - DbWindow, DbQuotaAll) BY DEF DbThrottleOK, DbGuessesOK
  <2>2. DbAtMost(g, dbNow - DbWindow, DbQuotaAll) BY <1>0, <1>8, <1>16, <1>17, <2>1, DbCutAtMost
  <2>3. DbAtMost(Append(g, dbNow), dbNow - DbWindow, DbQuotaAll + 1) BY <1>0, <1>9, <1>16, <1>17, <2>2, DbPushed
  <2> QED BY <1>15, <2>3
<1>20. DbStamps(dbNow, Append(g, dbNow)) BY <1>0, <1>9, DbPushed
<1>21. DbGuessesOK' BY <1>3, <1>18, <1>19, <1>20 DEF DbGuessesOK
<1>22. DbTallies(dbNow, dbFail, dbGuesses)' BY <1>3, <1>12, <1>13 DEF DbTallies
<1>23. DbMemory(dbNow, dbFail, dbGlobal)' BY <1>3, <1>11, <1>12 DEF DbMemory, DbFresh
<1>24. ASSUME DbLockout = DbWindow PROVE Cardinality(DOMAIN d) <= DbGlobalMax + Cardinality(DbReqs) - 1
  <2>0. DbGlobalMax \in Nat \ {0} /\ Cardinality(DbReqs) \in Nat \ {0}
    <3>1. IsFiniteSet(DbReqs) /\ DbGlobalMax \in Nat \ {0} BY DbNumbers
    <3>2. Cardinality(DbReqs) \in Nat BY <3>1, FS_CardinalityType
    <3>3. Cardinality(DbReqs) # 0 BY <3>1, FS_EmptySet
    <3> QED BY <3>1, <3>2, <3>3
  <2>1. CASE Cardinality(DOMAIN e) <= DbGlobalMax
    <3>1. d = e /\ IsFiniteSet(DOMAIN d) BY <1>13, <2>1 DEF DbTallies
    <3>2. Cardinality(DOMAIN d) \in Nat /\ Cardinality(DOMAIN d) <= DbGlobalMax BY <2>1, <3>1, FS_CardinalityType
    <3> QED BY <2>0, <3>2
  <2>2. CASE ~(Cardinality(DOMAIN e) <= DbGlobalMax)
    <3>1. DOMAIN d = DbFresh(d, dbNow - DbWindow)
      <4> SUFFICES ASSUME NEW n \in DOMAIN d PROVE n \in DbFresh(d, dbNow - DbWindow) BY DEF DbFresh
      <4>1. d[n] \in [stamps : Seq(Nat), until : Nat] /\ n \in DbAny /\ n \in DOMAIN e
            /\ e[n] \in [stamps : Seq(Nat), until : Nat]
        BY <1>10, <1>13 DEF DbTallies
      <4>2. d[n] = DbTrimmed(e[n]) /\ (d[n].stamps # <<>> \/ dbNow < d[n].until) BY <1>13, <2>2
      <4>3. CASE dbNow < d[n].until
        <5>1. d[n].until - DbLockout > dbNow - DbWindow BY <1>0, <1>24, <4>1, <4>3
        <5> QED BY <5>1 DEF DbFresh
      <4>4. CASE d[n].stamps # <<>>
        <5> DEFINE s == d[n].stamps
        <5>1. s \in Seq(Nat) /\ s # <<>> BY <4>1, <4>4
        <5>2. 1 \in 1 .. Len(s) /\ DOMAIN s = 1 .. Len(s) BY <5>1
        <5>3. DbTallyOK(dbNow, e[n].stamps, e[n].until, h[n]) BY <1>10, <4>1 DEF DbTallies, DbOf
        <5>4. DbStamps(dbNow, e[n].stamps) BY <1>0, <5>3, DbTallyFacts
        <5>5. s = DbTrim(e[n].stamps) BY <1>0, <4>1, <4>2, <5>4, DbTrimmedIs
        <5>6. PICK c : DbCut(dbNow, e[n].stamps, DbTrim(e[n].stamps), c) BY <1>0, <5>4, DbTrimIs
        <5>7. ~DbStale(dbNow, s[1]) BY <5>2, <5>5, <5>6 DEF DbCut
        <5>8. s[1] \in Nat BY <5>1, <5>2
        <5>9. s[1] > dbNow - DbWindow BY <1>0, <5>7, <5>8 DEF DbStale
        <5> QED BY <5>2, <5>9 DEF DbFresh
      <4> QED BY <4>2, <4>3, <4>4
    <3>2. DbQuotaAll' \in Nat /\ DbQuotaAll' <= DbGlobalMax - 1 + Cardinality(DbReqs)
      <4>1. DbTryingAll' \in SUBSET DbReqs BY DEF DbTryingAll
      <4>2. Cardinality(DbTryingAll') \in Nat /\ Cardinality(DbTryingAll') <= Cardinality(DbReqs) BY <4>1, DbPart
      <4>3. DbQuotaAll' = DbGlobalMax - 1 + Cardinality(DbReqs) - Cardinality(DbTryingAll') BY DEF DbQuotaAll
      <4> QED BY <2>0, <4>2, <4>3
    <3>3. dbNow - DbWindow >= dbNow - DbWindow BY <1>17
    <3>4. Cardinality(DbFresh(d, dbNow - DbWindow)) <= DbQuotaAll' BY <1>11, <1>17, <1>19, <3>2, <3>3 DEF DbMemory
    <3>5. Cardinality(DOMAIN d) \in Nat BY <1>13, FS_CardinalityType DEF DbTallies
    <3> QED BY <2>0, <3>1, <3>2, <3>4, <3>5
  <2> QED BY <2>1, <2>2
<1>25. DbLockout = DbWindow => DbSizeOK' BY <1>12, <1>24 DEF DbSizeOK
<1> QED BY <1>21, <1>22, <1>23, <1>25 DEF DbThrottleOK

LEMMA DbThrottleRight ==
  ASSUME DbReqsOK, DbThrottleOK, NEW r \in DbReqs, DbLoginRight(r)
  PROVE  DbThrottleOK' /\ DOMAIN dbFail' \subseteq DOMAIN dbFail
<1>0. dbNow \in Nat /\ DbWindow \in Nat BY DbNumbers DEF DbReqsOK
<1>1. PICK u : u = dbReq[r].user OBVIOUS
<1>2. u \in DbAny /\ dbReq[r].pc = "verify" /\ DOMAIN dbReq = DbReqs
  BY <1>1 DEF DbLoginRight, DbReqsOK, DbReqGood
<1> DEFINE h == [dbGuesses EXCEPT ![u] = <<>>]
           e == Restrict(dbFail, DOMAIN dbFail \ {u})
           q == [dbReq[r] EXCEPT !.pc = "create"]
<1>3. /\ dbFail' = e /\ dbGuesses' = h /\ dbReq' = [dbReq EXCEPT ![r] = q] /\ UNCHANGED <<dbNow, dbGlobal>>
  BY <1>1 DEF DbLoginRight
<1>4. q.pc = "create" BY DEF DbReqsOK, DbReqGood, DbReqShape
<1>5. DbTallies(dbNow, dbFail, dbGuesses) /\ DOMAIN dbGuesses = DbAny /\ IsFiniteSet(DOMAIN dbFail)
  BY DEF DbThrottleOK, DbTallies
<1>6. DOMAIN h = DbAny /\ h[u] = <<>> /\ \A x \in DbAny \ {u} : h[x] = dbGuesses[x] BY <1>2, <1>5
<1>7. DOMAIN e \subseteq DOMAIN dbFail /\ \A n \in DOMAIN e : e[n] = dbFail[n] BY DEF Restrict
<1> HIDE DEF h, q
<1>8. DbTallyOK(dbNow, <<>>, 0, h[u]) BY <1>0, <1>6, DbTallyClean
<1>9. DbTallies(dbNow, e, h) BY <1>0, <1>2, <1>5, <1>6, <1>8, DbDropped
<1> HIDE DEF e
<1>10. DbQuotaAll <= DbQuotaAll' /\ \A x : DbQuota(x) <= DbQuota(x)' BY <1>1, <1>2, <1>3, <1>4, DbQuotaMoved
<1>11. /\ DbQuotaAll \in Nat /\ DbQuotaAll' \in Nat /\ dbNow - DbWindow \in Int
       /\ \A x : DbQuota(x) \in Nat /\ DbQuota(x)' \in Nat
  BY <1>0, DbQuotas
<1>12. ASSUME NEW x \in DbAny PROVE DbAtMost(h[x], dbNow - DbWindow, DbQuota(x)')
  <2>1. CASE x = u
    <3>1. Len(<<>>) = 0 /\ 0 <= DbQuota(x)' BY <1>11
    <3> QED BY <1>6, <1>11, <2>1, <3>1, DbShort
  <2>2. CASE x # u
    <3>1. DbAtMost(dbGuesses[x], dbNow - DbWindow, DbQuota(x)) BY DEF DbThrottleOK, DbGuessesOK
    <3>2. DbStamps(dbNow, dbGuesses[x]) BY <1>5 DEF DbTallies, DbTallyOK
    <3>3. DbAtMost(dbGuesses[x], dbNow - DbWindow, DbQuota(x)') BY <1>0, <1>10, <1>11, <3>1, <3>2, DbAtMostMore
    <3> QED BY <1>6, <2>2, <3>3
  <2> QED BY <2>1, <2>2
<1>13. DbStamps(dbNow, dbGlobal) /\ DbAtMost(dbGlobal, dbNow - DbWindow, DbQuotaAll) BY DEF DbThrottleOK, DbGuessesOK
<1>14. DbAtMost(dbGlobal, dbNow - DbWindow, DbQuotaAll') BY <1>0, <1>10, <1>11, <1>13, DbAtMostMore
<1>15. DbGuessesOK' BY <1>3, <1>12, <1>13, <1>14 DEF DbGuessesOK
<1>16. DbMemory(dbNow, e, dbGlobal)
  <2>1. DbMemory(dbNow, dbFail, dbGlobal) BY DEF DbThrottleOK
  <2> QED BY <1>0, <1>5, <1>7, <2>1, DbMemoryLess
<1>17. DbTallies(dbNow, dbFail, dbGuesses)' BY <1>3, <1>9 DEF DbTallies
<1>18. DbMemory(dbNow, dbFail, dbGlobal)' BY <1>3, <1>16 DEF DbMemory, DbFresh
<1> QED BY <1>3, <1>7, <1>15, <1>17, <1>18 DEF DbThrottleOK

LEMMA DbThrottleQuiet ==
  ASSUME DbReqsOK, DbThrottleOK, UNCHANGED <<dbNow, dbThrottle>>, DbQuotaAll <= DbQuotaAll',
         \A u \in DbAny : DbQuota(u) <= DbQuota(u)'
  PROVE  DbThrottleOK'
<1>0. dbNow \in Nat /\ DbWindow \in Nat /\ UNCHANGED <<dbFail, dbGlobal, dbGuesses>> BY DbNumbers DEF DbReqsOK, dbThrottle
<1>1. /\ DbQuotaAll \in Nat /\ DbQuotaAll' \in Nat /\ dbNow - DbWindow \in Int
      /\ \A x : DbQuota(x) \in Nat /\ DbQuota(x)' \in Nat
  BY <1>0, DbQuotas
<1>2. ASSUME NEW x \in DbAny PROVE DbAtMost(dbGuesses[x], dbNow - DbWindow, DbQuota(x)')
  <2>1. DbAtMost(dbGuesses[x], dbNow - DbWindow, DbQuota(x)) BY DEF DbThrottleOK, DbGuessesOK
  <2>2. DbStamps(dbNow, dbGuesses[x]) BY DEF DbThrottleOK, DbTallies, DbTallyOK
  <2> QED BY <1>0, <1>1, <2>1, <2>2, DbAtMostMore
<1>3. DbStamps(dbNow, dbGlobal) /\ DbAtMost(dbGlobal, dbNow - DbWindow, DbQuotaAll) BY DEF DbThrottleOK, DbGuessesOK
<1>4. DbAtMost(dbGlobal, dbNow - DbWindow, DbQuotaAll') BY <1>0, <1>1, <1>3, DbAtMostMore
<1>5. DbGuessesOK' BY <1>0, <1>2, <1>3, <1>4 DEF DbGuessesOK
<1>6. DbTallies(dbNow, dbFail, dbGuesses)' BY <1>0 DEF DbThrottleOK, DbTallies
<1>7. DbMemory(dbNow, dbFail, dbGlobal)' BY <1>0 DEF DbThrottleOK, DbMemory, DbFresh
<1> QED BY <1>5, <1>6, <1>7 DEF DbThrottleOK

LEMMA DbThrottleTick ==
  ASSUME DbReqsOK, DbThrottleOK, DbTick
  PROVE  DbThrottleOK'
<1>0. /\ dbNow \in Nat /\ DbWindow \in Nat /\ dbNow' = dbNow + 1 /\ UNCHANGED <<dbFail, dbGlobal, dbGuesses, dbReq>>
  BY DbNumbers DEF DbReqsOK, DbTick, dbThrottle
<1>1. /\ DbQuotaAll \in Nat /\ dbNow - DbWindow \in Int /\ (dbNow + 1) - DbWindow \in Int
      /\ dbNow - DbWindow <= (dbNow + 1) - DbWindow /\ \A x : DbQuota(x) \in Nat
  BY <1>0, DbQuotas
<1>2. DbQuotaAll' = DbQuotaAll /\ \A x : DbQuota(x)' = DbQuota(x)
  BY <1>0 DEF DbQuotaAll, DbQuota, DbTryingAll, DbTrying
<1>3. ASSUME NEW x \in DbAny PROVE DbAtMost(dbGuesses[x], (dbNow + 1) - DbWindow, DbQuota(x))
  <2>1. DbAtMost(dbGuesses[x], dbNow - DbWindow, DbQuota(x)) BY DEF DbThrottleOK, DbGuessesOK
  <2>2. DbStamps(dbNow, dbGuesses[x]) BY DEF DbThrottleOK, DbTallies, DbTallyOK
  <2>3. DbQuota(x) <= DbQuota(x) BY <1>1
  <2> QED BY <1>0, <1>1, <2>1, <2>2, <2>3, DbAtMostMore
<1>4. DbStamps(dbNow, dbGlobal) /\ DbAtMost(dbGlobal, dbNow - DbWindow, DbQuotaAll) BY DEF DbThrottleOK, DbGuessesOK
<1>5. DbAtMost(dbGlobal, (dbNow + 1) - DbWindow, DbQuotaAll)
  <2>1. DbQuotaAll <= DbQuotaAll BY <1>1
  <2> QED BY <1>0, <1>1, <1>4, <2>1, DbAtMostMore
<1>6. DbStamps(dbNow + 1, dbGlobal)
  <2>1. dbGlobal \in Seq(Nat) BY <1>4 DEF DbStamps
  <2>2. \A i \in DOMAIN dbGlobal : dbGlobal[i] \in Nat BY <2>1
  <2>3. \A i \in DOMAIN dbGlobal : dbGlobal[i] <= dbNow + 1
    <3> SUFFICES ASSUME NEW i \in DOMAIN dbGlobal PROVE dbGlobal[i] <= dbNow + 1 OBVIOUS
    <3>1. dbGlobal[i] <= dbNow BY <1>4 DEF DbStamps
    <3> QED BY <1>0, <2>2, <3>1
  <2> QED BY <1>4, <2>3 DEF DbStamps
<1>7. DbGuessesOK' BY <1>0, <1>2, <1>3, <1>5, <1>6 DEF DbGuessesOK
<1>8. DbTallies(dbNow, dbFail, dbGuesses)'
  <2>1. DbTallies(dbNow, dbFail, dbGuesses) BY DEF DbThrottleOK
  <2>2. \A u \in DbAny : DbTallyOK(dbNow + 1, DbOf(dbFail, u).stamps, DbOf(dbFail, u).until, dbGuesses[u])
    BY <1>0, <2>1, DbTallyTick DEF DbTallies
  <2> QED BY <1>0, <2>1, <2>2 DEF DbTallies
<1>9. DbMemory(dbNow, dbFail, dbGlobal)'
  <2>1. DbMemory(dbNow, dbFail, dbGlobal) BY DEF DbThrottleOK
  <2>2. DbMemory(dbNow + 1, dbFail, dbGlobal) BY <1>0, <2>1, DbMemoryTick
  <2> QED BY <1>0, <2>2 DEF DbMemory, DbFresh
<1> QED BY <1>7, <1>8, <1>9 DEF DbThrottleOK

LEMMA DbThrottleInit == DbInit => DbThrottleOK /\ DbSizeOK
<1> SUFFICES ASSUME DbInit PROVE DbThrottleOK /\ DbSizeOK OBVIOUS
<1>0. /\ dbNow = 1 /\ dbFail = <<>> /\ dbGlobal = <<>> /\ dbGuesses = [u \in DbAny |-> <<>>] /\ dbNow \in Nat
      /\ DbGlobalMax \in Nat \ {0}
  BY DbNumbers DEF DbInit
<1>1. DOMAIN dbFail = {} /\ Len(<<>>) = 0 /\ <<>> \in Seq(Nat) BY <1>0
<1>2. IsFiniteSet({}) /\ Cardinality({}) = 0 BY FS_EmptySet
<1>3. DbTallyOK(dbNow, <<>>, 0, <<>>) BY <1>0, DbTallyClean
<1>4. DbStamps(dbNow, <<>>) BY <1>3 DEF DbTallyOK
<1>5. \A u : DbOf(dbFail, u).stamps = <<>> /\ DbOf(dbFail, u).until = 0 BY <1>1 DEF DbOf
<1>6. DbTallies(dbNow, dbFail, dbGuesses) BY <1>0, <1>1, <1>2, <1>3, <1>5 DEF DbTallies
<1>7. DbQuotaAll \in Nat /\ \A u : DbQuota(u) \in Nat BY DbQuotas
<1>8. \A n \in Nat : \A x : DbAtMost(<<>>, x, n) BY <1>1, DbShort
<1>9. DbGuessesOK BY <1>0, <1>4, <1>7, <1>8 DEF DbGuessesOK
<1>10. DbMemory(dbNow, dbFail, dbGlobal)
  <2>1. \A x : DbFresh(dbFail, x) = {} BY <1>1 DEF DbFresh
  <2>2. \A x : Cardinality(DbFresh(dbFail, x)) = 0 BY <1>2, <2>1
  <2> QED BY <2>2 DEF DbMemory
<1>11. DbSizeOK
  <2>1. Cardinality(DbReqs) \in Nat BY DbQuotas
  <2>2. Cardinality(DOMAIN dbFail) = 0 BY <1>1, <1>2
  <2> QED BY <1>0, <2>1, <2>2 DEF DbSizeOK
<1> QED BY <1>6, <1>9, <1>10, <1>11 DEF DbThrottleOK

LEMMA DbSizeLess ==
  ASSUME DbThrottleOK, DbSizeOK, DOMAIN dbFail' \subseteq DOMAIN dbFail
  PROVE  DbSizeOK'
<1>1. IsFiniteSet(DOMAIN dbFail) BY DEF DbThrottleOK, DbTallies
<1>2. Cardinality(DOMAIN dbFail') <= Cardinality(DOMAIN dbFail) /\ IsFiniteSet(DOMAIN dbFail') BY <1>1, FS_Subset
<1>3. Cardinality(DOMAIN dbFail') \in Nat /\ Cardinality(DOMAIN dbFail) \in Nat BY <1>1, <1>2, FS_CardinalityType
<1>4. Cardinality(DbReqs) \in Nat /\ DbGlobalMax \in Nat BY DbQuotas, DbNumbers
<1> QED BY <1>2, <1>3, <1>4 DEF DbSizeOK

LEMMA DbThrottleNext ==
  ASSUME DbReqsOK, DbThrottleOK, [DbNext]_dbVars
  PROVE  DbThrottleOK' /\ (DbLockout = DbWindow /\ DbSizeOK => DbSizeOK')
<1>0. DOMAIN dbReq = DbReqs /\ \A r \in DbReqs : DbReqGood(dbReq[r]) BY DEF DbReqsOK
<1>1. ASSUME NEW r \in DbReqs, NEW u \in DbAny, NEW good \in BOOLEAN, DbLoginAllowed(r, u, good)
      PROVE  DbThrottleOK' /\ (DbLockout = DbWindow /\ DbSizeOK => DbSizeOK')
  BY <1>1, DbThrottleAllowed, DbSizeLess
<1>2. ASSUME NEW u, DbLoginRefused(u) PROVE DbThrottleOK' /\ (DbLockout = DbWindow /\ DbSizeOK => DbSizeOK')
  <2>1. dbFail' = dbFail BY <1>2 DEF DbLoginRefused
  <2> QED BY <1>2, <2>1, DbThrottleRefused DEF DbSizeOK
<1>3. ASSUME NEW r \in DbReqs, DbLoginWrong(r) PROVE DbThrottleOK' /\ (DbLockout = DbWindow /\ DbSizeOK => DbSizeOK')
  BY <1>3, DbThrottleWrong
<1>4. ASSUME NEW r \in DbReqs, DbLoginRight(r) PROVE DbThrottleOK' /\ (DbLockout = DbWindow /\ DbSizeOK => DbSizeOK')
  BY <1>4, DbThrottleRight, DbSizeLess
<1>5. ASSUME DbTick PROVE DbThrottleOK' /\ (DbLockout = DbWindow /\ DbSizeOK => DbSizeOK')
  <2>1. dbFail' = dbFail BY <1>5 DEF DbTick, dbThrottle
  <2> QED BY <1>5, <2>1, DbThrottleTick DEF DbSizeOK
<1>6. ASSUME UNCHANGED <<dbNow, dbThrottle>>, DbQuotaAll <= DbQuotaAll', \A u \in DbAny : DbQuota(u) <= DbQuota(u)'
      PROVE  DbThrottleOK' /\ (DbLockout = DbWindow /\ DbSizeOK => DbSizeOK')
  <2>1. dbFail' = dbFail BY <1>6 DEF dbThrottle
  <2> QED BY <1>6, <2>1, DbThrottleQuiet DEF DbSizeOK
<1>7. ASSUME UNCHANGED <<dbNow, dbThrottle>>, NEW r \in DbReqs, NEW q, dbReq' = [dbReq EXCEPT ![r] = q], q.pc # "verify"
      PROVE  DbThrottleOK' /\ (DbLockout = DbWindow /\ DbSizeOK => DbSizeOK')
  <2>0. PICK w : w = dbReq[r].user OBVIOUS
  <2>1. /\ \A u : q.pc # "verify" \/ q.user # u => DbQuota(u) <= DbQuota(u)'
        /\ q.pc # "verify" => DbQuotaAll <= DbQuotaAll'
    <3>1. DOMAIN dbReq = DbReqs BY <1>0
    <3>2. dbReq' = [dbReq EXCEPT ![r] = q] BY <1>7
    <3> QED BY <2>0, <3>1, <3>2, DbQuotaMoved
  <2> QED BY <1>6, <1>7, <2>1
<1>8. ASSUME UNCHANGED <<dbNow, dbThrottle>>, \A r \in DbReqs : dbReq'[r].pc = dbReq[r].pc /\ dbReq'[r].user = dbReq[r].user
      PROVE  DbThrottleOK' /\ (DbLockout = DbWindow /\ DbSizeOK => DbSizeOK')
  <2>1. DbTryingAll' = DbTryingAll /\ \A u : DbTrying(u)' = DbTrying(u) BY <1>8 DEF DbTryingAll, DbTrying
  <2>2. DbQuotaAll' = DbQuotaAll /\ \A u : DbQuota(u)' = DbQuota(u) BY <2>1 DEF DbQuotaAll, DbQuota
  <2>3. DbQuotaAll \in Nat /\ \A u : DbQuota(u) \in Nat BY DbQuotas
  <2>4. DbQuotaAll <= DbQuotaAll' /\ \A u \in DbAny : DbQuota(u) <= DbQuota(u)' BY <2>2, <2>3
  <2> QED BY <1>6, <1>8, <2>4
<1>9. ASSUME NEW r \in DbReqs, NEW tok \in 1 .. dbIssued, NEW csrf \in BOOLEAN, NEW act \in {"view", "logout", "ban", "allow"},
             DbArrives(r, tok, act, csrf)
      PROVE  DbThrottleOK' /\ (DbLockout = DbWindow /\ DbSizeOK => DbSizeOK')
  <2>1. UNCHANGED <<dbNow, dbThrottle>> BY <1>9 DEF DbArrives
  <2>2. CASE dbReq' = dbReq BY <1>8, <2>1, <2>2
  <2>3. CASE dbReq' # dbReq
    <3> DEFINE q == [DbIdle EXCEPT !.pc = "role", !.user = dbEntries[tok].user, !.tok = tok, !.act = act, !.csrf = csrf]
    <3>1. dbReq' = [dbReq EXCEPT ![r] = q] BY <1>9, <2>3 DEF DbArrives
    <3>2. q.pc = "role" BY DEF DbIdle
    <3> HIDE DEF q
    <3> QED BY <1>7, <2>1, <3>1, <3>2
  <2> QED BY <2>2, <2>3
<1>10. ASSUME NEW roles, DbReload(roles) PROVE DbThrottleOK' /\ (DbLockout = DbWindow /\ DbSizeOK => DbSizeOK')
  <2>1. UNCHANGED <<dbNow, dbThrottle>> BY <1>10 DEF DbReload
  <2>2. ASSUME NEW r \in DbReqs PROVE dbReq'[r].pc = dbReq[r].pc /\ dbReq'[r].user = dbReq[r].user
    <3>1. dbReq'[r] = [dbReq[r] EXCEPT !.reloaded = dbReq[r].pc = "handle"] BY <1>10 DEF DbReload
    <3> QED BY <1>0, <3>1 DEF DbReqGood, DbReqShape
  <2> QED BY <1>8, <2>1, <2>2
<1>11. ASSUME NEW r \in DbReqs, DbLookupFails(r) \/ DbCreate(r) \/ DbUnknown(r) \/ DbLogout(r) \/ DbWrite(r) \/ DbEnds(r)
       PROVE  DbThrottleOK' /\ (DbLockout = DbWindow /\ DbSizeOK => DbSizeOK')
  <2>1. UNCHANGED <<dbNow, dbThrottle>> /\ dbReq' = [dbReq EXCEPT ![r] = DbIdle]
    BY <1>11 DEF DbLookupFails, DbCreate, DbUnknown, DbLogout, DbWrite, DbEnds
  <2>2. DbIdle.pc # "verify" BY DbIdleGood
  <2> QED BY <1>7, <2>1, <2>2
<1>12. ASSUME NEW r \in DbReqs, DbGranted(r) PROVE DbThrottleOK' /\ (DbLockout = DbWindow /\ DbSizeOK => DbSizeOK')
  <2> DEFINE q == [dbReq[r] EXCEPT !.pc = "handle"]
  <2>1. UNCHANGED <<dbNow, dbThrottle>> /\ dbReq' = [dbReq EXCEPT ![r] = q] BY <1>12 DEF DbGranted
  <2>2. q.pc = "handle" BY <1>0 DEF DbReqGood, DbReqShape
  <2> HIDE DEF q
  <2> QED BY <1>7, <2>1, <2>2
<1>13. CASE DbNext
  <2> USE <1>13
  <2> QED BY <1>1, <1>2, <1>3, <1>4, <1>5, <1>9, <1>10, <1>11, <1>12, DbSteps
<1>14. CASE UNCHANGED dbVars
  <2>1. UNCHANGED <<dbNow, dbThrottle>> /\ dbReq' = dbReq BY <1>14 DEF dbVars
  <2> QED BY <1>8, <2>1
<1> QED BY <1>13, <1>14

\* An account's list of tokens, in order of issue.
DbOrdered(s) == s \in Seq(Nat) /\ \A i, j \in 1 .. Len(s) : i < j => s[i] < s[j]

\* What RemoveAt leaves.
LEMMA DbRemovedShape ==
  ASSUME NEW s \in Seq(Nat), NEW n \in 1 .. Len(s)
  PROVE  /\ RemoveAt(s, n) \in Seq(Nat) /\ Len(RemoveAt(s, n)) = Len(s) - 1
         /\ \A i \in 1 .. (Len(s) - 1) : RemoveAt(s, n)[i] = IF i < n THEN s[i] ELSE s[i + 1]
<1> DEFINE a == SubSeq(s, 1, n - 1)
           z == SubSeq(s, n + 1, Len(s))
<1>1. Len(s) \in Nat OBVIOUS
<1>2. a \in Seq(Nat) /\ Len(a) = n - 1 /\ \A i \in 1 .. (n - 1) : a[i] = s[i]
  BY <1>1, SubSeqProperties
<1>3. z \in Seq(Nat) /\ Len(z) = Len(s) - n /\ \A i \in 1 .. (Len(s) - n) : z[i] = s[n + i]
  <2>1. n + 1 \in Int /\ Len(s) \in Int /\ \A i \in (n + 1) .. Len(s) : s[i] \in Nat BY <1>1
  <2> HIDE DEF z
  <2>2. /\ z \in Seq(Nat) /\ Len(z) = IF n + 1 <= Len(s) THEN Len(s) - (n + 1) + 1 ELSE 0
        /\ \A i \in 1 .. (Len(s) - (n + 1) + 1) : z[i] = s[(n + 1) + i - 1]
    BY ONLY <2>1, SubSeqProperties DEF z
  <2>3. \A i \in 1 .. (Len(s) - n) : z[i] = s[n + i]
    <3> SUFFICES ASSUME NEW i \in 1 .. (Len(s) - n) PROVE z[i] = s[n + i] OBVIOUS
    <3>1. i \in 1 .. (Len(s) - (n + 1) + 1) /\ (n + 1) + i - 1 = n + i BY <1>1
    <3>2. z[i] = s[(n + 1) + i - 1] BY <2>2, <3>1
    <3> QED BY <3>1, <3>2
  <2>4. \A l \in Nat : \A c \in 1 .. l : (IF c + 1 <= l THEN l - (c + 1) + 1 ELSE 0) = l - c OBVIOUS
  <2>5. Len(z) = Len(s) - n BY <1>1, <2>2, <2>4
  <2> QED BY <2>2, <2>3, <2>5
<1>4. RemoveAt(s, n) = a \o z BY DEF RemoveAt
<1> HIDE DEF a, z
<1>5. /\ a \o z \in Seq(Nat) /\ Len(a \o z) = Len(a) + Len(z)
      /\ \A i \in 1 .. Len(a) + Len(z) : (a \o z)[i] = IF i <= Len(a) THEN a[i] ELSE z[i - Len(a)]
  BY <1>2, <1>3, ConcatProperties
<1>6. Len(a) + Len(z) = Len(s) - 1 BY <1>1, <1>2, <1>3
<1>7. \A i \in 1 .. (Len(s) - 1) : (a \o z)[i] = IF i < n THEN s[i] ELSE s[i + 1]
  <2> SUFFICES ASSUME NEW i \in 1 .. (Len(s) - 1) PROVE (a \o z)[i] = IF i < n THEN s[i] ELSE s[i + 1] OBVIOUS
  <2>1. (a \o z)[i] = IF i <= n - 1 THEN a[i] ELSE z[i - (n - 1)] BY <1>2, <1>5, <1>6
  <2>2. CASE i < n
    <3>1. i <= n - 1 /\ i \in 1 .. (n - 1) BY <1>1, <2>2
    <3> QED BY <1>2, <2>1, <2>2, <3>1
  <2>3. CASE ~(i < n)
    <3>1. ~(i <= n - 1) /\ i - (n - 1) \in 1 .. (Len(s) - n) /\ n + (i - (n - 1)) = i + 1 BY <1>1, <2>3
    <3>2. z[i - (n - 1)] = s[n + (i - (n - 1))] BY <1>3, <3>1
    <3> QED BY <2>1, <2>3, <3>1, <3>2
  <2> QED BY <2>2, <2>3
<1> QED BY <1>4, <1>5, <1>6, <1>7

\* removeLocked on a list: that token and only it is gone.
LEMMA DbListRemoved ==
  ASSUME NEW s, DbOrdered(s), NEW x
  PROVE  /\ DbOrdered(RemoveFirst(s, x)) /\ Len(RemoveFirst(s, x)) <= Len(s)
         /\ ToSet(RemoveFirst(s, x)) = ToSet(s) \ {x}
<1> DEFINE n == SelectInSeq(s, LAMBDA v : v = x)
           I == {i \in 1 .. Len(s) : s[i] = x}
           d == RemoveFirst(s, x)
<1>0. s \in Seq(Nat) /\ Len(s) \in Nat /\ \A i, j \in 1 .. Len(s) : i < j => s[i] < s[j] BY DEF DbOrdered
<1>1. ToSet(s) = {s[i] : i \in 1 .. Len(s)} BY <1>0 DEF ToSet
<1>2. CASE ~\E i \in 1 .. Len(s) : s[i] = x
  <2>1. d = s BY <1>2 DEF RemoveFirst
  <2>2. x \notin ToSet(s) BY <1>1, <1>2
  <2> QED BY <1>0, <2>1, <2>2
<1>3. CASE \E i \in 1 .. Len(s) : s[i] = x
  <2>1. n = IF I # {} THEN Min(I) ELSE 0 BY DEF SelectInSeq
  <2>2. I # {} /\ I \subseteq Nat BY <1>3
  <2>3. \E a \in I : \A b \in I : a <= b BY <2>2, LeastNatural
  <2>4. Min(I) \in I BY <2>3 DEF Min
  <2>5. n \in 1 .. Len(s) /\ s[n] = x BY <2>1, <2>2, <2>4
  <2>6. d = RemoveAt(s, n) BY <1>3 DEF RemoveFirst
  <2> HIDE DEF n, d, I
  <2>7. /\ d \in Seq(Nat) /\ Len(d) = Len(s) - 1
        /\ \A i \in 1 .. (Len(s) - 1) : d[i] = IF i < n THEN s[i] ELSE s[i + 1]
    <3>1. /\ RemoveAt(s, n) \in Seq(Nat) /\ Len(RemoveAt(s, n)) = Len(s) - 1
          /\ \A i \in 1 .. (Len(s) - 1) : RemoveAt(s, n)[i] = IF i < n THEN s[i] ELSE s[i + 1]
      BY <1>0, <2>5, DbRemovedShape
    <3> QED BY <2>6, <3>1
  <2> DEFINE at(m) == IF m < n THEN m ELSE m + 1
  <2>8. \A i \in 1 .. (Len(s) - 1) : at(i) \in 1 .. Len(s) /\ at(i) # n /\ d[i] = s[at(i)] BY <1>0, <2>5, <2>7
  <2>9. \A i, j \in 1 .. (Len(s) - 1) : i < j => at(i) < at(j) BY <1>0, <2>5
  <2>10. \A i \in 1 .. Len(s) : i # n => \E j \in 1 .. (Len(s) - 1) : at(j) = i
    <3> SUFFICES ASSUME NEW i \in 1 .. Len(s), i # n PROVE \E j \in 1 .. (Len(s) - 1) : at(j) = i OBVIOUS
    <3>1. CASE i < n
      <4>1. i \in 1 .. (Len(s) - 1) /\ at(i) = i BY <1>0, <2>5, <3>1
      <4> QED BY <4>1
    <3>2. CASE ~(i < n)
      <4>1. i - 1 \in 1 .. (Len(s) - 1) /\ at(i - 1) = i BY <1>0, <2>5, <3>2
      <4> QED BY <4>1
    <3> QED BY <3>1, <3>2
  <2> HIDE DEF at
  <2>11. DbOrdered(d)
    <3> SUFFICES ASSUME NEW i \in 1 .. (Len(s) - 1), NEW j \in 1 .. (Len(s) - 1), i < j PROVE d[i] < d[j]
      BY <2>7 DEF DbOrdered
    <3>1. at(i) < at(j) /\ at(i) \in 1 .. Len(s) /\ at(j) \in 1 .. Len(s) BY <2>8, <2>9
    <3>2. s[at(i)] < s[at(j)] BY <1>0, <3>1
    <3> QED BY <2>8, <3>2
  <2>12. ToSet(d) = {d[i] : i \in 1 .. (Len(s) - 1)}
    <3>1. DOMAIN d = 1 .. (Len(s) - 1) BY <2>7
    <3> QED BY <3>1 DEF ToSet
  <2>13. \A i \in 1 .. Len(s) : i # n => s[i] # x
    <3> SUFFICES ASSUME NEW i \in 1 .. Len(s), i # n PROVE s[i] # x OBVIOUS
    <3>1. i < n \/ n < i BY <2>5
    <3>2. s[i] < s[n] \/ s[n] < s[i] BY <1>0, <2>5, <3>1
    <3>3. s[i] \in Nat /\ s[n] \in Nat BY <1>0, <2>5
    <3> QED BY <2>5, <3>2, <3>3
  <2>14. ToSet(d) \subseteq ToSet(s) \ {x}
    <3> SUFFICES ASSUME NEW i \in 1 .. (Len(s) - 1) PROVE d[i] \in ToSet(s) \ {x} BY <2>12
    <3>1. d[i] = s[at(i)] /\ at(i) \in 1 .. Len(s) /\ at(i) # n BY <2>8
    <3> QED BY <1>1, <2>13, <3>1
  <2>15. ToSet(s) \ {x} \subseteq ToSet(d)
    <3> SUFFICES ASSUME NEW i \in 1 .. Len(s), s[i] # x PROVE s[i] \in ToSet(d) BY <1>1
    <3>1. PICK j \in 1 .. (Len(s) - 1) : at(j) = i BY <2>5, <2>10
    <3>2. d[j] = s[i] BY <2>8, <3>1
    <3> QED BY <2>12, <3>1, <3>2
  <2>16. Len(d) <= Len(s) BY <1>0, <2>7
  <2> QED BY <2>11, <2>14, <2>15, <2>16 DEF d
<1> QED BY <1>2, <1>3

\* enforceCapLocked and Create on a list: the oldest go, the new token comes last.
LEMMA DbListCreated ==
  ASSUME NEW s, DbOrdered(s), Len(s) <= DbCap, NEW tok \in Nat, \A i \in 1 .. Len(s) : s[i] < tok
  PROVE  LET out == SubSeq(s, 1, Len(s) - (DbCap - 1))
             new == Append(SubSeq(s, Len(out) + 1, Len(s)), tok)
         IN  DbOrdered(new) /\ Len(new) <= DbCap /\ ToSet(new) = (ToSet(s) \ ToSet(out)) \cup {tok}
<1> DEFINE out == SubSeq(s, 1, Len(s) - (DbCap - 1))
           kept == SubSeq(s, Len(out) + 1, Len(s))
           new == Append(kept, tok)
<1>0. s \in Seq(Nat) /\ Len(s) \in Nat /\ (\A i, j \in 1 .. Len(s) : i < j => s[i] < s[j]) /\ DbCap \in Nat \ {0}
  BY DbNumbers DEF DbOrdered
<1> DEFINE m == Len(s) - (DbCap - 1)
<1>1. m \in Int /\ m <= Len(s) /\ m <= 1 BY <1>0
<1>2. \A i \in 1 .. m : s[i] \in Nat BY <1>0, <1>1
<1> HIDE DEF m
<1>3. /\ out \in Seq(Nat) /\ Len(out) = (IF 1 <= m THEN m - 1 + 1 ELSE 0)
      /\ \A i \in 1 .. m - 1 + 1 : out[i] = s[1 + i - 1]
  <2>1. out = SubSeq(s, 1, m) BY DEF m
  <2> HIDE DEF out
  <2> QED BY <1>0, <1>1, <1>2, <2>1, SubSeqProperties
<1> DEFINE k == Len(out)
<1> HIDE DEF out
<1>4. k \in 0 .. Len(s) /\ k = (IF 1 <= m THEN 1 ELSE 0) BY <1>0, <1>1, <1>3
<1>5. \A i \in 1 .. k : out[i] = s[i]
  <2> SUFFICES ASSUME NEW i \in 1 .. k PROVE out[i] = s[i] OBVIOUS
  <2>1. i \in 1 .. m - 1 + 1 /\ 1 + i - 1 = i BY <1>1, <1>4
  <2> QED BY <1>3, <2>1
<1>6. Len(s) - k + 1 <= DbCap
  <2>1. CASE 1 <= m BY <1>0, <1>4, <2>1 DEF m
  <2>2. CASE ~(1 <= m)
    <3>1. k = 0 BY <1>4, <2>2
    <3> QED BY <1>0, <1>1, <2>2, <3>1 DEF m
  <2> QED BY <2>1, <2>2
<1> DEFINE q == SubSeq(s, k + 1, Len(s))
<1>7. \A i \in (k + 1) .. Len(s) : s[i] \in Nat BY <1>0, <1>4
<1>8. kept = q OBVIOUS
<1> HIDE DEF k, q, kept
<1>9. /\ q \in Seq(Nat) /\ Len(q) = IF k + 1 <= Len(s) THEN Len(s) - (k + 1) + 1 ELSE 0
      /\ \A i \in 1 .. Len(s) - (k + 1) + 1 : q[i] = s[(k + 1) + i - 1]
  BY <1>0, <1>4, <1>7, SubSeqProperties DEF q
<1>10. Len(q) = Len(s) - k
  <2>1. \A l \in Nat : \A c \in 0 .. l : (IF c + 1 <= l THEN l - (c + 1) + 1 ELSE 0) = l - c OBVIOUS
  <2> QED BY <1>0, <1>4, <1>9, <2>1
<1>11. \A i \in 1 .. Len(q) : q[i] = s[k + i] /\ k + i \in 1 .. Len(s)
  <2> SUFFICES ASSUME NEW i \in 1 .. Len(s) - k PROVE q[i] = s[k + i] /\ k + i \in 1 .. Len(s) BY <1>10
  <2>1. i \in 1 .. Len(s) - (k + 1) + 1 /\ (k + 1) + i - 1 = k + i /\ k + i \in 1 .. Len(s) BY <1>0, <1>4
  <2> QED BY <1>9, <2>1
<1>12. /\ new \in Seq(Nat) /\ Len(new) = Len(q) + 1 /\ (\A i \in 1 .. Len(q) : new[i] = q[i]) /\ new[Len(q) + 1] = tok
  BY <1>8, <1>9, AppendProperties
<1> HIDE DEF new
<1>13. Len(q) \in Nat BY <1>9
<1>14. DbOrdered(new)
  <2> SUFFICES ASSUME NEW i \in 1 .. Len(q) + 1, NEW j \in 1 .. Len(q) + 1, i < j PROVE new[i] < new[j]
    BY <1>12 DEF DbOrdered
  <2>1. i \in 1 .. Len(q) BY <1>13
  <2>2. new[i] = s[k + i] /\ k + i \in 1 .. Len(s) BY <1>11, <1>12, <2>1
  <2>3. CASE j = Len(q) + 1 BY <1>12, <2>2, <2>3
  <2>4. CASE j # Len(q) + 1
    <3>1. j \in 1 .. Len(q) BY <1>13, <2>4
    <3>2. new[j] = s[k + j] /\ k + j \in 1 .. Len(s) BY <1>11, <1>12, <3>1
    <3>3. k + i < k + j BY <1>4, <1>13
    <3> QED BY <1>0, <2>2, <3>2, <3>3
  <2> QED BY <2>3, <2>4
<1>15. Len(new) <= DbCap BY <1>0, <1>4, <1>6, <1>10, <1>12
<1>16. /\ ToSet(s) = {s[i] : i \in 1 .. Len(s)} /\ ToSet(out) = {out[i] : i \in 1 .. k} /\ ToSet(q) = {q[i] : i \in 1 .. Len(q)}
  <2>1. DOMAIN s = 1 .. Len(s) BY <1>0
  <2>2. DOMAIN out = 1 .. k BY <1>3 DEF k
  <2>3. DOMAIN q = 1 .. Len(q) BY <1>9
  <2> QED BY <2>1, <2>2, <2>3 DEF ToSet
<1>17. ToSet(new) = ToSet(q) \cup {tok}
  <2>1. DOMAIN new = 1 .. Len(q) + 1 /\ ToSet(new) = {new[i] : i \in 1 .. Len(q) + 1}
    <3>1. DOMAIN new = 1 .. Len(q) + 1 BY <1>12
    <3> QED BY <3>1 DEF ToSet
  <2>2. \A i \in 1 .. Len(q) + 1 : i \in 1 .. Len(q) \/ i = Len(q) + 1 BY <1>13
  <2>3. \A i \in 1 .. Len(q) : i \in 1 .. Len(q) + 1 BY <1>13
  <2>4. Len(q) + 1 \in 1 .. Len(q) + 1 BY <1>13
  <2>5. ToSet(new) \subseteq ToSet(q) \cup {tok} BY <1>12, <1>16, <2>1, <2>2
  <2>6. ToSet(q) \cup {tok} \subseteq ToSet(new) BY <1>12, <1>16, <2>1, <2>3, <2>4
  <2> QED BY <2>5, <2>6
<1>18. ToSet(q) = ToSet(s) \ ToSet(out)
  <2>1. \A i \in 1 .. k : i \in 1 .. Len(s) BY <1>0, <1>4
  <2>2. ToSet(q) \subseteq ToSet(s) \ ToSet(out)
    <3> SUFFICES ASSUME NEW i \in 1 .. Len(q) PROVE q[i] \in ToSet(s) \ ToSet(out) BY <1>16
    <3>1. q[i] = s[k + i] /\ k + i \in 1 .. Len(s) BY <1>11
    <3>2. q[i] \in ToSet(s) BY <1>16, <3>1
    <3>3. ASSUME NEW j \in 1 .. k, out[j] = q[i] PROVE FALSE
      <4>1. j \in 1 .. Len(s) /\ out[j] = s[j] /\ j < k + i BY <1>4, <1>5, <1>13, <2>1
      <4>2. s[j] < s[k + i] /\ s[j] \in Nat BY <1>0, <3>1, <4>1
      <4> QED BY <3>1, <3>3, <4>1, <4>2
    <3> QED BY <1>16, <3>2, <3>3
  <2>3. ToSet(s) \ ToSet(out) \subseteq ToSet(q)
    <3> SUFFICES ASSUME NEW i \in 1 .. Len(s), s[i] \notin ToSet(out) PROVE s[i] \in ToSet(q) BY <1>16
    <3>1. i \notin 1 .. k BY <1>5, <1>16
    <3>2. i - k \in 1 .. Len(q) /\ k + (i - k) = i BY <1>0, <1>4, <1>10, <3>1
    <3>3. q[i - k] = s[i] BY <1>11, <3>2
    <3> QED BY <1>16, <3>2, <3>3
  <2> QED BY <2>2, <2>3
<1>19. DbOrdered(new) /\ Len(new) <= DbCap /\ ToSet(new) = (ToSet(s) \ ToSet(out)) \cup {tok}
  BY <1>14, <1>15, <1>17, <1>18
<1> QED BY <1>19 DEF new, kept, out

\* The sessions of a user.
DbLive(e, u) == {t \in DOMAIN e : e[t].user = u}

DbSessionsOK ==
    /\ DbEntriesOK /\ DOMAIN dbPer = DbKnown
    /\ \A u \in DbKnown : /\ DbOrdered(dbPer[u]) /\ Len(dbPer[u]) <= DbCap
                          /\ ToSet(dbPer[u]) = DbLive(dbEntries, u)

LEMMA DbSessionsInit == DbInit => DbSessionsOK
<1> SUFFICES ASSUME DbInit PROVE DbSessionsOK OBVIOUS
<1>1. DOMAIN dbEntries = {} /\ dbPer = [u \in DbKnown |-> <<>>] BY DEF DbInit, DbKnown
<1>2. DbOrdered(<<>>) /\ Len(<<>>) = 0 /\ ToSet(<<>>) = {} BY DEF DbOrdered, ToSet
<1>3. 0 <= DbCap BY DbNumbers
<1>4. \A u : DbLive(dbEntries, u) = {} BY <1>1 DEF DbLive
<1> QED BY <1>1, <1>2, <1>3, <1>4 DEF DbSessionsOK, DbEntriesOK

LEMMA DbSessionsCreate ==
  ASSUME DbReqsOK, DbSessionsOK, NEW r \in DbReqs, DbCreate(r)
  PROVE  DbSessionsOK'
<1>1. PICK u : u = dbReq[r].user OBVIOUS
<1>2. u \in DbKnown /\ dbIssued \in Nat /\ dbNow \in Nat /\ DbTimeout \in Nat
  BY <1>1, DbNumbers DEF DbCreate, DbReqsOK, DbReqGood
<1> DEFINE s == dbPer[u]
           tok == dbIssued + 1
           out == DbEvicted(u)
           gone == ToSet(out)
           new == Append(SubSeq(s, Len(out) + 1, Len(s)), tok)
           rec == [user |-> u, expires |-> dbNow + DbTimeout]
<1>3. /\ dbIssued' = tok
      /\ dbEntries' = [t \in (DOMAIN dbEntries \ gone) \cup {tok} |-> IF t = tok THEN rec ELSE dbEntries[t]]
      /\ dbPer' = [dbPer EXCEPT ![u] = new]
  BY <1>1 DEF DbCreate
<1>4. DbOrdered(s) /\ Len(s) <= DbCap /\ ToSet(s) = DbLive(dbEntries, u) /\ DOMAIN dbPer = DbKnown
  BY <1>2 DEF DbSessionsOK
<1>5. DOMAIN dbEntries \subseteq 1 .. dbIssued /\ \A t \in DOMAIN dbEntries : dbEntries[t] \in [user : DbKnown, expires : Nat]
  BY DEF DbSessionsOK, DbEntriesOK
<1>6. \A i \in 1 .. Len(s) : s[i] < tok
  <2> SUFFICES ASSUME NEW i \in 1 .. Len(s) PROVE s[i] < tok OBVIOUS
  <2>1. s \in Seq(Nat) BY <1>4 DEF DbOrdered
  <2>2. s[i] \in ToSet(s) BY <2>1 DEF ToSet
  <2>3. s[i] \in 1 .. dbIssued BY <1>4, <1>5, <2>2 DEF DbLive
  <2> QED BY <1>2, <2>3
<1>7. DbOrdered(new) /\ Len(new) <= DbCap /\ ToSet(new) = (ToSet(s) \ gone) \cup {tok}
  <2>1. tok \in Nat BY <1>2
  <2>2. out = SubSeq(s, 1, Len(s) - (DbCap - 1)) BY DEF DbEvicted
  <2> HIDE DEF s, tok, out
  <2> QED BY <1>4, <1>6, <2>1, <2>2, DbListCreated
<1>8. gone \subseteq ToSet(s)
  <2>1. s \in Seq(Nat) BY <1>4 DEF DbOrdered
  <2> DEFINE m == Len(s) - (DbCap - 1)
  <2>2. out = SubSeq(s, 1, m) BY DEF DbEvicted
  <2>3. Len(s) \in Nat /\ DOMAIN s = 1 .. Len(s) /\ m \in Int /\ m <= Len(s) BY <2>1, DbNumbers
  <2>4. \A i \in 1 .. m : s[i] \in Nat /\ i \in DOMAIN s BY <2>1, <2>3
  <2> HIDE DEF m, s, out
  <2>5. /\ out \in Seq(Nat) /\ Len(out) = (IF 1 <= m THEN m - 1 + 1 ELSE 0)
        /\ \A i \in 1 .. m - 1 + 1 : out[i] = s[1 + i - 1]
    BY <2>1, <2>2, <2>3, <2>4, SubSeqProperties
  <2>6. \A i \in 1 .. Len(out) : out[i] = s[i] /\ i \in DOMAIN s
    <3> SUFFICES ASSUME NEW i \in 1 .. Len(out) PROVE out[i] = s[i] /\ i \in DOMAIN s OBVIOUS
    <3>1. i \in 1 .. m - 1 + 1 /\ i \in 1 .. m /\ 1 + i - 1 = i
      <4>1. CASE 1 <= m BY <2>3, <2>5, <4>1
      <4>2. CASE ~(1 <= m) BY <2>5, <4>2
      <4> QED BY <4>1, <4>2
    <3> QED BY <2>4, <2>5, <3>1
  <2>7. DOMAIN out = 1 .. Len(out) BY <2>5
  <2> QED BY <2>6, <2>7 DEF ToSet
<1>9. tok \notin DOMAIN dbEntries /\ tok \in 1 .. tok /\ 1 .. dbIssued \subseteq 1 .. tok BY <1>2, <1>5
<1>10. rec \in [user : DbKnown, expires : Nat] /\ rec.user = u BY <1>2
<1> HIDE DEF tok, gone, new, rec, out
<1>11. DOMAIN dbEntries' = (DOMAIN dbEntries \ gone) \cup {tok} /\ dbEntries'[tok] = rec
       /\ \A t \in DOMAIN dbEntries \ gone : dbEntries'[t] = dbEntries[t]
  BY <1>3, <1>9
<1>12. DbEntriesOK' BY <1>3, <1>5, <1>9, <1>10, <1>11 DEF DbEntriesOK
<1>13. DOMAIN dbPer' = DbKnown /\ dbPer'[u] = new /\ \A w \in DbKnown \ {u} : dbPer'[w] = dbPer[w] BY <1>2, <1>3, <1>4
<1>14. DbLive(dbEntries', u) = (DbLive(dbEntries, u) \ gone) \cup {tok} BY <1>9, <1>10, <1>11 DEF DbLive
<1>15. \A w \in DbKnown \ {u} : DbLive(dbEntries', w) = DbLive(dbEntries, w)
  <2> SUFFICES ASSUME NEW w \in DbKnown, w # u PROVE DbLive(dbEntries', w) = DbLive(dbEntries, w) OBVIOUS
  <2>1. \A t \in gone : t \in DOMAIN dbEntries /\ dbEntries[t].user = u BY <1>4, <1>8 DEF DbLive
  <2> QED BY <1>9, <1>10, <1>11, <2>1 DEF DbLive
<1>16. ASSUME NEW w \in DbKnown
       PROVE  DbOrdered(dbPer'[w]) /\ Len(dbPer'[w]) <= DbCap /\ ToSet(dbPer'[w]) = DbLive(dbEntries', w)
  <2>1. CASE w = u BY <1>4, <1>7, <1>13, <1>14, <2>1
  <2>2. CASE w # u BY <1>13, <1>15, <2>2 DEF DbSessionsOK
  <2> QED BY <2>1, <2>2
<1> QED BY <1>12, <1>13, <1>16 DEF DbSessionsOK

LEMMA DbSessionsRemove ==
  ASSUME DbSessionsOK, NEW tok, DbRemove(tok), dbIssued' = dbIssued
  PROVE  DbSessionsOK'
<1>1. CASE tok \notin DOMAIN dbEntries
  <2>1. dbEntries' = dbEntries /\ dbPer' = dbPer BY <1>1 DEF DbRemove
  <2> QED BY <2>1 DEF DbSessionsOK, DbEntriesOK
<1>2. CASE tok \in DOMAIN dbEntries
  <2>1. PICK u : u = dbEntries[tok].user OBVIOUS
  <2>2. /\ dbEntries' = Restrict(dbEntries, DOMAIN dbEntries \ {tok})
        /\ dbPer' = [dbPer EXCEPT ![u] = RemoveFirst(@, tok)]
    BY <1>2, <2>1 DEF DbRemove, DbListWithout
  <2>3. u \in DbKnown /\ DOMAIN dbPer = DbKnown BY <1>2, <2>1 DEF DbSessionsOK, DbEntriesOK
  <2>4. DOMAIN dbEntries' = DOMAIN dbEntries \ {tok} /\ \A t \in DOMAIN dbEntries' : dbEntries'[t] = dbEntries[t]
    BY <2>2 DEF Restrict
  <2>5. DbEntriesOK' BY <2>4 DEF DbSessionsOK, DbEntriesOK
  <2>6. /\ DOMAIN dbPer' = DbKnown /\ dbPer'[u] = RemoveFirst(dbPer[u], tok)
        /\ \A w \in DbKnown \ {u} : dbPer'[w] = dbPer[w]
    BY <2>2, <2>3
  <2>7. ASSUME NEW w \in DbKnown
        PROVE  DbOrdered(dbPer'[w]) /\ Len(dbPer'[w]) <= DbCap /\ ToSet(dbPer'[w]) = DbLive(dbEntries', w)
    <3>0. DbOrdered(dbPer[w]) /\ Len(dbPer[w]) <= DbCap /\ ToSet(dbPer[w]) = DbLive(dbEntries, w) BY DEF DbSessionsOK
    <3>1. CASE w = u
      <4>1. /\ DbOrdered(dbPer'[w]) /\ Len(dbPer'[w]) <= Len(dbPer[w]) /\ ToSet(dbPer'[w]) = ToSet(dbPer[w]) \ {tok}
        BY <2>6, <3>0, <3>1, DbListRemoved
      <4>2. DbLive(dbEntries', w) = DbLive(dbEntries, w) \ {tok} BY <2>4 DEF DbLive
      <4>3. Len(dbPer'[w]) \in Nat /\ Len(dbPer[w]) \in Nat /\ DbCap \in Nat BY <3>0, <4>1, DbNumbers DEF DbOrdered
      <4> QED BY <3>0, <4>1, <4>2, <4>3
    <3>2. CASE w # u
      <4>1. DbLive(dbEntries', w) = DbLive(dbEntries, w) BY <2>1, <2>4, <3>2 DEF DbLive
      <4> QED BY <2>6, <3>0, <3>2, <4>1
    <3> QED BY <3>1, <3>2
  <2> QED BY <2>5, <2>6, <2>7 DEF DbSessionsOK
<1> QED BY <1>1, <1>2

LEMMA DbSessionsNext ==
  ASSUME DbReqsOK, DbSessionsOK, [DbNext]_dbVars
  PROVE  DbSessionsOK'
<1>1. ASSUME UNCHANGED dbSessions PROVE DbSessionsOK'
  BY <1>1 DEF DbSessionsOK, DbEntriesOK, dbSessions
<1>2. ASSUME NEW r \in DbReqs, NEW tok \in 1 .. dbIssued, NEW csrf \in BOOLEAN, NEW act \in {"view", "logout", "ban", "allow"},
             DbArrives(r, tok, act, csrf)
      PROVE  DbSessionsOK'
  <2>0. dbIssued' = dbIssued /\ dbNow \in Nat /\ DbTimeout \in Nat BY <1>2, DbNumbers DEF DbArrives, DbReqsOK
  <2>1. CASE tok \in DOMAIN dbEntries /\ dbNow < dbEntries[tok].expires
    <3>1. dbEntries' = [dbEntries EXCEPT ![tok].expires = dbNow + DbTimeout] /\ dbPer' = dbPer BY <1>2, <2>1 DEF DbArrives
    <3>2. \A t \in DOMAIN dbEntries : dbEntries[t] \in [user : DbKnown, expires : Nat] BY DEF DbSessionsOK, DbEntriesOK
    <3>3. DOMAIN dbEntries' = DOMAIN dbEntries BY <3>1
    <3>4. ASSUME NEW t \in DOMAIN dbEntries
          PROVE  dbEntries'[t] \in [user : DbKnown, expires : Nat] /\ dbEntries'[t].user = dbEntries[t].user
      <4>1. CASE t = tok
        <5>1. dbEntries'[t] = [dbEntries[t] EXCEPT !.expires = dbNow + DbTimeout] BY <3>1, <4>1
        <5>2. dbNow + DbTimeout \in Nat BY <2>0
        <5> QED BY <3>2, <5>1, <5>2
      <4>2. CASE t # tok
        <5>1. dbEntries'[t] = dbEntries[t] BY <3>1, <4>2
        <5> QED BY <3>2, <5>1
      <4> QED BY <4>1, <4>2
    <3>5. \A u : DbLive(dbEntries', u) = DbLive(dbEntries, u) BY <3>3, <3>4 DEF DbLive
    <3>6. DbEntriesOK' BY <2>0, <3>3, <3>4 DEF DbSessionsOK, DbEntriesOK
    <3> QED BY <3>1, <3>5, <3>6 DEF DbSessionsOK
  <2>2. CASE ~(tok \in DOMAIN dbEntries /\ dbNow < dbEntries[tok].expires)
    <3>1. DbRemove(tok) BY <1>2, <2>2 DEF DbArrives
    <3> QED BY <2>0, <3>1, DbSessionsRemove
  <2> QED BY <2>1, <2>2
<1>3. ASSUME NEW r \in DbReqs, DbUnknown(r) \/ DbLogout(r) PROVE DbSessionsOK'
  <2>1. DbRemove(dbReq[r].tok) /\ dbIssued' = dbIssued BY <1>3 DEF DbUnknown, DbLogout
  <2>2. PICK tok : tok = dbReq[r].tok OBVIOUS
  <2>3. DbRemove(tok) BY <2>1, <2>2 DEF DbRemove, DbListWithout
  <2> QED BY <2>1, <2>3, DbSessionsRemove
<1>4. ASSUME NEW r \in DbReqs, DbCreate(r) PROVE DbSessionsOK' BY <1>4, DbSessionsCreate
<1>5. ASSUME NEW r, DbLoginWrong(r) \/ DbLoginRight(r) \/ DbLookupFails(r) \/ DbGranted(r) \/ DbWrite(r) \/ DbEnds(r)
      PROVE  DbSessionsOK'
  BY <1>1, <1>5 DEF DbLoginWrong, DbLoginRight, DbLookupFails, DbGranted, DbWrite, DbEnds
<1>6. ASSUME NEW r, NEW u, NEW good, DbLoginAllowed(r, u, good) PROVE DbSessionsOK' BY <1>1, <1>6 DEF DbLoginAllowed
<1>7. ASSUME NEW u, DbLoginRefused(u) PROVE DbSessionsOK' BY <1>1, <1>7 DEF DbLoginRefused
<1>8. ASSUME NEW roles, DbReload(roles) PROVE DbSessionsOK' BY <1>1, <1>8 DEF DbReload
<1>9. ASSUME DbTick PROVE DbSessionsOK' BY <1>1, <1>9 DEF DbTick
<1>10. CASE DbNext
  <2> USE <1>10
  <2> QED BY <1>2, <1>3, <1>4, <1>5, <1>6, <1>7, <1>8, <1>9, DbSteps
<1>11. CASE UNCHANGED dbVars BY <1>1, <1>11 DEF dbVars
<1> QED BY <1>10, <1>11

-----------------------------------------------------------------------------

\* The invariant of sign-in, sessions and roles.
DbIndInv == DbReqsOK /\ DbSessionsOK /\ DbThrottleOK

\* For any users, sessions, limits and requests in flight: every request knows
\* who asks and what its role check found, the session store's two indexes agree
\* and keep the cap (Create, enforceCapLocked, removeLocked), and what the
\* throttle has counted accounts for the guesses (Allow, RecordFailure).
THEOREM DbInvariant == DbSpec => []DbIndInv
<1>1. DbInit => DbIndInv BY DbReqsInit, DbSessionsInit, DbThrottleInit DEF DbIndInv
<1>2. DbIndInv /\ [DbNext]_dbVars => DbIndInv'
  <2> SUFFICES ASSUME DbIndInv, [DbNext]_dbVars PROVE DbIndInv' OBVIOUS
  <2>1. DbReqsOK /\ DbSessionsOK /\ DbThrottleOK /\ DbEntriesOK BY DEF DbIndInv, DbSessionsOK
  <2> QED BY <2>1, DbReqsNext, DbSessionsNext, DbThrottleNext DEF DbIndInv
<1> QED BY <1>1, <1>2, PTL DEF DbSpec

LEMMA DbTyped == DbIndInv => DbTypeOK
<1> SUFFICES ASSUME DbIndInv PROVE DbTypeOK OBVIOUS
<1>1. dbNow \in 1 .. DbMaxTime /\ dbTries \in 0 .. DbMaxTries[dbScene] /\ dbRole \in [DbUsers -> 0 .. 3]
  BY DEF DbIndInv, DbReqsOK
<1>2. dbIssued \in 0 .. dbTries
  <2>1. DbSigning \in SUBSET DbReqs BY DEF DbSigning
  <2>2. Cardinality(DbSigning) \in Nat BY <2>1, DbPart
  <2>3. dbIssued + Cardinality(DbSigning) <= dbTries /\ dbIssued \in Nat BY DEF DbIndInv, DbReqsOK
  <2>4. dbTries \in Nat BY <1>1
  <2> QED BY <2>2, <2>3, <2>4
<1>3. DOMAIN dbEntries \subseteq 1 .. dbIssued /\ DOMAIN dbFail \subseteq DbAny
  BY DEF DbIndInv, DbSessionsOK, DbEntriesOK, DbThrottleOK, DbTallies
<1>4. \A r \in DbReqs : dbReq[r].pc \in {"idle", "verify", "create", "role", "handle"}
  <2>1. \A r \in DbReqs : dbReq[r] \in DbReqShape BY DEF DbIndInv, DbReqsOK, DbReqGood
  <2> QED BY <2>1 DEF DbReqShape
<1> QED BY <1>1, <1>2, <1>3, <1>4 DEF DbTypeOK

LEMMA DbExact == DbIndInv => DbSessionsExact
<1> SUFFICES ASSUME DbIndInv, NEW u \in DbUsers \cup DbAdmins
             PROVE  /\ ToSet(dbPer[u]) = {t \in DOMAIN dbEntries : dbEntries[t].user = u}
                    /\ Len(dbPer[u]) <= DbCap
                    /\ \A i, j \in DOMAIN dbPer[u] : i < j => dbPer[u][i] < dbPer[u][j]
  BY DEF DbSessionsExact
<1>1. DbOrdered(dbPer[u]) /\ Len(dbPer[u]) <= DbCap /\ ToSet(dbPer[u]) = DbLive(dbEntries, u)
  BY DEF DbIndInv, DbSessionsOK, DbKnown
<1>2. DOMAIN dbPer[u] = 1 .. Len(dbPer[u]) BY <1>1 DEF DbOrdered
<1> QED BY <1>1, <1>2 DEF DbOrdered, DbLive

LEMMA DbGuessed == DbIndInv => DbGuessBound
<1> SUFFICES ASSUME DbIndInv PROVE DbGuessBound OBVIOUS
<1>0. dbNow \in Nat /\ DbWindow \in Nat BY DbNumbers DEF DbIndInv, DbReqsOK
<1>1. ASSUME NEW s, DbStamps(dbNow, s), NEW n \in Nat, DbAtMost(s, dbNow - DbWindow, n) PROVE Len(DbTrim(s)) <= n /\ Len(DbTrim(s)) \in Nat
  <2>1. PICK k : DbCut(dbNow, s, DbTrim(s), k) BY <1>0, <1>1, DbTrimIs
  <2>2. Len(DbTrim(s)) <= n BY <1>0, <1>1, <2>1, DbCutAtMost
  <2>3. DbTrim(s) \in Seq(Nat) BY <2>1 DEF DbCut
  <2> QED BY <2>2, <2>3
<1>2. ASSUME NEW u \in DbAny PROVE Len(DbTrim(dbGuesses[u])) <= 2 * (DbMax - 1) + Cardinality(DbReqs)
  <2>1. DbStamps(dbNow, dbGuesses[u]) BY DEF DbIndInv, DbThrottleOK, DbTallies, DbTallyOK
  <2>2. DbAtMost(dbGuesses[u], dbNow - DbWindow, DbQuota(u)) BY DEF DbIndInv, DbThrottleOK, DbGuessesOK
  <2>3. /\ DbQuota(u) \in Nat /\ DbQuota(u) <= 2 * (DbMax - 1) + Cardinality(DbReqs)
        /\ 2 * (DbMax - 1) \in Nat /\ Cardinality(DbReqs) \in Nat
    BY DbQuotas
  <2>4. Len(DbTrim(dbGuesses[u])) <= DbQuota(u) /\ Len(DbTrim(dbGuesses[u])) \in Nat BY <1>1, <2>1, <2>2, <2>3
  <2> QED BY <2>3, <2>4
<1>3. Len(DbTrim(dbGlobal)) <= DbGlobalMax - 1 + Cardinality(DbReqs)
  <2>1. DbStamps(dbNow, dbGlobal) /\ DbAtMost(dbGlobal, dbNow - DbWindow, DbQuotaAll) BY DEF DbIndInv, DbThrottleOK, DbGuessesOK
  <2>2. /\ DbQuotaAll \in Nat /\ DbQuotaAll <= DbGlobalMax - 1 + Cardinality(DbReqs)
        /\ DbGlobalMax - 1 \in Nat /\ Cardinality(DbReqs) \in Nat
    BY DbQuotas
  <2>3. Len(DbTrim(dbGlobal)) <= DbQuotaAll /\ Len(DbTrim(dbGlobal)) \in Nat BY <1>1, <2>1, <2>2
  <2> QED BY <2>2, <2>3
<1> QED BY <1>2, <1>3 DEF DbGuessBound

\* The guesses of one account within a window exceed two rounds of the throttle
\* (Allow, RecordFailure) by the requests in flight at most, all guesses the
\* global limit; pruneLocked keeps the throttle's map no longer than the global
\* limit and the requests in flight; a session is in both indexes or in none; a
\* role taken away by ReloadUsers keeps out every request whose role is checked
\* after it. The map's bound needs what the code has, a lockout as long as the
\* window (throttleLockout, throttleWindow): with a longer one, entries would
\* outlive the stamps of the global list that pay for them.
THEOREM DashboardIsSafe ==
  ASSUME DbLockout = DbWindow
  PROVE  DbSpec => DbSafe
<1>1. DbInit => DbSizeOK BY DbThrottleInit
<1>2. DbIndInv /\ DbSizeOK /\ [DbNext]_dbVars => DbSizeOK' BY DbThrottleNext DEF DbIndInv
<1>3. DbIndInv /\ DbSizeOK => DbTypeOK /\ DbSessionsExact /\ DbGuessBound /\ DbThrottleBounded
  BY DbTyped, DbExact, DbGuessed DEF DbSizeOK, DbThrottleBounded
<1>4. DbIndInv /\ [DbNext]_dbVars =>
        \A r \in DbReqs :
          (dbWrites' # dbWrites /\ dbReq'[r] # dbReq[r] /\ ~dbReq[r].reloaded) =>
            \/ dbReq[r].user \in DbAdmins
            \/ dbRole[dbReq[r].user] >= (IF dbReq[r].act = "ban" THEN 2 ELSE 3)
  BY DbRoleStep DEF DbIndInv
<1> QED BY <1>1, <1>2, <1>3, <1>4, DbInvariant, PTL DEF DbSpec, DbSafe, DbRoleCurrent
=============================================================================

------------------------------ MODULE SshPeers ------------------------------
(***************************************************************************)
(* SSH anti-lockout: the cached list of ESTABLISHED SSH peers              *)
(* (decision/sshpeers.go), its narrowing to logged-in peers                *)
(* (decision/authpeers.go), and the deferred re-check of a ban that the    *)
(* list suppressed (daemon/sshrecheck.go).                                 *)
(*                                                                         *)
(* Times are ages or countdowns in ticks, saturating where a comparison    *)
(* can no longer change.  An evidence is a would-be ban: verdicts at or    *)
(* above ban_threshold while the rule windows hold them.                   *)
(***************************************************************************)
EXTENDS Integers, FiniteSets

CONSTANTS SpIPs, SpPeerTTL, SpSessTTL, SpGrace, SpWindow,
          SpMaxAttempts,  \* sshRecheckMaxAttempts
          SpMaxPending,   \* sshRecheckMaxPending
          SpMaxEvents     \* bound of the model: events that carry evidence

ASSUME SpAssumption ==
    /\ {SpPeerTTL, SpSessTTL, SpWindow, SpMaxAttempts, SpMaxPending} \subseteq Nat \ {0}
    /\ SpGrace \in Nat /\ SpMaxEvents \in Nat

VARIABLES
    spUp,       \* age of the SSH connection of an address, -1 when none
    spIn,       \* age of its logind session, -1 when none
    spPeers, spPeersAge,          \* sshPeerCache
    spSess, spSessAge,            \* the logind reader's cache
    spSeen,     \* AuthenticatedPeerFilter.firstSeen, as an age, -1 when none
    spWin,      \* how long the evidence stays in the rule windows
    spQ,        \* sshRecheckQueue.pending: [due, att], att = -1 when absent
    spItem,     \* the items popped by the re-check goroutine: att, or -1
    spRef,      \* history: ticks since the last refusal
    spOwed,     \* history: refused would-be bans still to be looked at again
    spCrowd,    \* other addresses fill the re-check queue
    spBans, spEvents

spWorld == <<spUp, spIn, spCrowd>>
spProbe == <<spPeers, spPeersAge, spSess, spSessAge, spSeen>>
spQueue == <<spQ, spItem>>
spVars == <<spWorld, spProbe, spQueue, spWin, spRef, spOwed, spBans, spEvents>>

SpNone == [due |-> 0, att |-> -1]
SpUnavailable == [ok |-> FALSE, hosts |-> {}]
SpOld == SpPeerTTL + SpSessTTL + SpGrace + 1

\* defaultSSHRecheckDelay.
SpDelay == 2 * SpPeerTTL

SpTypeOK ==
    /\ spUp \in [SpIPs -> -1..SpOld] /\ spIn \in [SpIPs -> -1..SpOld]
    /\ spPeers \subseteq SpIPs /\ spPeersAge \in 0..SpPeerTTL + 1
    /\ spSess \in [ok : BOOLEAN, hosts : SUBSET SpIPs] /\ spSessAge \in 0..SpSessTTL
    /\ spSeen \in [SpIPs -> -1..SpGrace + 1] /\ spWin \in [SpIPs -> 0..SpWindow]
    /\ spQ \in [SpIPs -> [due : 0..SpDelay, att : -1..SpMaxAttempts - 1]]
    /\ spItem \in [SpIPs -> -1..SpMaxAttempts - 1]
    /\ spRef \in [SpIPs -> 0..SpDelay + 1]
    /\ spCrowd \in BOOLEAN /\ spOwed \subseteq SpIPs /\ spBans \subseteq SpIPs /\ spEvents \in 0..SpMaxEvents

SpInit ==
    /\ spUp = [i \in SpIPs |-> -1] /\ spIn = [i \in SpIPs |-> -1]
    /\ spPeers = {} /\ spPeersAge = SpPeerTTL + 1
    /\ spSess = SpUnavailable /\ spSessAge = SpSessTTL
    /\ spSeen = [i \in SpIPs |-> -1] /\ spWin = [i \in SpIPs |-> 0]
    /\ spQ = [i \in SpIPs |-> SpNone] /\ spItem = [i \in SpIPs |-> -1]
    /\ spRef = [i \in SpIPs |-> SpDelay + 1]
    /\ spCrowd = FALSE /\ spOwed = {} /\ spBans = {} /\ spEvents = 0

---------------------------------------------------------------------------
(* The peer list.                                                          *)

\* ProcSSHPeers: what the kernel lists as ESTABLISHED on sshd's ports.
SpEstablished == {i \in SpIPs : spUp[i] >= 0}

\* logindRemoteHosts: the addresses with a session, or no trustworthy answer
\* (loginctl missing, failing, timing out, or naming hosts).
SpRemoteHosts == {SpUnavailable, [ok |-> TRUE, hosts |-> {i \in SpIPs : spIn[i] >= 0}]}

\* firstSeen: set at first sight, dropped when the connection is gone.
SpFirstSeen == [i \in SpIPs |-> IF spUp[i] < 0 THEN -1 ELSE IF spSeen[i] < 0 THEN 0 ELSE spSeen[i]]

\* Mutant: an unavailable logind is read as "nobody is logged in".
SpKeptClosed(sess, seen) == {i \in SpEstablished : i \in sess.hosts \/ seen[i] <= SpGrace}

\* AuthenticatedPeerFilter.Peers: without an answer no narrowing; with one, a
\* peer stays immune while it has a session or is within its grace window.
SpKept(sess, seen) ==
    IF sess.ok THEN {i \in SpEstablished : i \in sess.hosts \/ seen[i] <= SpGrace} ELSE SpEstablished

\* NewLogindSessionProbe: the cached answer within its TTL, else a new one.
SpSessions == IF spSessAge < SpSessTTL THEN {spSess} ELSE SpRemoteHosts

\* sshPeerCache.get: the cached list within its TTL, else a probe.
SpPeersAre(peers) ==
    IF spPeersAge <= SpPeerTTL
    THEN peers = spPeers /\ UNCHANGED spProbe
    ELSE \E sess \in SpSessions :
            /\ peers = SpKept(sess, SpFirstSeen)
            /\ spSeen' = SpFirstSeen
            /\ spSess' = sess /\ spSessAge' = IF spSessAge < SpSessTTL THEN spSessAge ELSE 0
            /\ spPeers' = peers /\ spPeersAge' = 0

---------------------------------------------------------------------------
(* The queue.                                                              *)

SpArmed == {i \in SpIPs : spQ[i].att >= 0}
SpFull == spCrowd \/ Cardinality(SpArmed) >= SpMaxPending

\* schedule, and maybeScheduleSSHRecheck around it: an event-driven refusal
\* re-arms with a fresh budget; a full queue drops a new address (logged).
SpSchedule(ip) ==
    IF ip \in SpArmed \/ ~SpFull
    THEN spQ' = [spQ EXCEPT ![ip] = [due |-> SpDelay, att |-> 0]] /\ spOwed' = spOwed \cup {ip}
    ELSE UNCHANGED <<spQ, spOwed>>

\* requeue: within the budget, an entry armed meanwhile wins, a full queue
\* drops.  A drop is noted in the audit log (noteSSHRecheckDropped): nothing
\* is owed any more unless a fresh entry is armed.
SpRequeue(ip, att) ==
    IF att < SpMaxAttempts /\ (ip \in SpArmed \/ ~SpFull)
    THEN /\ spQ' = IF ip \in SpArmed THEN spQ ELSE [spQ EXCEPT ![ip] = [due |-> SpDelay, att |-> att]]
         /\ UNCHANGED spOwed
    ELSE UNCHANGED spQ /\ spOwed' = IF ip \in SpArmed THEN spOwed ELSE spOwed \ {ip}

\* Mutant: the deadline comparison is inverted.
SpPopEarly ==
    LET due == {i \in SpArmed : spQ[i].due = SpDelay}
    IN  /\ \A i \in SpIPs : spItem[i] = -1
        /\ due # {}
        /\ spItem' = [i \in SpIPs |-> IF i \in due THEN spQ[i].att ELSE -1]
        /\ spQ' = [i \in SpIPs |-> IF i \in due THEN SpNone ELSE spQ[i]]
        /\ UNCHANGED <<spWorld, spProbe, spWin, spRef, spOwed, spBans, spEvents>>

\* due: the re-check goroutine takes every entry whose deadline has passed.
SpPop ==
    LET due == {i \in SpArmed : spQ[i].due = 0}
    IN  /\ \A i \in SpIPs : spItem[i] = -1
        /\ due # {}
        /\ spItem' = [i \in SpIPs |-> IF i \in due THEN spQ[i].att ELSE -1]
        /\ spQ' = [i \in SpIPs |-> IF i \in due THEN SpNone ELSE spQ[i]]
        /\ UNCHANGED <<spWorld, spProbe, spWin, spRef, spOwed, spBans, spEvents>>

---------------------------------------------------------------------------
(* Decide, as the two goroutines call it.                                  *)

SpRefused(ip) == spRef' = [spRef EXCEPT ![ip] = 0]
SpTaken(ip) == spItem' = [spItem EXCEPT ![ip] = -1]
SpSettled(ip) == spOwed' = IF ip \in SpArmed THEN spOwed ELSE spOwed \ {ip}

\* processRaw: an event of an address without an active ban, with evidence.
SpEvent(ip) ==
    /\ spEvents < SpMaxEvents /\ spEvents' = spEvents + 1 /\ ip \notin spBans
    /\ spWin' = [spWin EXCEPT ![ip] = SpWindow]
    /\ \E peers \in SUBSET SpIPs :
        /\ SpPeersAre(peers)
        /\ IF ip \in peers
           THEN SpRefused(ip) /\ SpSchedule(ip) /\ UNCHANGED spBans
           ELSE /\ UNCHANGED <<spRef, spQ>>
                /\ \/ spBans' = spBans \cup {ip} /\ spOwed' = spOwed \ {ip}
                   \/ UNCHANGED <<spBans, spOwed>>       \* rate limit or store error
    /\ UNCHANGED <<spWorld, spItem>>

\* recheckAfterAntiLockout: allowlisted at run time, aged out, banned
\* meanwhile, or a Decide error other than the rate limit: dropped.
SpRecheckDropped(ip) ==
    /\ spItem[ip] >= 0 /\ SpTaken(ip) /\ SpSettled(ip)
    /\ UNCHANGED <<spWorld, spProbe, spQ, spWin, spRef, spBans, spEvents>>

\* The ban rate limit: alert and retry later.
SpRecheckLimited(ip) ==
    /\ spItem[ip] >= 0 /\ spWin[ip] > 0 /\ ip \notin spBans /\ SpTaken(ip)
    /\ \E peers \in SUBSET SpIPs : SpPeersAre(peers) /\ ip \notin peers
    /\ SpRequeue(ip, spItem[ip] + 1)
    /\ UNCHANGED <<spWorld, spWin, spRef, spBans, spEvents>>

\* Still ESTABLISHED: refused again, re-armed within the budget.
SpRecheckRefused(ip) ==
    /\ spItem[ip] >= 0 /\ spWin[ip] > 0 /\ ip \notin spBans /\ SpTaken(ip)
    /\ \E peers \in SUBSET SpIPs : SpPeersAre(peers) /\ ip \in peers
    /\ SpRefused(ip) /\ SpRequeue(ip, spItem[ip] + 1)
    /\ UNCHANGED <<spWorld, spWin, spBans, spEvents>>

SpRecheckBans(ip) ==
    /\ spItem[ip] >= 0 /\ spWin[ip] > 0 /\ ip \notin spBans /\ SpTaken(ip)
    /\ \E peers \in SUBSET SpIPs : SpPeersAre(peers) /\ ip \notin peers
    /\ spBans' = spBans \cup {ip} /\ spOwed' = spOwed \ {ip}
    /\ UNCHANGED <<spWorld, spQ, spWin, spRef, spEvents>>

SpRecheck(ip) == SpRecheckDropped(ip) \/ SpRecheckLimited(ip) \/ SpRecheckRefused(ip) \/ SpRecheckBans(ip)

---------------------------------------------------------------------------
(* Peers come and go; time passes.                                         *)

SpConnect(ip) ==
    /\ spUp[ip] = -1 /\ spUp' = [spUp EXCEPT ![ip] = 0]
    /\ UNCHANGED <<spIn, spCrowd, spProbe, spQueue, spWin, spRef, spOwed, spBans, spEvents>>

SpLogin(ip) ==
    /\ spUp[ip] >= 0 /\ spIn[ip] = -1 /\ spIn' = [spIn EXCEPT ![ip] = 0]
    /\ UNCHANGED <<spUp, spCrowd, spProbe, spQueue, spWin, spRef, spOwed, spBans, spEvents>>

SpDisconnect(ip) ==
    /\ spUp[ip] >= 0
    /\ spUp' = [spUp EXCEPT ![ip] = -1] /\ spIn' = [spIn EXCEPT ![ip] = -1]
    /\ UNCHANGED <<spCrowd, spProbe, spQueue, spWin, spRef, spOwed, spBans, spEvents>>

\* Events of other addresses: Decide looks at the same cached list, and their
\* refusals take or leave room in the queue.
SpOthers ==
    /\ \/ /\ spPeersAge > SpPeerTTL /\ \E peers \in SUBSET SpIPs : SpPeersAre(peers)
          /\ UNCHANGED spWorld
       \/ spCrowd' = ~spCrowd /\ UNCHANGED <<spUp, spIn, spProbe>>
    /\ UNCHANGED <<spQueue, spWin, spRef, spOwed, spBans, spEvents>>

SpBanEnds(ip) ==
    /\ ip \in spBans /\ spBans' = spBans \ {ip}
    /\ UNCHANGED <<spWorld, spProbe, spQueue, spWin, spRef, spOwed, spEvents>>

SpUpTo(age, top) == IF age < 0 \/ age = top THEN age ELSE age + 1
SpDown(n) == IF n = 0 THEN 0 ELSE n - 1

\* One tick; the re-check goroutine is not running (its pass is short).
SpTick ==
    /\ \A i \in SpIPs : spItem[i] = -1 /\ ~(i \in SpArmed /\ spQ[i].due = 0)
    /\ spUp' = [i \in SpIPs |-> SpUpTo(spUp[i], SpOld)]
    /\ spIn' = [i \in SpIPs |-> SpUpTo(spIn[i], SpOld)]
    /\ spSeen' = [i \in SpIPs |-> SpUpTo(spSeen[i], SpGrace + 1)]
    /\ spPeersAge' = SpUpTo(spPeersAge, SpPeerTTL + 1) /\ spSessAge' = SpUpTo(spSessAge, SpSessTTL)
    /\ spRef' = [i \in SpIPs |-> SpUpTo(spRef[i], SpDelay + 1)]
    /\ spWin' = [i \in SpIPs |-> SpDown(spWin[i])]
    /\ spQ' = [i \in SpIPs |-> [spQ[i] EXCEPT !.due = SpDown(@)]]
    /\ UNCHANGED <<spCrowd, spPeers, spSess, spItem, spOwed, spBans, spEvents>>

SpNext ==
    \/ \E ip \in SpIPs : \/ SpEvent(ip) \/ SpRecheck(ip) \/ SpBanEnds(ip)
                         \/ SpConnect(ip) \/ SpLogin(ip) \/ SpDisconnect(ip)
    \/ SpPop \/ SpTick \/ SpOthers

SpRechecker == SpPop \/ \E ip \in SpIPs : SpRecheck(ip)

\* The re-check goroutine's ticker fires and time passes.
SpSpec == SpInit /\ [][SpNext]_spVars /\ WF_spVars(SpRechecker) /\ WF_spVars(SpTick)

---------------------------------------------------------------------------
(* Properties.                                                             *)

\* No address is banned while it holds an SSH connection with a login, once
\* both are older than what the two caches can hide (Hard Rule 1): not by an
\* event, not by a re-check, whatever loginctl answers.
SpOperatorSafe ==
    [][\A i \in spBans' \ spBans : spUp[i] <= SpPeerTTL \/ spIn[i] <= SpPeerTTL + SpSessTTL]_spVars

\* A re-check never decides from the list that justified the refusal: the
\* delay outlives the cache, so no attempt of the budget is wasted (except
\* when a new event was refused in the same tick, spRef = 0).
SpFreshRecheck ==
    [][\A i \in SpIPs : /\ spItem[i] >= 0 /\ spItem'[i] = -1 /\ spRef[i] > 0
                        /\ (i \in spBans' \ spBans \/ spRef'[i] = 0)
                        => spPeersAge' < spRef[i]]_spVars

\* A refused would-be ban is armed or being looked at until it is banned,
\* dropped for a reason, or its drop is audited: the pipeline and the
\* re-check goroutine never lose it between them.
SpNotForgotten == spOwed \subseteq SpArmed \cup {i \in SpIPs : spItem[i] >= 0}

\* Once the events stop, every refused would-be ban is settled.
SpResolved == \A i \in SpIPs : []<>(i \notin spOwed)

\* Hard Rule 1 across the gate's caches and the re-check queues: nobody with a
\* live session is banned, a re-check looks again instead of repeating the list
\* that justified the refusal, and no refused ban is lost on the way.
SpSafe == [](SpTypeOK /\ SpNotForgotten) /\ SpOperatorSafe /\ SpFreshRecheck
=============================================================================

---------------------------- MODULE EdgeSets -----------------------------
(* The two edge enforcers that own a whole remote address set and keep an  *)
(* ordered cache of what they put there: BunnyEnforcer (blocked IPs of a   *)
(* pull zone, one call per address) and AWSWAFEnforcer (a WAFv2 IPSet,     *)
(* read and replaced under an optimistic lock), behind MultiEnforcer,      *)
(* which calls every enforcer whatever the others answer.                  *)
EXTENDS Naturals, Sequences, FiniteSets, SequencesExt

CONSTANTS EsIPs,        \* addresses
          EsCap,        \* DefaultBunnyZoneCap, awsIPSetCap
          EsLockTries,  \* awsLockRetries + 1
          EsMaxCalls,   \* bound: daemon calls
          EsMaxFaults   \* bound: failed calls and foreign writes

ASSUME EsAssumption == /\ IsFiniteSet(EsIPs) /\ EsCap \in Nat \ {0} /\ EsLockTries \in Nat \ {0}
                       /\ EsMaxCalls \in Nat /\ EsMaxFaults \in Nat

EsBackends == {"bunny", "aws"}

VARIABLES
    esRemote,   \* backend -> the addresses at the edge
    esToken,    \* the IPSet's lock token: it changed since the last read
    esRead,     \* what the read in progress returned
    esOrder,    \* backend -> cache, oldest to newest
    esJob,      \* backend -> the call it is working on
    esWant,     \* the bans of the store, oldest first
    esCalls, esFaults

esBounds == <<esCalls, esFaults>>
esVars == <<esRemote, esToken, esRead, esOrder, esJob, esWant, esBounds>>

EsNoJob == [op |-> "none", ip |-> "none", del |-> {}, add |-> <<>>, got |-> <<>>, tries |-> 0, read |-> FALSE]

EsTypeOK ==
    /\ esRemote \in [EsBackends -> SUBSET EsIPs] /\ esToken \in BOOLEAN /\ esRead \subseteq EsIPs
    /\ \A b \in EsBackends : /\ ToSet(esOrder[b]) \subseteq EsIPs /\ IsInjective(esOrder[b]) /\ Len(esOrder[b]) <= EsCap
                             /\ esJob[b].op \in {"none", "ban", "unban", "fetch", "sync"}
                             /\ esJob[b].tries \in 0..EsLockTries
    /\ IsInjective(esWant) /\ ToSet(esWant) \subseteq EsIPs
    /\ esCalls \in 0..EsMaxCalls /\ esFaults \in 0..EsMaxFaults

EsInit ==
    /\ esRemote \in [EsBackends -> SUBSET EsIPs] /\ esToken = FALSE /\ esRead = {}
    /\ esOrder = [b \in EsBackends |-> <<>>] /\ esJob = [b \in EsBackends |-> EsNoJob]
    /\ esWant = <<>> /\ esCalls = 0 /\ esFaults = 0

EsFault == esFaults < EsMaxFaults /\ esFaults' = esFaults + 1
EsIdle == \A b \in EsBackends : esJob[b] = EsNoJob
EsCall == EsIdle /\ esCalls < EsMaxCalls /\ esCalls' = esCalls + 1
EsEnd(b) == esJob' = [esJob EXCEPT ![b] = EsNoJob]

\* The first match leaves the list, and only it.
EsDrop(s, ip) == RemoveFirst(s, ip)

\* Sync's desired set: beyond the cap the newest targets only.
EsKept(want) == SubSeq(want, IF Len(want) > EsCap THEN Len(want) - EsCap + 1 ELSE 1, Len(want))

---------------------------------------------------------------------------
(* MultiEnforcer: the call reaches every enforcer.                         *)

EsBan(ip) ==
    /\ EsCall /\ ip \notin ToSet(esWant) /\ esWant' = Append(esWant, ip)
    /\ esJob' = [b \in EsBackends |->
        IF ip \in ToSet(esOrder[b]) THEN EsNoJob        \* already managed: no call
        ELSE [EsNoJob EXCEPT !.op = "ban", !.ip = ip,
                             !.del = IF Len(esOrder[b]) >= EsCap THEN {Head(esOrder[b])} ELSE {}]]
    /\ UNCHANGED <<esRemote, esToken, esRead, esOrder, esFaults>>

EsUnban(ip) ==
    /\ EsCall /\ ip \in ToSet(esWant) /\ esWant' = EsDrop(esWant, ip)
    /\ esJob' = [b \in EsBackends |-> [EsNoJob EXCEPT !.op = "unban", !.ip = ip, !.del = {ip}]]
    /\ UNCHANGED <<esRemote, esToken, esRead, esOrder, esFaults>>

EsSync ==
    /\ EsIdle
    /\ esJob' = [b \in EsBackends |-> [EsNoJob EXCEPT !.op = IF b = "bunny" THEN "fetch" ELSE "sync", !.add = EsKept(esWant)]]
    /\ UNCHANGED <<esRemote, esToken, esRead, esOrder, esWant, esBounds>>

\* A ban that expires: the store drops it, the next Sync removes it.
EsExpire(ip) ==
    /\ EsCall /\ ip \in ToSet(esWant) /\ esWant' = EsDrop(esWant, ip)
    /\ UNCHANGED <<esRemote, esToken, esRead, esOrder, esJob, esFaults>>

---------------------------------------------------------------------------
(* bunny.                                                                  *)

EsAt(ip, on) == esRemote' = [esRemote EXCEPT !["bunny"] = IF on THEN @ \cup {ip} ELSE @ \ {ip}]

\* banZone, at capacity: the oldest managed entry goes first.
EsBunnyEvict ==
    LET j == esJob["bunny"]
    IN  /\ j.op = "ban" /\ j.del # {} /\ EsAt(Head(esOrder["bunny"]), FALSE)
        /\ esOrder' = [esOrder EXCEPT !["bunny"] = Tail(@)]
        /\ esJob' = [esJob EXCEPT !["bunny"].del = {}]
        /\ UNCHANGED <<esToken, esRead, esWant, esBounds>>

EsBunnyAdd ==
    LET j == esJob["bunny"]
    IN  /\ j.op = "ban" /\ j.del = {} /\ EsAt(j.ip, TRUE)
        /\ esOrder' = [esOrder EXCEPT !["bunny"] = Append(@, j.ip)] /\ EsEnd("bunny")
        /\ UNCHANGED <<esToken, esRead, esWant, esBounds>>

\* Unban.
EsBunnyRemove ==
    LET j == esJob["bunny"]
    IN  /\ j.op = "unban" /\ EsAt(j.ip, FALSE)
        /\ esOrder' = [esOrder EXCEPT !["bunny"] = EsDrop(@, j.ip)] /\ EsEnd("bunny")
        /\ UNCHANGED <<esToken, esRead, esWant, esBounds>>

\* A failed call of a ban or unban, or a failed fetch, ends the operation on
\* this zone; a mutation may have taken effect.
EsBunnyFails ==
    LET j == esJob["bunny"]
    IN  /\ j.op \in {"ban", "unban", "fetch"} /\ EsFault /\ EsEnd("bunny")
        /\ \/ UNCHANGED esRemote
           \/ j.op = "ban" /\ EsAt(IF j.del = {} THEN j.ip ELSE Head(esOrder["bunny"]), j.del = {})
           \/ j.op = "unban" /\ EsAt(j.ip, FALSE)
        /\ UNCHANGED <<esToken, esRead, esOrder, esWant, esCalls>>

\* syncZone: fetchBlockedIPs, then the stale entries to remove.
EsBunnyFetch ==
    LET j == esJob["bunny"]
    IN  /\ j.op = "fetch"
        /\ esJob' = [esJob EXCEPT !["bunny"].op = "sync", !["bunny"].del = esRemote["bunny"] \ ToSet(j.add)]
        /\ UNCHANGED <<esRemote, esToken, esRead, esOrder, esWant, esBounds>>

\* One removal of a stale entry; a failure is reported, the loop goes on.
EsBunnyPrune(ip, ok) ==
    LET j == esJob["bunny"]
    IN  /\ j.op = "sync" /\ ip \in j.del
        /\ IF ok THEN EsAt(ip, FALSE) /\ UNCHANGED esFaults ELSE EsFault /\ (UNCHANGED esRemote \/ EsAt(ip, FALSE))
        /\ esJob' = [esJob EXCEPT !["bunny"].del = @ \ {ip}]
        /\ UNCHANGED <<esToken, esRead, esOrder, esWant, esCalls>>

\* One wanted address: present at the fetch, or added now; a failed add is
\* left out of the cache.
EsBunnyFill(ok) ==
    LET j == esJob["bunny"]  ip == Head(j.add)
    IN  /\ j.op = "sync" /\ j.del = {} /\ j.add # <<>>
        /\ IF ok THEN EsAt(ip, TRUE) /\ UNCHANGED esFaults
           ELSE ip \notin esRemote["bunny"] /\ EsFault /\ (UNCHANGED esRemote \/ EsAt(ip, TRUE))
        /\ esJob' = [esJob EXCEPT !["bunny"].add = Tail(@), !["bunny"].got = IF ok THEN Append(@, ip) ELSE @]
        /\ UNCHANGED <<esToken, esRead, esOrder, esWant, esCalls>>

EsBunnySynced ==
    LET j == esJob["bunny"]
    IN  /\ j.op = "sync" /\ j.del = {} /\ j.add = <<>>
        /\ esOrder' = [esOrder EXCEPT !["bunny"] = j.got] /\ EsEnd("bunny")
        /\ UNCHANGED <<esRemote, esToken, esRead, esWant, esBounds>>

---------------------------------------------------------------------------
(* AWS WAF: mutateIPSet, read -> mutate -> write with the lock token.      *)

\* getIPSet: the addresses and the token.
EsAwsRead ==
    LET j == esJob["aws"]
    IN  /\ j.op \in {"ban", "unban", "sync"} /\ ~j.read
        /\ esRead' = esRemote["aws"] /\ esToken' = TRUE
        /\ esJob' = [esJob EXCEPT !["aws"].read = TRUE, !["aws"].tries = @ + 1]
        /\ UNCHANGED <<esRemote, esOrder, esWant, esBounds>>

\* Mutant: the update goes out whatever the token.
EsAwsFreshAlways == TRUE

\* UpdateIPSet is accepted only with the token of the last write.
EsAwsFresh == esToken

EsAwsWrite ==
    LET j == esJob["aws"]
    IN  /\ j.op # "none" /\ j.read /\ EsAwsFresh
        /\ esRemote' = [esRemote EXCEPT !["aws"] =
            CASE j.op = "ban"   -> (esRead \ j.del) \cup {j.ip}
              [] j.op = "unban" -> esRead \ {j.ip}
              [] j.op = "sync"  -> ToSet(j.add)]
        /\ esOrder' = [esOrder EXCEPT !["aws"] =
            CASE j.op = "ban"   -> Append(IF j.del = {} THEN @ ELSE Tail(@), j.ip)
              [] j.op = "unban" -> EsDrop(@, j.ip)
              [] j.op = "sync"  -> j.add]
        /\ esToken' = FALSE /\ EsEnd("aws")
        /\ UNCHANGED <<esRead, esWant, esBounds>>

\* WAFOptimisticLockException: re-read, a bounded number of times.
EsAwsConflict ==
    LET j == esJob["aws"]
    IN  /\ j.op # "none" /\ j.read /\ ~esToken
        /\ IF j.tries < EsLockTries THEN esJob' = [esJob EXCEPT !["aws"].read = FALSE] ELSE EsEnd("aws")
        /\ UNCHANGED <<esRemote, esToken, esRead, esOrder, esWant, esBounds>>

\* Any other failure ends the call; a write may have taken effect.
EsAwsFails ==
    LET j == esJob["aws"]
    IN  /\ j.op # "none" /\ EsFault /\ EsEnd("aws")
        /\ \/ UNCHANGED <<esRemote, esToken>>
           \/ /\ j.read /\ esToken /\ esToken' = FALSE
              /\ esRemote' = [esRemote EXCEPT !["aws"] =
                    CASE j.op = "ban"   -> (esRead \ j.del) \cup {j.ip}
                      [] j.op = "unban" -> esRead \ {j.ip}
                      [] j.op = "sync"  -> ToSet(j.add)]
        /\ UNCHANGED <<esRead, esOrder, esWant, esCalls>>

\* Another writer of the IPSet: its write changes the token.
EsAwsOther(ip) ==
    /\ EsFault /\ ip \notin esRemote["aws"]
    /\ esRemote' = [esRemote EXCEPT !["aws"] = @ \cup {ip}] /\ esToken' = FALSE
    /\ UNCHANGED <<esRead, esOrder, esJob, esWant, esCalls>>

EsBunny == \/ EsBunnyEvict \/ EsBunnyAdd \/ EsBunnyRemove \/ EsBunnyFails \/ EsBunnyFetch \/ EsBunnySynced
           \/ \E ok \in BOOLEAN : EsBunnyFill(ok) \/ \E ip \in EsIPs : EsBunnyPrune(ip, ok)
EsAws == EsAwsRead \/ EsAwsWrite \/ EsAwsConflict \/ EsAwsFails
EsNext == \/ \E ip \in EsIPs : EsBan(ip) \/ EsUnban(ip) \/ EsExpire(ip) \/ EsAwsOther(ip)
          \/ EsSync \/ EsBunny \/ EsAws

\* A call in flight returns; the daemon keeps reconciling.
EsSpec == EsInit /\ [][EsNext]_esVars /\ WF_esVars(EsBunny) /\ WF_esVars(EsAws) /\ WF_esVars(EsSync)

---------------------------------------------------------------------------
(* Properties.                                                             *)

EsNewest == {esWant[i] : i \in {k \in 1..Len(esWant) : Len(esWant) - k < EsCap}}

\* Whatever was lost, refused or written by others, reconciling brings both
\* edges to exactly the newest bans of the store, and they stay there while
\* the store does not change and no call fails.
EsConverges == <>[](\A b \in EsBackends : EsIdle => esRemote[b] = EsNewest)

\* A ban or an unban never undoes what another writer added to the IPSet: the
\* update is computed from the content it replaces.
EsNoLostUpdate == [][ (esJob["aws"].op \in {"ban", "unban"} /\ esRemote' # esRemote)
                        => esRemote["aws"] \ esRemote'["aws"] \subseteq esJob["aws"].del ]_esVars

\* Bunny's and AWS' address sets: both caches list an address once and stay within
\* the edge's capacity, and a retried update loses nobody's entry.
EsSafe == []EsTypeOK /\ EsNoLostUpdate
==========================================================================

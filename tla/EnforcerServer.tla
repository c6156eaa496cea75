--------------------------- MODULE EnforcerServer ---------------------------
(***************************************************************************)
(* The privileged helper (internal/enforcerd) and the reconcile client of  *)
(* the daemon (NftablesEnforcer.Sync) that relies on it.                   *)
(*   kernel    the blocked sets of every nftables table: the deadline of   *)
(*             an element, Perm without one, Absent when there is none     *)
(*   cache     Server.blocked, the helper's copy: what `list` answers from *)
(*   mutateMu  the lock that makes one unit of a verb's nft invocations    *)
(*             and its cache write (issue #418)                            *)
(*   table     Server.names, the table the helper works on, and pinned     *)
(* A deadline is kept as the time that is left; time passes between any    *)
(* two steps, and an element whose time is up is gone from the kernel      *)
(* without any step of the helper. An element is the set of addresses it   *)
(* covers.                                                                 *)
(***************************************************************************)
EXTENDS Integers, FiniteSets

CONSTANTS
    Address,   \* the addresses of the instance
    Elem,      \* the elements that may be in a set, as sets of addresses
    Want,      \* the permanent bans of the store: what a reconcile wants
    Client,    \* connections that add and delete elements
    MaxTTL,    \* the longest timeout they ask for
    Env        \* the environment events the instance admits

Absent  == -1
Perm    == MaxTTL + 1   \* no deadline
Forever == 0            \* TTLSeconds 0: no timeout

ASSUME EnforcerAssumption ==
    /\ Elem \subseteq (SUBSET Address) \ {{}}
    /\ IsFiniteSet(Address)
    /\ Want \subseteq {e \in Elem : Cardinality(e) = 1}
    /\ MaxTTL \in Nat \ {0}
    /\ {"sync", "none"} \cap Client = {}

Table == {"default", "custom"}
Conn  == Client \cup {"sync"}
NoConn == "none"

VARIABLES
    kernel, cache, mutateMu, table, pinned,
    pc,          \* the step of the request a connection has sent
    elem, ttl,   \* the element and the timeout it names
    old,         \* the deadline the cache had for it when the add began
    stale,       \* the entries `list` has found past their deadline
    toAdd, toDel, covered, removed,   \* the state of a Sync in progress
    configured,  \* the table the daemon's configuration names
    calm,        \* nothing fails and no one but the reconcile calls any more
    revived      \* an observation: a rollback has put an element back whose
                 \* time was up

serverVars == <<kernel, cache, mutateMu, table, pinned>>
reqVars    == <<elem, ttl, old, stale>>
syncVars   == <<toAdd, toDel, covered, removed>>
envVars    == <<configured, calm, revived>>
vars       == <<serverVars, pc, reqVars, syncVars, envVars>>

Goto(k, l) == pc' = [pc EXCEPT ![k] = l]

Deadline(t) == IF t = Forever THEN Perm ELSE t

\* An entry that is 0 is past its deadline: the kernel has dropped it.
Live(d) == d > 0

Aged(d) == IF d \in 1 .. MaxTTL THEN d - 1 ELSE d

Set == kernel[table]

\* The live elements nft refuses to hold together with e.
Clash(e) == {x \in Elem \ {e} : Live(Set[x]) /\ x \cap e # {}}

InTable(els) == kernel' = [kernel EXCEPT ![table] = els]

\* `add element`: an element that is there already keeps its timer.
Added(e, d) == [Set EXCEPT ![e] = IF Live(Set[e]) THEN Set[e] ELSE d]

CacheIs(e, d) == cache' = [cache EXCEPT ![e] = d]

\* An nft invocation may fail.
NftFails == "nft" \in Env /\ ~calm
-----------------------------------------------------------------------------
(* The reply, and what it means for a reconcile: an error ends the Sync,   *)
(* an addition the helper reports as covered is remembered.                *)

Done(k) ==
    /\ Goto(k, "idle")
    /\ elem' = [elem EXCEPT ![k] = {}]
    /\ ttl'  = [ttl EXCEPT ![k] = Forever]
    /\ old'  = [old EXCEPT ![k] = Absent]
    /\ stale' = stale

Outcome(k, code) ==
    /\ Done(k)
    /\ IF k # "sync" THEN UNCHANGED syncVars
       ELSE CASE code = "error" ->
                   /\ toAdd' = {} /\ toDel' = {} /\ covered' = {}
                   /\ removed' = FALSE
              [] code = "covered" ->
                   /\ covered' = covered \cup {elem[k]}
                   /\ UNCHANGED <<toAdd, toDel, removed>>
              [] code = "deleted" ->
                   /\ removed' = TRUE
                   /\ UNCHANGED <<toAdd, toDel, covered>>
              [] OTHER -> UNCHANGED syncVars

Unlock == mutateMu' = NoConn
-----------------------------------------------------------------------------
(* resolveNames: the first request decides the table for good. *)

Serves(t) == table = t

\* switchNamesLocked for the first request, when it names another table: its
\* layout is created, the cache reloaded from it, the default table dropped.
SwitchNames(t) ==
    /\ ~pinned /\ table # t
    /\ table' = t /\ pinned' = TRUE
    /\ cache' = [e \in Elem |-> IF Live(kernel[t][e]) THEN kernel[t][e] ELSE Absent]
    /\ kernel' = [kernel EXCEPT ![table] = [e \in Elem |-> Absent]]
    /\ UNCHANGED <<mutateMu, pc, reqVars, syncVars, envVars>>
\* Afterwards a request that names another table is refused: an error reply.
Rejected ==
    /\ pc["sync"] = "idle"
    /\ pinned /\ ~Serves(configured)
    /\ UNCHANGED vars
-----------------------------------------------------------------------------
(* The verb `add`. *)

\* Mutant of AddStart: an element the cache knows is not deleted first, so
\* it keeps its old timer (the code before issue #383).
AddStartNoReplace(k, e, t) ==
    /\ mutateMu = NoConn /\ mutateMu' = k
    /\ pinned' = TRUE
    /\ elem' = [elem EXCEPT ![k] = e]
    /\ ttl'  = [ttl EXCEPT ![k] = t]
    /\ old'  = [old EXCEPT ![k] = Absent]
    /\ Goto(k, "add_exec")
    /\ UNCHANGED <<kernel, cache, table, stale, envVars>>

\* The request takes mutateMu and looks the element up in the cache.
AddStart(k, e, t) ==
    /\ mutateMu = NoConn /\ mutateMu' = k
    /\ pinned' = TRUE
    /\ elem' = [elem EXCEPT ![k] = e]
    /\ ttl'  = [ttl EXCEPT ![k] = t]
    /\ old'  = [old EXCEPT ![k] = cache[e]]
    /\ Goto(k, IF cache[e] # Absent THEN "add_del" ELSE "add_exec")
    /\ UNCHANGED <<kernel, cache, table, stale, envVars>>

\* An element the cache knows is deleted first, so that the addition
\* installs the new timeout (issue #383). It may be gone already.
AddDel(k) ==
    /\ pc[k] = "add_del"
    /\ \/ /\ InTable([Set EXCEPT ![elem[k]] = Absent])
          /\ Goto(k, "add_exec")
          /\ UNCHANGED <<mutateMu, reqVars, syncVars>>
       \/ NftFails /\ Unlock /\ Outcome(k, "error") /\ UNCHANGED kernel
    /\ UNCHANGED <<cache, table, pinned, envVars>>

\* Where a failing addition continues: the deleted element is restored.
AddFailed(k) ==
    IF old[k] # Absent
    THEN Goto(k, "add_undo") /\ UNCHANGED <<mutateMu, reqVars, syncVars>>
    ELSE Unlock /\ Outcome(k, "error")

\* nftAdd: nft takes the element, refuses it for overlapping another one (an
\* address is then covered, a prefix absorbs) or fails.
AddExec(k) ==
    /\ pc[k] = "add_exec"
    /\ \/ /\ Clash(elem[k]) = {}
          /\ InTable(Added(elem[k], Deadline(ttl[k])))
          /\ Goto(k, "add_cache")
          /\ UNCHANGED <<mutateMu, reqVars, syncVars>>
       \/ /\ Clash(elem[k]) # {}
          /\ Goto(k, IF Cardinality(elem[k]) = 1 THEN "add_covered" ELSE "absorb")
          /\ UNCHANGED <<kernel, mutateMu, reqVars, syncVars>>
       \/ NftFails /\ AddFailed(k) /\ UNCHANGED kernel
    /\ UNCHANGED <<cache, table, pinned, envVars>>

\* The narrower elements of the cache that a prefix replaces.
Contained(e) == {x \in Elem \ {e} : cache[x] # Absent /\ x \subseteq e}

\* addOverlapping for a prefix: they are deleted one by one, and the
\* addition is tried once more.
Absorb(k) ==
    /\ pc[k] = "absorb"
    /\ \/ \E x \in Contained(elem[k]) :
             /\ InTable([Set EXCEPT ![x] = Absent])
             /\ CacheIs(x, Absent)
             /\ UNCHANGED <<pc, mutateMu, reqVars, syncVars>>
       \/ /\ Contained(elem[k]) = {} /\ Clash(elem[k]) = {}
          /\ InTable(Added(elem[k], Deadline(ttl[k])))
          /\ Goto(k, "add_cache")
          /\ UNCHANGED <<cache, mutateMu, reqVars, syncVars>>
       \/ /\ NftFails \/ (Contained(elem[k]) = {} /\ Clash(elem[k]) # {})
          /\ AddFailed(k)
          /\ UNCHANGED <<kernel, cache>>
    /\ UNCHANGED <<table, pinned, envVars>>

\* The restored element was past its deadline: it lives again, for a second.
Revives(k) == revived' = (revived \/ (~Live(old[k]) /\ kernel' # kernel))

\* Mutant of AddUndo: the failed restore leaves the cache as it was.
AddUndoKeepsCache(k) ==
    /\ pc[k] = "add_undo"
    /\ \/ /\ Clash(elem[k]) = {}
          /\ InTable([Set EXCEPT ![elem[k]] =
                         IF Live(old[k]) THEN old[k] ELSE 1])
       \/ (NftFails \/ Clash(elem[k]) # {}) /\ UNCHANGED kernel
    /\ Unlock /\ Outcome(k, "error")
    /\ Revives(k)
    /\ UNCHANGED <<cache, table, pinned, configured, calm>>

\* The interrupted replacement (issue #214): the old element is restored for
\* the rest of its life, at least a second; if that fails too, the cache is
\* made to agree with the kernel.
AddUndo(k) ==
    /\ pc[k] = "add_undo"
    /\ \/ /\ Clash(elem[k]) = {}
          /\ InTable([Set EXCEPT ![elem[k]] =
                         IF Live(old[k]) THEN old[k] ELSE 1])
          /\ UNCHANGED cache
       \/ /\ NftFails \/ Clash(elem[k]) # {}
          /\ CacheIs(elem[k], Absent)
          /\ UNCHANGED kernel
    /\ Unlock /\ Outcome(k, "error")
    /\ Revives(k)
    /\ UNCHANGED <<table, pinned, configured, calm>>

\* The cache follows the kernel; a covered address is not ours to claim
\* (issue #590).
AddCache(k) ==
    /\ pc[k] \in {"add_cache", "add_covered"}
    /\ CacheIs(elem[k], IF pc[k] = "add_covered" THEN Absent ELSE Deadline(ttl[k]))
    /\ Unlock
    /\ Outcome(k, IF pc[k] = "add_covered" THEN "covered" ELSE "ok")
    /\ UNCHANGED <<kernel, table, pinned, envVars>>
-----------------------------------------------------------------------------
(* The verbs `del`, `flush` and `list`. *)

\* The element is deleted from the kernel, then from the cache.
DelStart(k, e) ==
    /\ mutateMu = NoConn /\ mutateMu' = k
    /\ pinned' = TRUE
    /\ elem' = [elem EXCEPT ![k] = e]
    /\ Goto(k, "del_exec")
    /\ UNCHANGED <<kernel, cache, table, ttl, old, stale, envVars>>

\* nftDel; nft reports an element that has timed out as absent.
DelExec(k) ==
    /\ pc[k] = "del_exec"
    /\ \/ /\ InTable([Set EXCEPT ![elem[k]] = Absent])
          /\ Goto(k, IF Live(Set[elem[k]]) THEN "del_cache" ELSE "del_absent")
          /\ UNCHANGED <<mutateMu, reqVars, syncVars>>
       \/ NftFails /\ Unlock /\ Outcome(k, "error") /\ UNCHANGED kernel
    /\ UNCHANGED <<cache, table, pinned, envVars>>

DelCache(k) ==
    /\ pc[k] \in {"del_cache", "del_absent"}
    /\ CacheIs(elem[k], Absent)
    /\ Unlock
    /\ Outcome(k, IF pc[k] = "del_cache" THEN "deleted" ELSE "ok")
    /\ UNCHANGED <<kernel, table, pinned, envVars>>

FlushStart(k) ==
    /\ mutateMu = NoConn /\ mutateMu' = k
    /\ pinned' = TRUE
    /\ Goto(k, "flush_exec")
    /\ UNCHANGED <<kernel, cache, table, reqVars, syncVars, envVars>>

FlushExec(k) ==
    /\ pc[k] = "flush_exec"
    /\ \/ /\ InTable([e \in Elem |-> Absent])
          /\ Goto(k, "flush_cache")
          /\ UNCHANGED mutateMu
       \/ NftFails /\ Unlock /\ Goto(k, "idle") /\ UNCHANGED kernel
    /\ UNCHANGED <<cache, table, pinned, reqVars, syncVars, envVars>>

FlushCache(k) ==
    /\ pc[k] = "flush_cache"
    /\ cache' = [e \in Elem |-> Absent]
    /\ Unlock /\ Goto(k, "idle")
    /\ UNCHANGED <<kernel, table, pinned, reqVars, syncVars, envVars>>

\* What `list` reports: the cache without what the kernel has timed out.
Listed == {e \in Elem : Live(cache[e])}

\* Sync begins with `list` and splits the difference to the desired state.
SyncList ==
    /\ pc["sync"] = "idle" /\ Serves(configured)
    /\ toAdd = {} /\ toDel = {} /\ covered = {}
    /\ pinned' = TRUE
    /\ toAdd' = Want \ Listed
    /\ toDel' = Listed \ Want
    /\ removed' = FALSE
    /\ stale' = {e \in Elem : cache[e] = 0}
    /\ Goto("sync", "list_prune")
    /\ UNCHANGED <<kernel, cache, mutateMu, table, elem, ttl, old, covered, envVars>>

\* The lazy prune of `list`, re-checked under the write lock.
ListPrune ==
    /\ pc["sync"] = "list_prune"
    /\ cache' = [e \in Elem |-> IF e \in stale /\ cache[e] = 0 THEN Absent ELSE cache[e]]
    /\ stale' = {}
    /\ Goto("sync", "idle")
    /\ UNCHANGED <<kernel, mutateMu, table, pinned, elem, ttl, old, syncVars, envVars>>
-----------------------------------------------------------------------------
(* NftablesEnforcer.Sync after `list`: the additions, the removals, and    *)
(* once more the additions that were covered by something now removed.     *)

SyncAdd ==
    /\ pc["sync"] = "idle" /\ Serves(configured)
    /\ \E e \in toAdd : AddStart("sync", e, Forever) /\ toAdd' = toAdd \ {e}
    /\ UNCHANGED <<toDel, covered, removed>>

SyncDel ==
    /\ pc["sync"] = "idle" /\ Serves(configured)
    /\ toAdd = {}
    /\ \E e \in toDel : DelStart("sync", e) /\ toDel' = toDel \ {e}
    /\ UNCHANGED <<toAdd, covered, removed>>

SyncCovered ==
    /\ pc["sync"] = "idle"
    /\ toAdd = {} /\ toDel = {} /\ covered # {}
    /\ toAdd' = IF removed THEN covered ELSE {}
    /\ covered' = {} /\ removed' = FALSE
    /\ UNCHANGED <<serverVars, pc, reqVars, toDel, envVars>>
-----------------------------------------------------------------------------
(* Requests, time, the network and the host. *)

ClientRequest(k) ==
    /\ ~calm /\ pc[k] = "idle"
    /\ \/ Serves(configured) /\ \E e \in Elem, t \in 0 .. MaxTTL : AddStart(k, e, t)
       \/ Serves(configured) /\ \E e \in Elem : DelStart(k, e)
    /\ UNCHANGED syncVars

\* `disable --local-only` names no table: it asks for the default one.
LocalFlush(k) ==
    /\ "flush" \in Env /\ ~calm /\ pc[k] = "idle"
    /\ Serves("default")
    /\ FlushStart(k)

Tick ==
    /\ kernel' = [t \in Table |-> [e \in Elem |-> Aged(kernel[t][e])]]
    /\ cache' = [e \in Elem |-> Aged(cache[e])]
    /\ old' = [k \in Conn |-> Aged(old[k])]
    /\ <<kernel, cache, old>>' # <<kernel, cache, old>>
    /\ UNCHANGED <<mutateMu, table, pinned, pc, elem, ttl, stale, syncVars, envVars>>

\* The helper dies at any step and starts anew: Init loads the cache from the
\* default table, and every request in flight fails.
Restart ==
    /\ "crash" \in Env /\ ~calm
    /\ table' = "default" /\ pinned' = FALSE
    /\ cache' = [e \in Elem |-> IF Live(kernel["default"][e])
                                THEN kernel["default"][e] ELSE Absent]
    /\ mutateMu' = NoConn
    /\ pc' = [k \in Conn |-> "idle"]
    /\ elem' = [k \in Conn |-> {}]
    /\ ttl' = [k \in Conn |-> Forever]
    /\ old' = [k \in Conn |-> Absent]
    /\ stale' = {}
    /\ toAdd' = {} /\ toDel' = {} /\ covered' = {} /\ removed' = FALSE
    /\ UNCHANGED <<kernel, envVars>>

\* Somebody else empties the set: `nft flush set`, a firewall script.
ExternalFlush ==
    /\ ~calm
    /\ InTable([e \in Elem |-> Absent])
    /\ UNCHANGED <<cache, mutateMu, table, pinned, pc, reqVars, syncVars, envVars>>

Calm ==
    /\ "calm" \in Env /\ ~calm /\ calm' = TRUE
    /\ UNCHANGED <<serverVars, pc, reqVars, syncVars, configured, revived>>
-----------------------------------------------------------------------------
Init ==
    /\ configured \in Table
    /\ \E perm \in SUBSET Want :
          kernel = [t \in Table |-> [e \in Elem |->
                       IF t = configured /\ e \in perm THEN Perm ELSE Absent]]
    /\ table = "default" /\ pinned = FALSE
    /\ cache = kernel["default"]
    /\ mutateMu = NoConn
    /\ pc = [k \in Conn |-> "idle"]
    /\ elem = [k \in Conn |-> {}]
    /\ ttl = [k \in Conn |-> Forever]
    /\ old = [k \in Conn |-> Absent]
    /\ stale = {}
    /\ toAdd = {} /\ toDel = {} /\ covered = {} /\ removed = FALSE
    /\ calm = FALSE /\ revived = FALSE

VerbStep(k) ==
    \/ AddDel(k) \/ AddExec(k) \/ Absorb(k) \/ AddUndo(k) \/ AddCache(k)
    \/ DelExec(k) \/ DelCache(k) \/ FlushExec(k) \/ FlushCache(k)

SyncStep == SyncList \/ ListPrune \/ SyncAdd \/ SyncDel \/ SyncCovered

Next ==
    \/ \E k \in Conn : VerbStep(k)
    \/ \E k \in Client : ClientRequest(k) \/ LocalFlush(k)
    \/ SyncStep
    \/ SwitchNames(configured) \/ Rejected
    \/ Tick \/ Restart \/ Calm

Spec == Init /\ [][Next]_vars

\* A request runs to its end, the daemon's probe ticks, and a request waiting
\* for mutateMu gets it in the end.
Fairness ==
    /\ \A k \in Conn : WF_vars(VerbStep(k))
    /\ SF_vars(SyncStep) /\ WF_vars(SwitchNames(configured)) /\ WF_vars(Tick)

FairSpec == Spec /\ Fairness

\* The helper on a host where another program touches its table.
DriftSpec == Init /\ [][Next \/ ExternalFlush]_vars /\ Fairness
-----------------------------------------------------------------------------
Step == {"idle", "add_del", "add_exec", "absorb", "add_undo", "add_cache",
         "add_covered", "del_exec", "del_cache", "del_absent", "flush_exec",
         "flush_cache", "list_prune"}

\* The kernel's sets, the cache, the lock and the requests have the values
\* the code gives them.
EnforcerTypeOK ==
    /\ kernel \in [Table -> [Elem -> Absent .. Perm]]
    /\ cache \in [Elem -> Absent .. Perm]
    /\ mutateMu \in Conn \cup {NoConn}
    /\ table \in Table /\ configured \in Table
    /\ pinned \in BOOLEAN /\ removed \in BOOLEAN /\ calm \in BOOLEAN /\ revived \in BOOLEAN
    /\ pc \in [Conn -> Step]
    /\ elem \in [Conn -> Elem \cup {{}}]
    /\ ttl \in [Conn -> 0 .. MaxTTL]
    /\ old \in [Conn -> Absent .. Perm]
    /\ stale \subseteq Elem
    /\ toAdd \subseteq Want /\ covered \subseteq Want
    /\ toDel \subseteq Elem

\* server.go, mutateMu and issues #383, #418, #590: whenever no verb is at
\* work, what `list` claims to be blocked for good is blocked for good in the
\* kernel, so a reconcile that trusts `list` never leaves a permanent ban out.
\* A rollback that revives an element is excepted: `list` may prune the entry
\* it left in the cache, and an addition within that second then finds the
\* element in the kernel, keeps its timer and caches the new deadline.
NoGhost ==
    mutateMu = NoConn /\ ~revived =>
        \A e \in Elem : cache[e] = Perm => Set[e] = Perm

\* And the other way around: whenever no verb is at work, the helper knows of
\* every permanent element of its table, so a reconcile can take it out.
NoOrphan ==
    mutateMu = NoConn =>
        \A e \in Elem : Set[e] = Perm => cache[e] = Perm

\* nft.go, "Atomicity contract": the reconcile is the backstop of every step
\* that fails half-way. Once failures stop, a helper that serves the
\* configured table blocks exactly the bans of the store, with the exception
\* NoGhost makes.
Backstop ==
    <>[](calm /\ ~revived /\ table = configured =>
            {e \in Elem : Live(Set[e])} = Want)

\* Cache and kernel tell the same story whenever no verb is at work, whatever
\* nft refused, timed out or applied without saying so before (server.go's
\* mutateMu, the undo of a half-done replacement, absorbed prefixes, pruning).
CacheMatchesKernel == EnforcerTypeOK /\ NoGhost /\ NoOrphan
=============================================================================

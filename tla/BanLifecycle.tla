---------------------------- MODULE BanLifecycle ----------------------------
(***************************************************************************)
(* The life of a ban in the EzyShield daemon: from the decision that       *)
(* commits a bans_active row, through the enforcement gate, to an element  *)
(* of the kernel's blocked set, and back out of both.                      *)
(*                                                                         *)
(*   row        bans_active: no row, a real ban with a TTL ("temp") or     *)
(*              without ("perm"), a simulated one ("dry_ban"), or a row    *)
(*              past its expires_at that no reader reports any more        *)
(*   kernel     the blocked sets behind the enforcer, an element per       *)
(*              target with its timeout ("temp") or without ("perm")       *)
(*   enforceMu  the mutex that serialises kernel writes and reconciles     *)
(*   gatedQ     gatedBanRetry: the attempts a stored ban the gate refused  *)
(*              has spent, or NotQueued                                    *)
(*                                                                         *)
(* The writers are the goroutines that call Decide (Worker: the pipeline,  *)
(* the AI worker, the SSH re-check), socket connections (Conn), the        *)
(* reconcile probe, the expiry sweep, the deferred-enforcement retry and,  *)
(* after a crash, the startup sequence ("boot"). A step is what one        *)
(* goroutine does between two points where another may run.                *)
(***************************************************************************)
EXTENDS Allowlist, Integers

CONSTANTS
    Worker,       \* goroutines that call Decide and dispatch its action
    BanTarget,    \* the targets an operator bans and unbans
    MaxAttempts   \* sshRecheckMaxAttempts

Sys == {"boot", "expireAllows", "expireBans", "probe", "retry"}

NoProc == "none"   \* enforceMu is not held

ASSUME BanAssumption ==
    /\ Worker \subseteq Goroutine
    /\ Sys \subseteq Goroutine /\ NoProc \notin Goroutine
    /\ Worker \cap Conn = {} /\ Worker \cap Sys = {} /\ Conn \cap Sys = {}
    /\ \A a \in Address : {a} \in Prefix
    /\ BanTarget \subseteq Prefix
    /\ MaxAttempts \in Nat \ {0}

VARIABLES
    row, kernel, armed, enforceMu, gatedQ,
    dec,        \* the row value a goroutine has decided to write
    want,       \* the desired state of the reconcile that holds enforceMu
    skip,       \* the addresses that reconcile left out because they are guarded
    peers,      \* addresses with an established SSH connection
    quiet       \* the environment issues no further work

\* An observation the properties are about; no action reads it.
VARIABLE
    settled     \* prefixes whose `allow` has replied OK and which still stand

syncVars == <<want, skip>>
envVars  == <<peers, quiet, settled>>
banVars  == <<row, kernel, armed, enforceMu, gatedQ, dec, syncVars, envVars>>
vars     == <<allowVars, procVars, banVars>>

NotQueued == -1
Real      == {"temp", "perm"}
Live      == Real \cup {"dry_ban"}

NoElement == [t \in Prefix |-> "none"]
NoWant    == [a \in Address |-> "none"]

\* The goroutine returns to its loop, or its connection is closed.
Return(p) == Finish(p) /\ dec' = [dec EXCEPT ![p] = "none"]

\* Mutant of Acquire: enforceMu is not waited for (issue #575).
AcquireNoWait(p) == enforceMu' = p

Holds(p)   == enforceMu = p
Acquire(p) == enforceMu = NoProc /\ enforceMu' = p
Release    == enforceMu' = NoProc

IsRuntimeAllowlisted(a) == Covers(runtimeAllowlist, a)

\* Gate.refuse: the static allowlist, the runtime one, the live SSH peers.
Refuse(t) == \/ Overlaps(StaticAllow, t)
             \/ Overlaps(extra, t)
             \/ t \cap peers # {}

\* The helper's add verb: an address under a broader element is reported as
\* covered and left out, a prefix absorbs the narrower elements it covers.
KernelAdd(t, v) ==
    IF \E u \in Prefix : kernel[u] # "none" /\ t \subseteq u /\ t # u
    THEN kernel
    ELSE [u \in Prefix |-> IF u = t THEN v
                           ELSE IF u \subseteq t THEN "none" ELSE kernel[u]]

\* An enforcer call may fail until the environment quiesces.
EnforcerDown == EnforcerFails /\ ~quiet

\* A write to the store may fail too; the caller logs it and goes on.
StoreDown == "store" \in Env /\ ~quiet
StoreWrite(rows) == row' = rows \/ (StoreDown /\ row' = row)

Blocked(k, a) == \E t \in Prefix : a \in t /\ k[t] # "none"
-----------------------------------------------------------------------------
(* The pipeline: Decide, then dispatch. *)

\* processRaw up to Decide for an address whose verdicts reach the engine.
Detect(w, a) ==
    /\ ~quiet /\ Up /\ pc[w] = "idle"
    /\ ~IsRuntimeAllowlisted(a)
    /\ arg' = [arg EXCEPT ![w] = {a}]
    /\ Goto(w, "decide")
    /\ UNCHANGED <<allowVars, op, snap, listed, banVars>>

\* Decide ends without a strike: allowlist, SSH peer, CDN range, score below
\* the ban threshold, verified bot, rate limit or a store error.
DecideNoStrike(w) ==
    /\ pc[w] = "decide"
    /\ Finish(w)
    /\ UNCHANGED <<allowVars, banVars>>

\* The strike lock of an address is held from the active-ban guard to
\* RecordStrike.
StrikeLockFree(t) == \A w \in Worker : ~(pc[w] = "commit" /\ arg[w] = t)

\* GetBanInfo reports a ban that an armed engine must respect.
AlreadyBanned(a) == row[a] \in Live /\ ~(armed /\ row[a] = "dry_ban")

\* The active-ban guard, the strike's TTL and IsArmed, under the strike lock.
\* A guard that cannot be read falls through to the strike.
DecideGuard(w) ==
    /\ pc[w] = "decide"
    /\ StrikeLockFree(arg[w])
    /\ \E a \in arg[w] :
          /\ ~Covers(StaticAllow, a)
          /\ \/ AlreadyBanned(a) /\ Return(w)
             \/ /\ ~AlreadyBanned(a) \/ StoreDown
                /\ Goto(w, "commit")
                /\ \E v \in (IF armed THEN Real ELSE {"dry_ban"}) :
                      dec' = [dec EXCEPT ![w] = v]
                /\ UNCHANGED localVars
    /\ UNCHANGED <<allowVars, row, kernel, armed, enforceMu, gatedQ, syncVars,
                   envVars>>

\* RecordStrike upserts the row; a dry_ban has nothing to enforce.
DecideCommit(w) ==
    /\ pc[w] = "commit"
    /\ row' = [a \in Address |-> IF a \in arg[w] THEN dec[w] ELSE row[a]]
    /\ IF dec[w] \in Real
       THEN Goto(w, "dispatch") /\ UNCHANGED <<localVars, dec>>
       ELSE Return(w)
    /\ UNCHANGED <<allowVars, kernel, armed, enforceMu, gatedQ, syncVars,
                   envVars>>

\* RecordStrike fails: Decide returns the error and nothing is dispatched.
DecideFail(w) ==
    /\ StoreDown
    /\ pc[w] = "commit"
    /\ Return(w)
    /\ UNCHANGED <<allowVars, row, kernel, armed, enforceMu, gatedQ, syncVars,
                   envVars>>

\* dispatch takes enforceMu and the gate lets the ban through.
DispatchStart(w) ==
    /\ pc[w] = "dispatch"
    /\ ~Refuse(arg[w])
    /\ Acquire(w)
    /\ Goto(w, "apply")
    /\ UNCHANGED <<allowVars, localVars, row, kernel, armed, gatedQ, dec,
                   syncVars, envVars>>

\* The gate refuses a ban the store already holds: deferGatedBan arms a
\* retry with a fresh budget.
DispatchRefused(w) ==
    /\ pc[w] = "dispatch"
    /\ Refuse(arg[w])
    /\ enforceMu = NoProc
    /\ gatedQ' = [a \in Address |-> IF a \in arg[w] THEN 0 ELSE gatedQ[a]]
    /\ Return(w)
    /\ UNCHANGED <<allowVars, row, kernel, armed, enforceMu, syncVars,
                   envVars>>

\* The enforcer writes the element and enforceMu is released: the end of
\* dispatch for a worker and of retryGatedBan for the retry.
ApplyBan(p) ==
    /\ p \in Worker \cup {"retry"}
    /\ pc[p] = "apply" /\ Holds(p)
    /\ kernel' = KernelAdd(arg[p], dec[p])
    /\ Release
    /\ Return(p)
    /\ UNCHANGED <<allowVars, row, armed, gatedQ, syncVars, envVars>>

\* The enforcer fails: the ban stays in the store only.
ApplyFail(p) ==
    /\ EnforcerDown
    /\ p \in Worker \cup {"retry"}
    /\ pc[p] = "apply" /\ Holds(p)
    /\ Release
    /\ Return(p)
    /\ UNCHANGED <<allowVars, row, kernel, armed, gatedQ, syncVars, envVars>>
-----------------------------------------------------------------------------
(* retryGatedBan: the store is re-read and the gate asked again. *)

\* Mutant of RetryStart: the stored ban is not read again.
RetryStartStale(a) ==
    /\ pc["retry"] = "idle" /\ Up
    /\ gatedQ[a] # NotQueued
    /\ ~Refuse({a})
    /\ Acquire("retry")
    /\ gatedQ' = [gatedQ EXCEPT ![a] = NotQueued]
    /\ arg' = [arg EXCEPT !["retry"] = {a}]
    /\ dec' = [dec EXCEPT !["retry"] = "temp"]
    /\ Goto("retry", "apply")
    /\ UNCHANGED <<allowVars, op, snap, listed, row, kernel, armed, syncVars,
                   envVars>>

RetryStart(a) ==
    /\ pc["retry"] = "idle" /\ Up
    /\ gatedQ[a] # NotQueued
    /\ row[a] \in Real /\ ~Refuse({a})
    /\ Acquire("retry")
    /\ gatedQ' = [gatedQ EXCEPT ![a] = NotQueued]
    /\ arg' = [arg EXCEPT !["retry"] = {a}]
    /\ dec' = [dec EXCEPT !["retry"] = row[a]]
    /\ Goto("retry", "apply")
    /\ UNCHANGED <<allowVars, op, snap, listed, row, kernel, armed, syncVars,
                   envVars>>

\* Mutant of RetryRefused: off by one in the budget.
RetryRefusedOneMore(a) ==
    /\ pc["retry"] = "idle" /\ Up
    /\ gatedQ[a] # NotQueued
    /\ enforceMu = NoProc
    /\ row[a] \in Real => Refuse({a})
    /\ gatedQ' = [gatedQ EXCEPT ![a] =
                    IF row[a] \in Real /\ @ < MaxAttempts THEN @ + 1 ELSE NotQueued]
    /\ UNCHANGED <<allowVars, procVars, row, kernel, armed, enforceMu, dec,
                   syncVars, envVars>>

\* The ban expired, was lifted, became a dry run or cannot be read: the entry
\* is dropped.
\* A ban the gate still refuses is re-armed until the budget is spent.
RetryRefused(a) ==
    /\ pc["retry"] = "idle" /\ Up
    /\ gatedQ[a] # NotQueued
    /\ enforceMu = NoProc
    /\ row[a] \in Real => Refuse({a})
    /\ gatedQ' = [gatedQ EXCEPT ![a] =
                    IF row[a] \in Real /\ @ + 1 < MaxAttempts THEN @ + 1 ELSE NotQueued]
    /\ UNCHANGED <<allowVars, procVars, row, kernel, armed, enforceMu, dec,
                   syncVars, envVars>>
-----------------------------------------------------------------------------
(* syncEnforcer, from the probe, the expiry sweep, disable_all and boot. *)

\* Mutant of SyncReady: no periodic probe, only the event-driven reconciles.
SyncReadyNoProbe(p) == pc[p] = "sync"

SyncReady(p) == \/ p = "probe" /\ pc[p] = "idle" /\ Up
                \/ pc[p] = "sync"

\* ActiveBans, without dry runs and runtime-allowed addresses.
SyncSnapshot(p) ==
    /\ SyncReady(p)
    /\ Acquire(p)
    /\ want' = [a \in Address |-> IF row[a] \in Real /\ ~IsRuntimeAllowlisted(a)
                                  THEN row[a] ELSE "none"]
    /\ skip' = {a \in Address : row[a] \in Real /\ IsRuntimeAllowlisted(a)}
    /\ Goto(p, "sync_gate")
    /\ UNCHANGED <<allowVars, localVars, row, kernel, armed, gatedQ, dec,
                   envVars>>

\* Gate.Sync filters the targets it refuses.
SyncGate(p) ==
    /\ pc[p] = "sync_gate" /\ Holds(p)
    /\ want' = [a \in Address |-> IF Refuse({a}) THEN "none" ELSE want[a]]
    /\ skip' = skip \cup {a \in Address : want[a] # "none" /\ Refuse({a})}
    /\ Goto(p, "sync_apply")
    /\ UNCHANGED <<allowVars, localVars, row, kernel, armed, enforceMu,
                   gatedQ, dec, envVars>>

\* What NftablesEnforcer.Sync leaves: the wanted addresses, an element that
\* was there already with the timeout it had, and nothing else.
Synced == [t \in Prefix |->
    IF \E a \in Address : t = {a} /\ want[a] # "none"
    THEN IF kernel[t] # "none" THEN kernel[t]
         ELSE want[CHOOSE a \in Address : t = {a}]
    ELSE "none"]

SyncDone(p) == IF p = "boot" THEN "reload_list" ELSE "idle"

\* The diff reaches the kernel. For disable_all it is the last step before
\* the reply.
SyncApply(p) ==
    /\ pc[p] = "sync_apply" /\ Holds(p)
    /\ kernel' = Synced
    /\ op' = [op EXCEPT ![p] = "none"]
    /\ want' = NoWant /\ skip' = {}
    /\ Release
    /\ Goto(p, SyncDone(p))
    /\ UNCHANGED <<allowVars, arg, snap, listed, row, armed, gatedQ, dec,
                   envVars>>

\* ActiveBans cannot be read: the reconcile ends before it has begun.
SyncAbort(p) ==
    /\ StoreDown
    /\ pc[p] = "sync" /\ enforceMu = NoProc
    /\ op' = [op EXCEPT ![p] = "none"]
    /\ Goto(p, SyncDone(p))
    /\ UNCHANGED <<allowVars, arg, snap, listed, banVars>>

\* An RPC of Sync fails. The additions come first, the removals next, and
\* last the additions the helper had answered with "covered by an interval".
SyncFail(p) ==
    /\ EnforcerDown
    /\ pc[p] = "sync_apply" /\ Holds(p)
    /\ LET add == {t \in Prefix : kernel[t] = "none" /\ Synced[t] # "none"}
           del == {t \in Prefix : kernel[t] # "none" /\ Synced[t] = "none"}
           covered == {t \in add : \E u \in Prefix : kernel[u] # "none" /\ t \subseteq u}
       IN  \E A \in SUBSET add, D \in SUBSET del :
              /\ D # {} => add \ covered \subseteq A
              /\ A \cap covered # {} => add \ covered \subseteq A /\ D = del
              /\ kernel' = [t \in Prefix |-> IF t \in A \cup D THEN Synced[t] ELSE kernel[t]]
    /\ op' = [op EXCEPT ![p] = "none"]
    /\ want' = NoWant /\ skip' = {}
    /\ Release
    /\ Goto(p, SyncDone(p))
    /\ UNCHANGED <<allowVars, arg, snap, listed, row, armed, gatedQ, dec,
                   envVars>>

\* One tick of runExpireBans that finds rows past their expires_at.
ExpireBans ==
    /\ pc["expireBans"] = "idle" /\ Up
    /\ \E a \in Address : row[a] = "expired"
    /\ row' = [a \in Address |-> IF row[a] = "expired" THEN "none" ELSE row[a]]
    /\ Goto("expireBans", "sync")
    /\ UNCHANGED <<allowVars, localVars, kernel, armed, enforceMu, gatedQ,
                   dec, syncVars, envVars>>
-----------------------------------------------------------------------------
(* The operator's verbs. *)

\* handleBan up to enforceMu: the runtime allowlist and AuthorizeManualBan
\* let the target through; v is the TTL asked for.
BanRequest(c, t, v) ==
    /\ ~quiet /\ Up /\ pc[c] = "idle"
    /\ ~Overlaps(runtimeAllowlist, t)
    /\ ~Overlaps(StaticAllow, t) /\ t \cap peers = {}
    /\ op'  = [op EXCEPT ![c] = "ban"]
    /\ arg' = [arg EXCEPT ![c] = t]
    /\ dec' = [dec EXCEPT ![c] = v]
    /\ Goto(c, "mb_lock")
    /\ UNCHANGED <<allowVars, snap, listed, row, kernel, armed, enforceMu,
                   gatedQ, syncVars, envVars>>

\* handleBan under enforceMu: armed, the gate is asked before the kernel.
BanStart(c) ==
    /\ pc[c] = "mb_lock"
    /\ ~(armed /\ Refuse(arg[c]))
    /\ Acquire(c)
    /\ Goto(c, IF armed THEN "mb_apply" ELSE "mb_record")
    /\ UNCHANGED <<allowVars, localVars, row, kernel, armed, gatedQ, dec,
                   syncVars, envVars>>

\* The gate or the enforcer fails a manual ban: an error reply, no row.
BanError(c) ==
    /\ \/ pc[c] = "mb_lock" /\ enforceMu = NoProc /\ armed /\ Refuse(arg[c])
       \/ EnforcerDown /\ pc[c] = "mb_apply" /\ Holds(c)
    /\ Release
    /\ Return(c)
    /\ UNCHANGED <<allowVars, row, kernel, armed, gatedQ, syncVars, envVars>>

BanApply(c) ==
    /\ pc[c] = "mb_apply" /\ Holds(c)
    /\ kernel' = KernelAdd(arg[c], dec[c])
    /\ Goto(c, "mb_record")
    /\ UNCHANGED <<allowVars, localVars, row, armed, enforceMu, gatedQ, dec,
                   syncVars, envVars>>

\* RecordManualBan for a single address, with IsArmed read once more; a
\* prefix ban is only audited, and so is one the store fails to record.
BanRecord(c) ==
    /\ pc[c] = "mb_record" /\ Holds(c)
    /\ StoreWrite([a \in Address |-> IF arg[c] = {a}
                                     THEN IF armed THEN dec[c] ELSE "dry_ban"
                                     ELSE row[a]])
    /\ Release
    /\ Return(c)
    /\ UNCHANGED <<allowVars, kernel, armed, gatedQ, syncVars, envVars>>

\* handleUnban, kernel first: a failing enforcer does not stop it.
UnbanKernel(c, t) ==
    /\ ~quiet /\ Up /\ pc[c] = "idle"
    /\ Acquire(c)
    /\ \/ kernel' = [kernel EXCEPT ![t] = "none"]
       \/ EnforcerDown /\ kernel' = kernel
    /\ op'  = [op EXCEPT ![c] = "unban"]
    /\ arg' = [arg EXCEPT ![c] = t]
    /\ Goto(c, "ub_store")
    /\ UNCHANGED <<allowVars, snap, listed, row, armed, gatedQ, dec, syncVars,
                   envVars>>

\* Unban and UnbanPrefix delete every row the target covers.
UnbanStore(c) ==
    /\ pc[c] = "ub_store" /\ Holds(c)
    /\ StoreWrite([a \in Address |-> IF a \in arg[c] THEN "none" ELSE row[a]])
    /\ Release
    /\ Return(c)
    /\ UNCHANGED <<allowVars, kernel, armed, gatedQ, syncVars, envVars>>

\* liftBansCoveredBy, kernel first: the elements of the covered active bans,
\* but for those (F) whose unban fails.
LiftKernel(c) ==
    /\ pc[c] = "lift"
    /\ Acquire(c)
    /\ \E F \in SUBSET arg[c] :
          /\ F # {} => EnforcerDown
          /\ kernel' = [t \in Prefix |->
                          IF \E a \in arg[c] \ F : t = {a} /\ row[a] \in Live
                          THEN "none" ELSE kernel[t]]
    /\ Goto(c, "lift_store")
    /\ UNCHANGED <<allowVars, localVars, row, armed, gatedQ, dec, syncVars,
                   envVars>>

\* The active bans cannot be listed: nothing is lifted.
LiftFail(c) ==
    /\ StoreDown
    /\ pc[c] = "lift" /\ enforceMu = NoProc
    /\ Goto(c, "push")
    /\ UNCHANGED <<allowVars, localVars, banVars>>

\* UnbanCovered deletes every covered row, expired ones included.
LiftStore(c) ==
    /\ pc[c] = "lift_store" /\ Holds(c)
    /\ StoreWrite([a \in Address |-> IF a \in arg[c] THEN "none" ELSE row[a]])
    /\ Release
    /\ Goto(c, "push")
    /\ UNCHANGED <<allowVars, localVars, kernel, armed, gatedQ, dec, syncVars,
                   envVars>>

\* `arm` and `disarm`; the arm window is the subject of ArmWindow.
SetArmed(c, v) ==
    /\ ~quiet /\ Up /\ pc[c] = "idle"
    /\ armed # v
    /\ armed' = v
    /\ UNCHANGED <<allowVars, procVars, row, kernel, enforceMu, gatedQ, dec,
                   syncVars, envVars>>

\* handleDisableAll, disarming first.
DisableAll(c) ==
    /\ ~quiet /\ Up /\ pc[c] = "idle"
    /\ armed' = FALSE
    /\ op' = [op EXCEPT ![c] = "disable_all"]
    /\ Goto(c, "da_clear")
    /\ UNCHANGED <<allowVars, arg, snap, listed, row, kernel, enforceMu,
                   gatedQ, dec, syncVars, envVars>>

\* UnbanAll under enforceMu, then syncEnforcer.
DisableAllClear(c) ==
    /\ pc[c] = "da_clear"
    /\ enforceMu = NoProc
    /\ row' = [a \in Address |-> "none"]
    /\ Goto(c, "sync")
    /\ UNCHANGED <<allowVars, localVars, kernel, armed, enforceMu, gatedQ,
                   dec, syncVars, envVars>>

\* UnbanAll fails: an error reply, the bans stay.
DisableAllFail(c) ==
    /\ StoreDown
    /\ pc[c] = "da_clear"
    /\ enforceMu = NoProc
    /\ Finish(c)
    /\ UNCHANGED <<allowVars, banVars>>
-----------------------------------------------------------------------------
(* Time, the kernel, the network and the host. *)

RowExpires(a) ==
    /\ "expiry" \in Env
    /\ row[a] \in {"temp", "dry_ban"}
    /\ row' = [row EXCEPT ![a] = "expired"]
    /\ UNCHANGED <<allowVars, procVars, kernel, armed, enforceMu, gatedQ, dec,
                   syncVars, envVars>>

\* nftables drops an element at its timeout, which ttlSeconds rounds up so
\* that it never precedes the expiry of the row it was written for.
ElementExpires(t) ==
    /\ "expiry" \in Env
    /\ kernel[t] = "temp"
    /\ ~ \E a \in Address : t = {a} /\ row[a] = "temp"
    /\ kernel' = [kernel EXCEPT ![t] = "none"]
    /\ UNCHANGED <<allowVars, procVars, row, armed, enforceMu, gatedQ, dec,
                   syncVars, envVars>>

PeersChange(a) ==
    /\ "peers" \in Env /\ ~quiet
    /\ peers' = IF a \in peers THEN peers \ {a} ELSE peers \cup {a}
    /\ UNCHANGED <<allowVars, procVars, row, kernel, armed, enforceMu, gatedQ,
                   dec, syncVars, quiet, settled>>

\* `disable --local-only` asks the helper itself to flush the set; the daemon
\* is not told.
LocalFlush ==
    /\ "flush" \in Env /\ ~quiet
    /\ kernel # NoElement
    /\ kernel' = NoElement
    /\ UNCHANGED <<allowVars, procVars, row, armed, enforceMu, gatedQ, dec,
                   syncVars, envVars>>

\* The daemon dies and Run starts over: the store, the policy file's armed
\* flag and the kernel are all that is left.
Crash ==
    /\ ~quiet
    /\ Restart("sync")
    /\ enforceMu' = NoProc
    /\ gatedQ' = [a \in Address |-> NotQueued]
    /\ dec'  = [p \in Goroutine |-> "none"]
    /\ want' = NoWant /\ skip' = {}
    /\ UNCHANGED <<row, kernel, armed, envVars>>

Quiesce ==
    /\ "quiesce" \in Env /\ ~quiet /\ quiet' = TRUE
    /\ UNCHANGED <<allowVars, procVars, row, kernel, armed, enforceMu, gatedQ,
                   dec, syncVars, peers, settled>>
-----------------------------------------------------------------------------
Init ==
    /\ AllowInit
    /\ row = [a \in Address |-> "none"]
    /\ kernel = NoElement
    /\ armed \in BOOLEAN
    /\ enforceMu = NoProc
    /\ gatedQ = [a \in Address |-> NotQueued]
    /\ dec = [p \in Goroutine |-> "none"]
    /\ want = NoWant /\ skip = {}
    /\ peers = {}
    /\ quiet = FALSE
    /\ settled = {}

\* The allowlist operations, with what they mean for the observations.
AllowBegin ==
    /\ ~quiet
    /\ \/ \E c \in Conn, x \in AllowTarget :
             \/ AllowRequest(c, x) /\ UNCHANGED settled
             \/ UnallowRequest(c, x) /\ settled' = settled \ {x}
       \/ \E S \in SUBSET AllowTarget : ExpireAllows(S) /\ settled' = settled \ S
    /\ UNCHANGED <<row, kernel, armed, enforceMu, gatedQ, dec, syncVars, peers,
                   quiet>>

AllowEnd(c) ==
    /\ AllowPush(c)
    /\ settled' = settled \cup ({arg[c]} \cap allowTable)
    /\ UNCHANGED <<row, kernel, armed, enforceMu, gatedQ, dec, syncVars, peers,
                   quiet>>

AllowMiddle(p) ==
    /\ \/ ReloadList(p) \/ ReloadMem(p) \/ ReloadGate(p)
       \/ ReloadFail(p) \/ ResyncRead(p) \/ ResyncList(p) \/ ResyncPush(p)
    /\ UNCHANGED banVars

WorkerStep(w) ==
    \/ DecideNoStrike(w) \/ DecideGuard(w) \/ DecideCommit(w) \/ DecideFail(w)
    \/ DispatchStart(w) \/ DispatchRefused(w) \/ ApplyBan(w) \/ ApplyFail(w)

SyncStep(p) ==
    \/ SyncSnapshot(p) \/ SyncGate(p) \/ SyncApply(p)
    \/ SyncAbort(p) \/ SyncFail(p)

RetryStep == \/ \E a \in Address : RetryStart(a) \/ RetryRefused(a)
             \/ ApplyBan("retry") \/ ApplyFail("retry")

ConnStep(c) ==
    \/ BanStart(c) \/ BanError(c) \/ BanApply(c) \/ BanRecord(c)
    \/ UnbanStore(c) \/ LiftKernel(c) \/ LiftFail(c) \/ LiftStore(c)
    \/ DisableAllClear(c) \/ DisableAllFail(c) \/ AllowEnd(c)

Request ==
    \/ \E w \in Worker, a \in Address : Detect(w, a)
    \/ \E c \in Conn : \/ \E t \in BanTarget, v \in Real : BanRequest(c, t, v)
                       \/ \E t \in BanTarget : UnbanKernel(c, t)
                       \/ \E v \in BOOLEAN : SetArmed(c, v)
                       \/ DisableAll(c)
    \/ AllowBegin

Environment ==
    \/ \E a \in Address : RowExpires(a) \/ PeersChange(a)
    \/ \E t \in Prefix : ElementExpires(t)
    \/ LocalFlush \/ Crash \/ Quiesce

Syncer == Conn \cup {"boot", "probe", "expireBans"}

Next ==
    \/ Request \/ Environment \/ RetryStep \/ ExpireBans
    \/ \E w \in Worker : WorkerStep(w)
    \/ \E p \in Syncer : SyncStep(p)
    \/ \E c \in Conn : ConnStep(c)
    \/ \E p \in AllowProc : AllowMiddle(p)

Spec == Init /\ [][Next]_vars

\* Goroutines run, tickers tick, and a goroutine waiting for enforceMu gets
\* it in the end (a Go mutex hands itself over to a waiter it has starved).
Fairness ==
    /\ \A w \in Worker : SF_vars(WorkerStep(w))
    /\ \A p \in Syncer : SF_vars(SyncStep(p))
    /\ \A c \in Conn : SF_vars(ConnStep(c))
    /\ \A p \in AllowProc : WF_vars(AllowMiddle(p))
    /\ SF_vars(RetryStep)
    /\ WF_vars(ExpireBans)

FairSpec == Spec /\ Fairness
-----------------------------------------------------------------------------
Label == AllowLabel \cup
    {"decide", "commit", "dispatch", "apply", "sync", "sync_gate", "sync_apply",
     "mb_lock", "mb_apply", "mb_record", "ub_store", "lift_store", "da_clear"}

\* The store, the kernel set, the mutex and the local state of every
\* goroutine have the values the code can give them.
TypeOK ==
    /\ allowTable \subseteq Prefix /\ runtimeAllowlist \subseteq Prefix
    /\ extra \subseteq Prefix /\ allowedSet \subseteq Prefix
    /\ pc \in [Goroutine -> Label]
    /\ op \in [Goroutine -> {"none", "allow", "unallow", "expire", "ban",
                             "unban", "disable_all"}]
    /\ arg \in [Goroutine -> Prefix \cup {{}}]
    /\ snap \in [Goroutine -> SUBSET Prefix]
    /\ listed \in [Goroutine -> SUBSET Prefix]
    /\ row \in [Address -> Live \cup {"none", "expired"}]
    /\ kernel \in [Prefix -> Real \cup {"none"}]
    /\ armed \in BOOLEAN /\ quiet \in BOOLEAN
    /\ enforceMu \in Goroutine \cup {NoProc}
    /\ gatedQ \in [Address -> NotQueued .. MaxAttempts - 1]
    /\ dec \in [Goroutine -> Live \cup {"none"}]
    /\ want \in [Address -> Real \cup {"none"}]
    /\ skip \subseteq Address /\ peers \subseteq Address
    /\ settled \subseteq Prefix

\* A committed ban of a that its worker has not handed to the kernel yet.
Pending(a) == \E w \in Worker : pc[w] \in {"dispatch", "apply"} /\ arg[w] = {a}

\* enforceMu (issue #575), against the reconcile in syncEnforcer: an address
\* in the kernel whose row is a real ban is in the reconcile's desired state,
\* was left out because the allowlist or the anti-lockout gate guards it, or
\* has a dispatch still to come. So a reconcile never deletes as stale a ban
\* the daemon has just applied.
FreshBanKept ==
    \A p \in Syncer : pc[p] \in {"sync_gate", "sync_apply"} =>
        \A a \in Address :
            kernel[{a}] # "none" /\ row[a] \in Real =>
                want[a] # "none" \/ a \in skip \/ Pending(a)

\* docs/security/overview.md: once `allow` has replied, no ban of a covered
\* address is applied, neither by a decision that was in flight, nor by a
\* deferred retry, nor by a reconcile that took its snapshot before.
AllowNeverReapplied ==
    [][\A a \in Address : Covers(settled, a) /\ Blocked(kernel', a)
          => Blocked(kernel, a)]_vars

\* handleUnban, liftBansCoveredBy, handleDisableAll and gatedban.go ("a ban
\* that expired or was lifted meanwhile is dropped, never re-applied"): with
\* no TTL running out, an address without a row enters the kernel only as a
\* manual ban about to be recorded or as a dispatch that was in flight; no
\* reconcile and no deferred retry revives a ban an operator has lifted.
NoRevival ==
    [][\A a \in Address :
          row[a] = "none" /\ kernel[{a}] = "none" /\ kernel'[{a}] # "none"
             => enforceMu \in Worker \cup Conn]_vars

Guarded(a) == IsRuntimeAllowlisted(a) \/ Refuse({a})

\* The kernel blocks what the store says and nothing else.
Agree == \A t \in Prefix :
    kernel[t] # "none" <=> \E a \in Address : t = {a} /\ row[a] \in Real /\ ~Guarded(a)

\* runEnforceProbe: whatever raced, failed or was flushed before, once the
\* system is left alone the kernel ends up blocking exactly the stored real
\* bans that nothing guards.
Converges == <>[](quiet => Agree)

\* disableall.go: "disarm the daemon (no new bans) AND remove every active
\* block everywhere". When disable_all replies OK the store holds no real
\* ban and the kernel blocks no one.
DisableAllClean ==
    [][\A c \in Conn : op[c] = "disable_all" /\ SyncApply(c) =>
          \A a \in Address : row'[a] \notin Real /\ ~Blocked(kernel', a)]_vars

\* docs/reference/cli.md, "Permanently ban a botnet subnet": an element of a
\* prefix the operator banned without a TTL leaves the kernel only in a step
\* of an operator's command.
PrefixBanPersists ==
    [][\A t \in BanTarget :
          Cardinality(t) > 1 /\ kernel[t] = "perm" /\ kernel'[t] = "none"
             => enforceMu \in Conn \/ enforceMu' \in Conn]_vars

=============================================================================

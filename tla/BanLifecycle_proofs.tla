------------------------ MODULE BanLifecycle_proofs ------------------------
(***************************************************************************)
(* Proofs about the life of a ban, for any number of deciding goroutines,  *)
(* connections, addresses and prefixes: the type invariant, that a         *)
(* reconcile never deletes a ban the daemon has just applied, that none    *)
(* puts a lifted ban back, and, for one operator command at a time, that   *)
(* an allowed address stays out of the kernel.                             *)
(*                                                                         *)
(* FreshBanKept is not inductive. It needs the discipline of enforceMu     *)
(* (MutexOK): while a reconcile is between its snapshot and its write no   *)
(* other goroutine writes the kernel or deletes a row, and the one way a   *)
(* row becomes a real ban meanwhile is the commit of a strike, whose       *)
(* dispatch is then still to come. That a strike names exactly one         *)
(* address, and what values the goroutines carry, is HandsOK. NoRevival    *)
(* needs LiftOK besides: what a reconcile has read from the store, and     *)
(* what the retry is about to apply, still has its row.                    *)
(* AllowNeverReapplied needs ShieldOK: an entry an `allow` has settled is  *)
(* on the runtime list (EntryOK), and whoever is past the gate with a      *)
(* covered address was admitted before it and will meet its lift (GuardOK).*)
(***************************************************************************)
EXTENDS BanLifecycle, TLAPS

\* The labels between Lock and Unlock of enforceMu.
Critical == {"apply", "sync_gate", "sync_apply", "mb_apply", "mb_record",
             "ub_store", "lift_store"}

\* What a goroutine holds between two steps: the entry an `allow` is about to
\* push, the address and the row value of a strike, the TTL of a manual ban.
HandsOK ==
    \A p \in Goroutine :
        /\ op[p] = "allow" => arg[p] \in Prefix
        /\ pc[p] \in {"lift", "lift_store", "push"} => op[p] = "allow"
        /\ pc[p] \in {"decide", "commit", "dispatch", "apply"} =>
               \E a \in Address : arg[p] = {a}
        /\ pc[p] = "commit" => dec[p] \in Live
        /\ pc[p] \in {"dispatch", "apply", "mb_lock", "mb_apply", "mb_record"} =>
               dec[p] \in Real

\* enforceMu: a goroutine inside a critical section is the one that holds it.
MutexOK == \A p \in Goroutine : pc[p] \in Critical => enforceMu = p

TypeInv == TypeOK /\ HandsOK

\* The inductive invariant.
BanInv == TypeInv /\ MutexOK /\ FreshBanKept
-----------------------------------------------------------------------------

\* Every step of Decide and dispatch keeps the types and what the goroutines carry.
LEMMA WorkerType ==
    ASSUME TypeInv, NEW w \in Worker, WorkerStep(w)
    PROVE  TypeInv'
<1> USE BanAssumption, AllowlistAssumption DEF TypeInv, TypeOK, HandsOK, Label,
        AllowLabel, Live, Real, NotQueued, Return, Finish, Goto, Acquire, Release,
        allowVars, procVars, localVars, syncVars, envVars, banVars
<1>1. CASE DecideNoStrike(w)
  <2>1. TypeOK'
    BY <1>1 DEF DecideNoStrike
  <2>2. HandsOK'
    BY <1>1 DEF DecideNoStrike
  <2> QED
    BY <2>1, <2>2
<1>2. CASE DecideGuard(w)
  <2>1. CASE Return(w)
    <3>1. TypeOK'
      BY <1>2, <2>1 DEF DecideGuard
    <3>2. HandsOK'
      BY <1>2, <2>1 DEF DecideGuard
    <3> QED
      BY <3>1, <3>2
  <2>2. CASE /\ Goto(w, "commit")
             /\ \E v \in Live : dec' = [dec EXCEPT ![w] = v]
             /\ UNCHANGED localVars
    <3>1. TypeOK'
      BY <1>2, <2>2 DEF DecideGuard
    <3>2. HandsOK'
      BY <1>2, <2>2 DEF DecideGuard
    <3> QED
      BY <3>1, <3>2
  <2> QED
    BY <1>2, <2>1, <2>2 DEF DecideGuard
<1>3. CASE DecideCommit(w)
  <2>0. row' \in [Address -> Live \cup {"none", "expired"}]
    BY <1>3 DEF DecideCommit
  <2>1. TypeOK'
    <3>1. CASE dec[w] \in Real
      BY <1>3, <2>0, <3>1 DEF DecideCommit
    <3>2. CASE dec[w] \notin Real
      <4>1. Return(w)
        BY <1>3, <3>2 DEF DecideCommit
      <4>2. UNCHANGED <<allowVars, kernel, armed, enforceMu, gatedQ, syncVars, envVars>>
        BY <1>3 DEF DecideCommit
      <4> QED
        BY <2>0, <4>1, <4>2
    <3> QED
      BY <3>1, <3>2
  <2>2. HandsOK'
    <3>1. CASE dec[w] \in Real
      BY <1>3, <3>1 DEF DecideCommit
    <3>2. CASE dec[w] \notin Real
      BY <1>3, <3>2 DEF DecideCommit
    <3> QED
      BY <3>1, <3>2
  <2> QED
    BY <2>1, <2>2
<1>4. CASE DecideFail(w)
  BY <1>4 DEF DecideFail
<1>5. CASE DispatchStart(w)
  BY <1>5 DEF DispatchStart
<1>6. CASE DispatchRefused(w)
  BY <1>6 DEF DispatchRefused
<1>7. CASE ApplyBan(w)
  BY <1>7 DEF ApplyBan, KernelAdd
<1>8. CASE ApplyFail(w)
  BY <1>8 DEF ApplyFail
<1> QED
  BY <1>1, <1>2, <1>3, <1>4, <1>5, <1>6, <1>7, <1>8 DEF WorkerStep

\* Every step of retryGatedBan keeps the types and what the goroutines carry.
LEMMA RetryType ==
    ASSUME TypeInv, RetryStep
    PROVE  TypeInv'
<1> USE BanAssumption, AllowlistAssumption DEF TypeInv, TypeOK, HandsOK, Label,
        AllowLabel, Live, Real, NotQueued, Return, Finish, Goto, Acquire, Release,
        allowVars, procVars, localVars, syncVars, envVars, banVars
<1>1. CASE \E a \in Address : RetryStart(a)
  BY <1>1 DEF RetryStart, Sys
<1>2. CASE \E a \in Address : RetryRefused(a)
  BY <1>2 DEF RetryRefused
<1>3. CASE ApplyBan("retry")
  BY <1>3 DEF ApplyBan, KernelAdd, Sys
<1>4. CASE ApplyFail("retry")
  <2>1. TypeOK'
    BY <1>4 DEF ApplyFail
  <2>2. HandsOK'
    BY <1>4 DEF ApplyFail
  <2> QED
    BY <2>1, <2>2
<1> QED
  BY <1>1, <1>2, <1>3, <1>4 DEF RetryStep

\* Every step of syncEnforcer keeps the types and what the goroutines carry.
LEMMA SyncType ==
    ASSUME TypeInv, NEW p \in Syncer, SyncStep(p)
    PROVE  TypeInv'
<1> USE BanAssumption, AllowlistAssumption DEF TypeInv, TypeOK, HandsOK, Label,
        AllowLabel, Live, Real, NotQueued, Return, Finish, Goto, Acquire, Release,
        allowVars, procVars, localVars, syncVars, envVars, banVars
<1>1. CASE SyncSnapshot(p)
  BY <1>1 DEF SyncSnapshot, Syncer, Sys
<1>2. CASE SyncGate(p)
  <2>1. TypeOK'
    BY <1>2 DEF SyncGate
  <2>2. HandsOK'
    BY <1>2 DEF SyncGate
  <2> QED
    BY <2>1, <2>2
<1>3. CASE SyncApply(p)
  <2>1. TypeOK'
    BY <1>3 DEF SyncApply, Synced, SyncDone, NoWant
  <2>2. HandsOK'
    BY <1>3 DEF SyncApply, Synced, SyncDone, NoWant
  <2> QED
    BY <2>1, <2>2
<1>4. CASE SyncAbort(p)
  <2>1. TypeOK'
    BY <1>4 DEF SyncAbort, SyncDone
  <2>2. HandsOK'
    BY <1>4 DEF SyncAbort, SyncDone
  <2> QED
    BY <2>1, <2>2
<1>5. CASE SyncFail(p)
  <2>1. Synced \in [Prefix -> Real \cup {"none"}]
    BY DEF Synced
  <2>2. kernel' \in [Prefix -> Real \cup {"none"}]
    BY <1>5, <2>1 DEF SyncFail
  <2>3. /\ pc' = [pc EXCEPT ![p] = SyncDone(p)] /\ op' = [op EXCEPT ![p] = "none"]
        /\ arg' = arg /\ dec' = dec
    BY <1>5 DEF SyncFail
  <2>4. pc' \in [Goroutine -> Label]
    BY <2>3 DEF SyncDone
  <2>5. HandsOK'
    BY <2>3 DEF SyncDone
  <2> QED
    BY <1>5, <2>2, <2>4, <2>5 DEF SyncFail, NoWant
<1> QED
  BY <1>1, <1>2, <1>3, <1>4, <1>5 DEF SyncStep

\* Every step of a control-socket verb keeps the types and what the
\* goroutines carry.
LEMMA ConnType ==
    ASSUME TypeInv, NEW c \in Conn, ConnStep(c)
    PROVE  TypeInv'
<1> USE BanAssumption, AllowlistAssumption DEF TypeInv, TypeOK, HandsOK, Label,
        AllowLabel, Live, Real, NotQueued, Return, Finish, Goto, Acquire, Release,
        allowVars, procVars, localVars, syncVars, envVars, banVars
<1>1. CASE BanStart(c)
  BY <1>1 DEF BanStart
<1>2. CASE BanError(c)
  BY <1>2 DEF BanError
<1>3. CASE BanApply(c)
  BY <1>3 DEF BanApply, KernelAdd
<1>4. CASE BanRecord(c)
  BY <1>4 DEF BanRecord, StoreWrite
<1>5. CASE UnbanStore(c)
  BY <1>5 DEF UnbanStore, StoreWrite
<1>6. CASE LiftKernel(c)
  BY <1>6 DEF LiftKernel
<1>7. CASE LiftFail(c)
  BY <1>7 DEF LiftFail
<1>8. CASE LiftStore(c)
  BY <1>8 DEF LiftStore, StoreWrite
<1>9. CASE DisableAllClear(c)
  BY <1>9 DEF DisableAllClear
<1>10. CASE DisableAllFail(c)
  BY <1>10 DEF DisableAllFail
<1>11. CASE AllowEnd(c)
  BY <1>11 DEF AllowEnd, AllowPush
<1> QED
  BY <1>1, <1>2, <1>3, <1>4, <1>5, <1>6, <1>7, <1>8, <1>9, <1>10, <1>11 DEF ConnStep

\* Every request keeps the types and what the goroutines carry.
LEMMA RequestType ==
    ASSUME TypeInv, Request
    PROVE  TypeInv'
<1> USE BanAssumption, AllowlistAssumption DEF TypeInv, TypeOK, HandsOK, Label,
        AllowLabel, Live, Real, NotQueued, Return, Finish, Goto, Acquire, Release,
        allowVars, procVars, localVars, syncVars, envVars, banVars
<1>1. CASE \E w \in Worker, a \in Address : Detect(w, a)
  BY <1>1 DEF Detect
<1>2. CASE \E c \in Conn, t \in BanTarget, v \in Real : BanRequest(c, t, v)
  BY <1>2 DEF BanRequest
<1>3. CASE \E c \in Conn, t \in BanTarget : UnbanKernel(c, t)
  BY <1>3 DEF UnbanKernel
<1>4. CASE \E c \in Conn, v \in BOOLEAN : SetArmed(c, v)
  BY <1>4 DEF SetArmed
<1>5. CASE \E c \in Conn : DisableAll(c)
  <2>1. PICK c \in Conn : DisableAll(c)
    BY <1>5
  <2>2. TypeOK'
    BY <2>1 DEF DisableAll
  <2>3. HandsOK'
    BY <2>1 DEF DisableAll
  <2> QED
    BY <2>2, <2>3
<1>6. CASE AllowBegin
  BY <1>6 DEF AllowBegin, AllowRequest, UnallowRequest, ExpireAllows
<1> QED
  BY <1>1, <1>2, <1>3, <1>4, <1>5, <1>6 DEF Request

\* Every step of the environment and of the expiry sweep keeps the types and
\* what the goroutines carry.
LEMMA EnvType ==
    ASSUME TypeInv, Environment \/ ExpireBans
    PROVE  TypeInv'
<1> USE BanAssumption, AllowlistAssumption DEF TypeInv, TypeOK, HandsOK, Label,
        AllowLabel, Live, Real, NotQueued, Return, Finish, Goto, Acquire, Release,
        allowVars, procVars, localVars, syncVars, envVars, banVars
<1>1. CASE \E a \in Address : RowExpires(a)
  BY <1>1 DEF RowExpires
<1>2. CASE \E a \in Address : PeersChange(a)
  BY <1>2 DEF PeersChange
<1>3. CASE \E t \in Prefix : ElementExpires(t)
  BY <1>3 DEF ElementExpires
<1>4. CASE LocalFlush
  BY <1>4 DEF LocalFlush, NoElement
<1>5. CASE Crash
  <2>1. /\ pc' \in [Goroutine -> Label] /\ op' = [p \in Goroutine |-> "none"]
        /\ arg' \in [Goroutine -> {{}}] /\ dec' \in [Goroutine -> {"none"}]
        /\ snap' \in [Goroutine -> {{}}] /\ listed' \in [Goroutine -> {{}}]
        /\ \A p \in Goroutine : pc'[p] \in {"sync", "idle"}
    BY <1>5 DEF Crash, Restart
  <2>2. gatedQ' \in [Address -> NotQueued .. MaxAttempts - 1]
    BY <1>5 DEF Crash
  <2>3. HandsOK'
    BY <2>1
  <2>4. /\ enforceMu' = NoProc /\ want' \in [Address -> {"none"}] /\ skip' = {}
    BY <1>5 DEF Crash, NoWant
  <2> QED
    BY <1>5, <2>1, <2>2, <2>3, <2>4 DEF Crash, Restart
<1>6. CASE Quiesce
  BY <1>6 DEF Quiesce
<1>7. CASE ExpireBans
  <2>1. TypeOK'
    BY <1>7 DEF ExpireBans
  <2>2. HandsOK'
    BY <1>7 DEF ExpireBans
  <2> QED
    BY <2>1, <2>2
<1> QED
  BY <1>1, <1>2, <1>3, <1>4, <1>5, <1>6, <1>7 DEF Environment

\* Every step of an allowlist reload keeps the types and what the goroutines carry.
LEMMA AllowType ==
    ASSUME TypeInv, NEW p \in AllowProc, AllowMiddle(p)
    PROVE  TypeInv'
<1> USE BanAssumption, AllowlistAssumption DEF TypeInv, TypeOK, HandsOK, Label,
        AllowLabel, Live, Real, NotQueued, Return, Finish, Goto, Acquire, Release,
        allowVars, procVars, localVars, syncVars, envVars, banVars
<1>1. CASE ReloadList(p) /\ UNCHANGED banVars
  BY <1>1 DEF ReloadList, AllowProc
<1>2. CASE ReloadMem(p) /\ UNCHANGED banVars
  BY <1>2 DEF ReloadMem, AllowProc
<1>3. CASE ReloadGate(p) /\ UNCHANGED banVars
  BY <1>3 DEF ReloadGate, AfterReload, AllowProc
<1>4. CASE ReloadFail(p) /\ UNCHANGED banVars
  BY <1>4 DEF ReloadFail, AfterReload, AllowProc
<1>5. CASE ResyncRead(p) /\ UNCHANGED banVars
  BY <1>5 DEF ResyncRead, AllowProc
<1>6. CASE ResyncList(p) /\ UNCHANGED banVars
  BY <1>6 DEF ResyncList, AllowProc
<1>7. CASE ResyncPush(p) /\ UNCHANGED banVars
  BY <1>7 DEF ResyncPush, AllowProc
<1> QED
  BY <1>1, <1>2, <1>3, <1>4, <1>5, <1>6, <1>7 DEF AllowMiddle

\* Every step of Decide and dispatch keeps the discipline of enforceMu.
LEMMA WorkerMutex ==
    ASSUME TypeInv, MutexOK, NEW w \in Worker, WorkerStep(w)
    PROVE  MutexOK'
<1> USE BanAssumption, AllowlistAssumption DEF TypeInv, TypeOK, MutexOK, Critical,
        Return, Finish, Goto, Acquire, Release, Holds, allowVars, procVars,
        localVars, syncVars, envVars, banVars
<1>1. CASE DecideNoStrike(w)
  BY <1>1 DEF DecideNoStrike
<1>2. CASE DecideGuard(w)
  BY <1>2 DEF DecideGuard
<1>3. CASE DecideCommit(w)
  BY <1>3 DEF DecideCommit
<1>4. CASE DecideFail(w)
  BY <1>4 DEF DecideFail
<1>5. CASE DispatchStart(w)
  BY <1>5 DEF DispatchStart
<1>6. CASE DispatchRefused(w)
  BY <1>6 DEF DispatchRefused
<1>7. CASE ApplyBan(w)
  BY <1>7 DEF ApplyBan, KernelAdd
<1>8. CASE ApplyFail(w)
  BY <1>8 DEF ApplyFail
<1> QED
  BY <1>1, <1>2, <1>3, <1>4, <1>5, <1>6, <1>7, <1>8 DEF WorkerStep

\* Every step of retryGatedBan keeps the discipline of enforceMu.
LEMMA RetryMutex ==
    ASSUME TypeInv, MutexOK, RetryStep
    PROVE  MutexOK'
<1> USE BanAssumption, AllowlistAssumption DEF TypeInv, TypeOK, MutexOK, Critical,
        Return, Finish, Goto, Acquire, Release, Holds, allowVars, procVars,
        localVars, syncVars, envVars, banVars
<1>1. CASE \E a \in Address : RetryStart(a)
  BY <1>1 DEF RetryStart
<1>2. CASE \E a \in Address : RetryRefused(a)
  BY <1>2 DEF RetryRefused
<1>3. CASE ApplyBan("retry")
  BY <1>3 DEF ApplyBan, KernelAdd
<1>4. CASE ApplyFail("retry")
  BY <1>4 DEF ApplyFail
<1> QED
  BY <1>1, <1>2, <1>3, <1>4 DEF RetryStep

\* Every step of syncEnforcer keeps the discipline of enforceMu.
LEMMA SyncMutex ==
    ASSUME TypeInv, MutexOK, NEW p \in Syncer, SyncStep(p)
    PROVE  MutexOK'
<1> USE BanAssumption, AllowlistAssumption DEF TypeInv, TypeOK, MutexOK, Critical,
        Return, Finish, Goto, Acquire, Release, Holds, allowVars, procVars,
        localVars, syncVars, envVars, banVars
<1>1. CASE SyncSnapshot(p)
  BY <1>1 DEF SyncSnapshot, SyncReady
<1>2. CASE SyncGate(p)
  BY <1>2 DEF SyncGate
<1>3. CASE SyncApply(p)
  BY <1>3 DEF SyncApply, Synced, SyncDone, NoWant
<1>4. CASE SyncAbort(p)
  BY <1>4 DEF SyncAbort, SyncDone
<1>5. CASE SyncFail(p)
  BY <1>5 DEF SyncFail, Synced, SyncDone, NoWant
<1> QED
  BY <1>1, <1>2, <1>3, <1>4, <1>5 DEF SyncStep

\* Every step of a control-socket verb keeps the discipline of enforceMu.
LEMMA ConnMutex ==
    ASSUME TypeInv, MutexOK, NEW c \in Conn, ConnStep(c)
    PROVE  MutexOK'
<1> USE BanAssumption, AllowlistAssumption DEF TypeInv, TypeOK, MutexOK, Critical,
        Return, Finish, Goto, Acquire, Release, Holds, allowVars, procVars,
        localVars, syncVars, envVars, banVars
<1>1. CASE BanStart(c)
  BY <1>1 DEF BanStart
<1>2. CASE BanError(c)
  BY <1>2 DEF BanError
<1>3. CASE BanApply(c)
  BY <1>3 DEF BanApply, KernelAdd
<1>4. CASE BanRecord(c)
  BY <1>4 DEF BanRecord, StoreWrite
<1>5. CASE UnbanStore(c)
  BY <1>5 DEF UnbanStore, StoreWrite
<1>6. CASE LiftKernel(c)
  BY <1>6 DEF LiftKernel
<1>7. CASE LiftFail(c)
  BY <1>7 DEF LiftFail
<1>8. CASE LiftStore(c)
  BY <1>8 DEF LiftStore, StoreWrite
<1>9. CASE DisableAllClear(c)
  BY <1>9 DEF DisableAllClear
<1>10. CASE DisableAllFail(c)
  BY <1>10 DEF DisableAllFail
<1>11. CASE AllowEnd(c)
  BY <1>11 DEF AllowEnd, AllowPush
<1> QED
  BY <1>1, <1>2, <1>3, <1>4, <1>5, <1>6, <1>7, <1>8, <1>9, <1>10, <1>11 DEF ConnStep

\* Every request keeps the discipline of enforceMu.
LEMMA RequestMutex ==
    ASSUME TypeInv, MutexOK, Request
    PROVE  MutexOK'
<1> USE BanAssumption, AllowlistAssumption DEF TypeInv, TypeOK, MutexOK, Critical,
        Return, Finish, Goto, Acquire, Release, Holds, allowVars, procVars,
        localVars, syncVars, envVars, banVars
<1>1. CASE \E w \in Worker, a \in Address : Detect(w, a)
  BY <1>1 DEF Detect
<1>2. CASE \E c \in Conn, t \in BanTarget, v \in Real : BanRequest(c, t, v)
  BY <1>2 DEF BanRequest
<1>3. CASE \E c \in Conn, t \in BanTarget : UnbanKernel(c, t)
  BY <1>3 DEF UnbanKernel
<1>4. CASE \E c \in Conn, v \in BOOLEAN : SetArmed(c, v)
  BY <1>4 DEF SetArmed
<1>5. CASE \E c \in Conn : DisableAll(c)
  BY <1>5 DEF DisableAll
<1>6. CASE AllowBegin
  BY <1>6 DEF AllowBegin, AllowRequest, UnallowRequest, ExpireAllows
<1> QED
  BY <1>1, <1>2, <1>3, <1>4, <1>5, <1>6 DEF Request

\* Every step of the environment and of the expiry sweep keeps the discipline
\* of enforceMu.
LEMMA EnvMutex ==
    ASSUME TypeInv, MutexOK, Environment \/ ExpireBans
    PROVE  MutexOK'
<1> USE BanAssumption, AllowlistAssumption DEF TypeInv, TypeOK, MutexOK, Critical,
        Return, Finish, Goto, Acquire, Release, Holds, allowVars, procVars,
        localVars, syncVars, envVars, banVars
<1>1. CASE \E a \in Address : RowExpires(a)
  BY <1>1 DEF RowExpires
<1>2. CASE \E a \in Address : PeersChange(a)
  BY <1>2 DEF PeersChange
<1>3. CASE \E t \in Prefix : ElementExpires(t)
  BY <1>3 DEF ElementExpires
<1>4. CASE LocalFlush
  BY <1>4 DEF LocalFlush, NoElement
<1>5. CASE Crash
  BY <1>5 DEF Crash, Restart, NoWant
<1>6. CASE Quiesce
  BY <1>6 DEF Quiesce
<1>7. CASE ExpireBans
  BY <1>7 DEF ExpireBans
<1> QED
  BY <1>1, <1>2, <1>3, <1>4, <1>5, <1>6, <1>7 DEF Environment

\* Every step of an allowlist reload keeps the discipline of enforceMu.
LEMMA AllowMutex ==
    ASSUME TypeInv, MutexOK, NEW p \in AllowProc, AllowMiddle(p)
    PROVE  MutexOK'
<1> USE BanAssumption, AllowlistAssumption DEF TypeInv, TypeOK, MutexOK, Critical,
        Return, Finish, Goto, Acquire, Release, Holds, allowVars, procVars,
        localVars, syncVars, envVars, banVars
<1>1. CASE ReloadList(p) /\ UNCHANGED banVars
  BY <1>1 DEF ReloadList, AllowProc
<1>2. CASE ReloadMem(p) /\ UNCHANGED banVars
  BY <1>2 DEF ReloadMem, AllowProc
<1>3. CASE ReloadGate(p) /\ UNCHANGED banVars
  BY <1>3 DEF ReloadGate, AfterReload, AllowProc
<1>4. CASE ReloadFail(p) /\ UNCHANGED banVars
  BY <1>4 DEF ReloadFail, AfterReload, AllowProc
<1>5. CASE ResyncRead(p) /\ UNCHANGED banVars
  BY <1>5 DEF ResyncRead, AllowProc
<1>6. CASE ResyncList(p) /\ UNCHANGED banVars
  BY <1>6 DEF ResyncList, AllowProc
<1>7. CASE ResyncPush(p) /\ UNCHANGED banVars
  BY <1>7 DEF ResyncPush, AllowProc
<1> QED
  BY <1>1, <1>2, <1>3, <1>4, <1>5, <1>6, <1>7 DEF AllowMiddle
-----------------------------------------------------------------------------
\* Where no reconcile is under way there is nothing to keep.
LEMMA FreshIdle ==
    ASSUME \A q \in Syncer : pc'[q] \notin {"sync_gate", "sync_apply"}
    PROVE  FreshBanKept'
BY DEF FreshBanKept

\* A step that starts no reconcile, adds neither an element nor a real row
\* and takes back no dispatch keeps the property.
LEMMA FreshFrame ==
    ASSUME FreshBanKept,
           \A q \in Syncer : pc'[q] \in {"sync_gate", "sync_apply"} =>
                             pc[q] \in {"sync_gate", "sync_apply"},
           want' = want, skip' = skip,
           \A a \in Address : kernel'[{a}] # "none" => kernel[{a}] # "none",
           \A a \in Address : row'[a] \in Real => row[a] \in Real,
           \A w \in Worker : pc[w] \in {"dispatch", "apply"} =>
                             pc'[w] \in {"dispatch", "apply"} /\ arg'[w] = arg[w]
    PROVE  FreshBanKept'
<1> SUFFICES ASSUME NEW q \in Syncer, pc'[q] \in {"sync_gate", "sync_apply"},
                    NEW a \in Address, kernel'[{a}] # "none", row'[a] \in Real
             PROVE  want'[a] # "none" \/ a \in skip' \/ Pending(a)'
  BY DEF FreshBanKept
<1>1. want[a] # "none" \/ a \in skip \/ Pending(a)
  BY DEF FreshBanKept
<1>2. Pending(a) => Pending(a)'
  BY DEF Pending
<1> QED
  BY <1>1, <1>2

\* Every step of Decide and dispatch keeps FreshBanKept.
LEMMA WorkerFresh ==
    ASSUME BanInv, NEW w \in Worker, WorkerStep(w)
    PROVE  FreshBanKept'
<1> USE BanAssumption, AllowlistAssumption DEF BanInv, TypeInv, TypeOK, MutexOK,
        Critical, Return, Finish, Goto, Acquire, Release, Holds, allowVars,
        procVars, localVars, syncVars, envVars, banVars
<1>1. CASE DecideNoStrike(w)
  BY <1>1, FreshFrame DEF DecideNoStrike
<1>2. CASE DecideGuard(w)
  <2>1. /\ pc'[w] \in {"idle", "commit"}
        /\ \A r \in Goroutine \ {w} : pc'[r] = pc[r] /\ arg'[r] = arg[r]
    BY <1>2 DEF DecideGuard
  <2> QED
    BY <1>2, <2>1, FreshFrame DEF DecideGuard, Syncer, Sys
<1>3. CASE DecideCommit(w)
  <2> SUFFICES ASSUME NEW q \in Syncer, pc'[q] \in {"sync_gate", "sync_apply"},
                      NEW a \in Address, kernel'[{a}] # "none", row'[a] \in Real
               PROVE  want'[a] # "none" \/ a \in skip' \/ Pending(a)'
    BY DEF FreshBanKept
  <2>1. pc[q] \in {"sync_gate", "sync_apply"} /\ kernel'[{a}] = kernel[{a}]
    <3>1. pc'[w] \in {"idle", "dispatch"} /\ \A r \in Goroutine \ {w} : pc'[r] = pc[r]
      BY <1>3 DEF DecideCommit
    <3> QED
      BY <1>3, <3>1 DEF DecideCommit, Syncer, Sys
  <2>2. CASE a \in arg[w]
    <3>1. arg[w] = {a}
      BY <1>3, <2>2 DEF DecideCommit, HandsOK
    <3>2. dec[w] \in Real
      BY <1>3, <2>2 DEF DecideCommit
    <3>3. pc'[w] = "dispatch" /\ arg'[w] = {a}
      BY <1>3, <3>1, <3>2 DEF DecideCommit
    <3> QED
      BY <3>3 DEF Pending
  <2>3. CASE a \notin arg[w]
    <3>1. want[a] # "none" \/ a \in skip \/ Pending(a)
      BY <1>3, <2>1, <2>3 DEF DecideCommit, FreshBanKept
    <3>2. Pending(a) => Pending(a)'
      BY <1>3 DEF DecideCommit, Pending
    <3> QED
      BY <1>3, <3>1, <3>2 DEF DecideCommit
  <2> QED
    BY <2>2, <2>3
<1>4. CASE DecideFail(w)
  BY <1>4, FreshFrame DEF DecideFail
<1>5. CASE DispatchStart(w)
  BY <1>5, FreshIdle DEF DispatchStart, Syncer, Sys
<1>6. CASE DispatchRefused(w)
  BY <1>6, FreshIdle DEF DispatchRefused, Syncer, Sys
<1>7. CASE ApplyBan(w)
  BY <1>7, FreshIdle DEF ApplyBan, Syncer, Sys
<1>8. CASE ApplyFail(w)
  BY <1>8, FreshIdle DEF ApplyFail, Syncer, Sys
<1> QED
  BY <1>1, <1>2, <1>3, <1>4, <1>5, <1>6, <1>7, <1>8 DEF WorkerStep

\* Every step of retryGatedBan keeps FreshBanKept.
LEMMA RetryFresh ==
    ASSUME BanInv, RetryStep
    PROVE  FreshBanKept'
<1> USE BanAssumption, AllowlistAssumption DEF BanInv, TypeInv, TypeOK, MutexOK,
        Critical, Return, Finish, Goto, Acquire, Release, Holds, allowVars,
        procVars, localVars, syncVars, envVars, banVars
<1>1. CASE \E a \in Address : RetryStart(a)
  BY <1>1, FreshIdle DEF RetryStart, Syncer, Sys
<1>2. CASE \E a \in Address : RetryRefused(a)
  BY <1>2, FreshFrame DEF RetryRefused
<1>3. CASE ApplyBan("retry") \/ ApplyFail("retry")
  <2>1. pc["retry"] = "apply" /\ enforceMu = "retry" /\ "retry" \notin Syncer
    BY <1>3 DEF ApplyBan, ApplyFail, Syncer, Sys
  <2>2. pc' = [pc EXCEPT !["retry"] = "idle"]
    BY <1>3 DEF ApplyBan, ApplyFail
  <2>3. \A q \in Syncer : q \in Goroutine /\ q # "retry"
    BY <2>1 DEF Syncer, Sys
  <2>4. \A q \in Syncer : pc'[q] \notin {"sync_gate", "sync_apply"}
    BY <2>1, <2>2, <2>3
  <2> QED
    BY <2>4, FreshIdle
<1> QED
  BY <1>1, <1>2, <1>3 DEF RetryStep

\* Every step of syncEnforcer keeps FreshBanKept.
LEMMA SyncFresh ==
    ASSUME BanInv, NEW p \in Syncer, SyncStep(p)
    PROVE  FreshBanKept'
<1> USE BanAssumption, AllowlistAssumption DEF BanInv, TypeInv, TypeOK, MutexOK,
        Critical, Return, Finish, Goto, Acquire, Release, Holds, allowVars,
        procVars, localVars, syncVars, envVars, banVars
<1>1. CASE SyncSnapshot(p)
  BY <1>1 DEF SyncSnapshot, FreshBanKept, Real
<1>2. CASE SyncGate(p)
  <2> SUFFICES ASSUME NEW q \in Syncer, pc'[q] \in {"sync_gate", "sync_apply"},
                      NEW a \in Address, kernel'[{a}] # "none", row'[a] \in Real
               PROVE  want'[a] # "none" \/ a \in skip' \/ Pending(a)'
    BY DEF FreshBanKept
  <2>1. want[a] # "none" \/ a \in skip \/ Pending(a)
    BY <1>2 DEF SyncGate, FreshBanKept
  <2>2. Pending(a) => Pending(a)'
    BY <1>2 DEF SyncGate, Pending
  <2> QED
    BY <1>2, <2>1, <2>2 DEF SyncGate
<1>3. CASE SyncApply(p)
  BY <1>3, FreshIdle DEF SyncApply, SyncDone, Syncer, Sys
<1>4. CASE SyncAbort(p)
  BY <1>4, FreshFrame DEF SyncAbort, SyncDone, Syncer, Sys
<1>5. CASE SyncFail(p)
  BY <1>5, FreshIdle DEF SyncFail, SyncDone, Syncer, Sys
<1> QED
  BY <1>1, <1>2, <1>3, <1>4, <1>5 DEF SyncStep

\* Every step of a control-socket verb keeps FreshBanKept.
LEMMA ConnFresh ==
    ASSUME BanInv, NEW c \in Conn, ConnStep(c)
    PROVE  FreshBanKept'
<1> USE BanAssumption, AllowlistAssumption DEF BanInv, TypeInv, TypeOK, MutexOK,
        Critical, Return, Finish, Goto, Acquire, Release, Holds, allowVars,
        procVars, localVars, syncVars, envVars, banVars
<1>1. CASE BanStart(c)
  BY <1>1, FreshIdle DEF BanStart, Syncer, Sys
<1>2. CASE BanError(c)
  BY <1>2, FreshIdle DEF BanError, Syncer, Sys
<1>3. CASE BanApply(c)
  BY <1>3, FreshIdle DEF BanApply, Syncer, Sys
<1>4. CASE BanRecord(c)
  BY <1>4, FreshIdle DEF BanRecord, Syncer, Sys
<1>5. CASE UnbanStore(c)
  BY <1>5, FreshIdle DEF UnbanStore, Syncer, Sys
<1>6. CASE LiftKernel(c)
  BY <1>6, FreshIdle DEF LiftKernel, Syncer, Sys
<1>7. CASE LiftFail(c)
  BY <1>7, FreshFrame DEF LiftFail, Syncer, Sys
<1>8. CASE LiftStore(c)
  BY <1>8, FreshIdle DEF LiftStore, Syncer, Sys
<1>9. CASE DisableAllClear(c)
  BY <1>9, FreshIdle DEF DisableAllClear, Syncer, Sys
<1>10. CASE DisableAllFail(c)
  BY <1>10, FreshFrame DEF DisableAllFail, Syncer, Sys
<1>11. CASE AllowEnd(c)
  BY <1>11, FreshFrame DEF AllowEnd, AllowPush, Syncer, Sys
<1> QED
  BY <1>1, <1>2, <1>3, <1>4, <1>5, <1>6, <1>7, <1>8, <1>9, <1>10, <1>11 DEF ConnStep

\* Every request keeps FreshBanKept.
LEMMA RequestFresh ==
    ASSUME BanInv, Request
    PROVE  FreshBanKept'
<1> USE BanAssumption, AllowlistAssumption DEF BanInv, TypeInv, TypeOK, MutexOK,
        Critical, Return, Finish, Goto, Acquire, Release, Holds, allowVars,
        procVars, localVars, syncVars, envVars, banVars
<1>1. CASE \E w \in Worker, a \in Address : Detect(w, a)
  BY <1>1, FreshFrame DEF Detect
<1>2. CASE \E c \in Conn, t \in BanTarget, v \in Real : BanRequest(c, t, v)
  BY <1>2, FreshFrame DEF BanRequest
<1>3. CASE \E c \in Conn, t \in BanTarget : UnbanKernel(c, t)
  BY <1>3, FreshIdle DEF UnbanKernel, Syncer, Sys
<1>4. CASE \E c \in Conn, v \in BOOLEAN : SetArmed(c, v)
  BY <1>4, FreshFrame DEF SetArmed
<1>5. CASE \E c \in Conn : DisableAll(c)
  BY <1>5, FreshFrame DEF DisableAll
<1>6. CASE AllowBegin
  <2>1. ASSUME NEW c \in Goroutine, pc[c] = "idle", Goto(c, "reload_list"),
               NEW x, arg' = arg \/ arg' = [arg EXCEPT ![c] = x]
        PROVE  FreshBanKept'
    BY <1>6, <2>1, FreshFrame DEF AllowBegin, Syncer, Sys
  <2>2. CASE \E c \in Conn, x \in AllowTarget : AllowRequest(c, x) \/ UnallowRequest(c, x)
    BY <2>1, <2>2 DEF AllowRequest, UnallowRequest
  <2>3. CASE \E S \in SUBSET AllowTarget : ExpireAllows(S)
    BY <2>1, <2>3 DEF ExpireAllows
  <2> QED
    BY <1>6, <2>2, <2>3 DEF AllowBegin
<1> QED
  BY <1>1, <1>2, <1>3, <1>4, <1>5, <1>6 DEF Request

\* Every step of the environment and of the expiry sweep keeps FreshBanKept.
LEMMA EnvFresh ==
    ASSUME BanInv, Environment \/ ExpireBans
    PROVE  FreshBanKept'
<1> USE BanAssumption, AllowlistAssumption DEF BanInv, TypeInv, TypeOK, MutexOK,
        Critical, Return, Finish, Goto, Acquire, Release, Holds, allowVars,
        procVars, localVars, syncVars, envVars, banVars
<1>1. CASE \E a \in Address : RowExpires(a)
  BY <1>1, FreshFrame DEF RowExpires, Real
<1>2. CASE \E a \in Address : PeersChange(a)
  BY <1>2, FreshFrame DEF PeersChange
<1>3. CASE \E t \in Prefix : ElementExpires(t)
  BY <1>3, FreshFrame DEF ElementExpires
<1>4. CASE LocalFlush
  BY <1>4, FreshFrame DEF LocalFlush, NoElement
<1>5. CASE Crash
  BY <1>5, FreshIdle DEF Crash, Restart, Syncer, Sys
<1>6. CASE Quiesce
  BY <1>6, FreshFrame DEF Quiesce
<1>7. CASE ExpireBans
  BY <1>7, FreshFrame DEF ExpireBans, Real, Sys
<1> QED
  BY <1>1, <1>2, <1>3, <1>4, <1>5, <1>6, <1>7 DEF Environment

\* Every step of an allowlist reload keeps FreshBanKept.
LEMMA AllowFresh ==
    ASSUME BanInv, NEW p \in AllowProc, AllowMiddle(p)
    PROVE  FreshBanKept'
<1> USE BanAssumption, AllowlistAssumption DEF BanInv, TypeInv, TypeOK, MutexOK,
        Critical, Return, Finish, Goto, Acquire, Release, Holds, allowVars,
        procVars, localVars, syncVars, envVars, banVars
<1>1. CASE ReloadList(p) /\ UNCHANGED banVars
  BY <1>1, FreshFrame DEF ReloadList, AllowProc
<1>2. CASE ReloadMem(p) /\ UNCHANGED banVars
  BY <1>2, FreshFrame DEF ReloadMem, AllowProc
<1>3. CASE ReloadGate(p) /\ UNCHANGED banVars
  BY <1>3, FreshFrame DEF ReloadGate, AfterReload, AllowProc
<1>4. CASE ReloadFail(p) /\ UNCHANGED banVars
  BY <1>4, FreshFrame DEF ReloadFail, AfterReload, AllowProc
<1>5. CASE ResyncRead(p) /\ UNCHANGED banVars
  BY <1>5, FreshFrame DEF ResyncRead, AllowProc
<1>6. CASE ResyncList(p) /\ UNCHANGED banVars
  BY <1>6, FreshFrame DEF ResyncList, AllowProc
<1>7. CASE ResyncPush(p) /\ UNCHANGED banVars
  BY <1>7, FreshFrame DEF ResyncPush, AllowProc
<1> QED
  BY <1>1, <1>2, <1>3, <1>4, <1>5, <1>6, <1>7 DEF AllowMiddle
-----------------------------------------------------------------------------
\* The daemon's first state satisfies the invariant.
LEMMA InitInv == Init => BanInv
<1> SUFFICES ASSUME Init PROVE BanInv
  OBVIOUS
<1>1. \A p \in Goroutine : pc[p] = "idle" /\ op[p] = "none"
  BY DEF Init, AllowInit
<1>2. gatedQ \in [Address -> NotQueued .. MaxAttempts - 1]
  BY BanAssumption DEF Init, NotQueued
<1>3. TypeOK
  BY <1>2, AllowlistAssumption DEF Init, AllowInit, TypeOK, Label, AllowLabel,
     Live, Real, NoElement, NoWant
<1>4. HandsOK /\ MutexOK
  BY <1>1 DEF HandsOK, MutexOK, Critical
<1>5. FreshBanKept
  BY <1>1, BanAssumption, AllowlistAssumption DEF FreshBanKept, Syncer, Sys
<1> QED
  BY <1>3, <1>4, <1>5 DEF BanInv, TypeInv

\* A step of any goroutine or of the environment keeps the invariant.
LEMMA NextInv == BanInv /\ [Next]_vars => BanInv'
<1> SUFFICES ASSUME BanInv, [Next]_vars PROVE BanInv'
  OBVIOUS
<1> USE DEF BanInv
<1>1. CASE \E w \in Worker : WorkerStep(w)
  BY <1>1, WorkerType, WorkerMutex, WorkerFresh
<1>2. CASE RetryStep
  BY <1>2, RetryType, RetryMutex, RetryFresh
<1>3. CASE \E p \in Syncer : SyncStep(p)
  BY <1>3, SyncType, SyncMutex, SyncFresh
<1>4. CASE \E c \in Conn : ConnStep(c)
  BY <1>4, ConnType, ConnMutex, ConnFresh
<1>5. CASE Request
  BY <1>5, RequestType, RequestMutex, RequestFresh
<1>6. CASE Environment \/ ExpireBans
  BY <1>6, EnvType, EnvMutex, EnvFresh
<1>7. CASE \E p \in AllowProc : AllowMiddle(p)
  BY <1>7, AllowType, AllowMutex, AllowFresh
<1>8. CASE UNCHANGED vars
  <2> USE <1>8 DEF vars, allowVars, procVars, localVars, banVars, syncVars, envVars
  <2>1. TypeOK'
    BY DEF TypeInv, TypeOK
  <2>2. HandsOK'
    BY DEF TypeInv, HandsOK
  <2>3. MutexOK' /\ FreshBanKept'
    BY DEF MutexOK, FreshBanKept, Pending
  <2> QED
    BY <2>1, <2>2, <2>3 DEF TypeInv
<1> QED
  BY <1>1, <1>2, <1>3, <1>4, <1>5, <1>6, <1>7, <1>8 DEF Next

\* The invariant holds in every state of every behaviour.
THEOREM BanInvariance == Spec => []BanInv
BY InitInv, NextInv, PTL DEF Spec

\* The store, the kernel set, the mutex, the retry budget and the local state
\* of every goroutine keep the values the code can give them.
THEOREM TypeCorrect == Spec => []TypeOK
BY BanInvariance, PTL DEF BanInv, TypeInv

\* Issue #575, for every number of goroutines and addresses: a ban that is in
\* the kernel and in the store is never stale to a reconcile in progress.
THEOREM ReconcileKeepsFreshBans == Spec => []FreshBanKept
BY BanInvariance, PTL DEF BanInv
-----------------------------------------------------------------------------
(* No revival of a lifted ban. *)

\* Without expiring rows: what a reconcile wants, and what a retry is about to
\* apply, has a row. A reconcile wants something only while it holds enforceMu.
LiftOK ==
    /\ \A a \in Address : row[a] # "expired"
    /\ \A a \in Address : want[a] # "none" =>
           /\ row[a] # "none"
           /\ \E q \in Syncer : pc[q] \in {"sync_gate", "sync_apply"}
    /\ pc["retry"] = "apply" => \A a \in Address : a \in arg["retry"] => row[a] # "none"

\* A step that deletes no row, ends no reconcile and starts no retry.
LEMMA LiftFrame ==
    ASSUME LiftOK, want' = want,
           \A q \in Syncer : pc[q] \in {"sync_gate", "sync_apply"} =>
                             pc'[q] \in {"sync_gate", "sync_apply"},
           \A a \in Address : row'[a] # "expired" /\ (row[a] # "none" => row'[a] # "none"),
           pc'["retry"] = "apply" => pc["retry"] = "apply" /\ arg'["retry"] = arg["retry"]
    PROVE  LiftOK'
  BY DEF LiftOK

\* A step of the holder of enforceMu, or of nobody: no reconcile and no retry
\* is under way, and rows may go.
LEMMA LiftIdle ==
    ASSUME LiftOK, want' = want,
           \A q \in Syncer : pc[q] \notin {"sync_gate", "sync_apply"},
           \A a \in Address : row'[a] # "expired",
           pc'["retry"] # "apply"
    PROVE  LiftOK'
  BY DEF LiftOK

\* Every step of Decide and dispatch keeps LiftOK.
LEMMA WorkerLift ==
    ASSUME BanInv, LiftOK, NEW w \in Worker, WorkerStep(w)
    PROVE  LiftOK'
<1> USE BanAssumption, AllowlistAssumption DEF BanInv, TypeInv, TypeOK, MutexOK,
        Critical, Return, Finish, Goto, Acquire, Release, Holds, allowVars,
        procVars, localVars, syncVars, envVars, banVars
<1>1. CASE DecideNoStrike(w)
  BY <1>1, LiftFrame DEF DecideNoStrike, LiftOK, Syncer, Sys
<1>2. CASE DecideGuard(w)
  <2>1. /\ pc'[w] \in {"idle", "commit"}
        /\ \A r \in Goroutine \ {w} : pc'[r] = pc[r] /\ arg'[r] = arg[r]
    BY <1>2 DEF DecideGuard
  <2> QED
    BY <1>2, <2>1, LiftFrame DEF DecideGuard, LiftOK, Syncer, Sys
<1>3. CASE DecideCommit(w)
  <2>1. /\ pc'[w] \in {"idle", "dispatch"}
        /\ \A r \in Goroutine \ {w} : pc'[r] = pc[r] /\ arg'[r] = arg[r]
    BY <1>3 DEF DecideCommit
  <2>2. dec[w] \in Live
    BY <1>3 DEF DecideCommit, HandsOK
  <2>3. \A a \in Address : row'[a] # "expired" /\ (row[a] # "none" => row'[a] # "none")
    BY <1>3, <2>2 DEF DecideCommit, LiftOK, Live, Real
  <2> QED
    BY <1>3, <2>1, <2>3, LiftFrame DEF DecideCommit, Syncer, Sys
<1>4. CASE DecideFail(w)
  BY <1>4, LiftFrame DEF DecideFail, LiftOK, Syncer, Sys
<1>5. CASE DispatchStart(w)
  BY <1>5, LiftFrame DEF DispatchStart, LiftOK, Syncer, Sys
<1>6. CASE DispatchRefused(w)
  BY <1>6, LiftFrame DEF DispatchRefused, LiftOK, Syncer, Sys
<1>7. CASE ApplyBan(w)
  BY <1>7, LiftFrame DEF ApplyBan, LiftOK, Syncer, Sys
<1>8. CASE ApplyFail(w)
  BY <1>8, LiftFrame DEF ApplyFail, LiftOK, Syncer, Sys
<1> QED
  BY <1>1, <1>2, <1>3, <1>4, <1>5, <1>6, <1>7, <1>8 DEF WorkerStep

\* Every step of retryGatedBan keeps LiftOK.
LEMMA RetryLift ==
    ASSUME BanInv, LiftOK, RetryStep
    PROVE  LiftOK'
<1> USE BanAssumption, AllowlistAssumption DEF BanInv, TypeInv, TypeOK, MutexOK,
        Critical, Return, Finish, Goto, Acquire, Release, Holds, allowVars,
        procVars, localVars, syncVars, envVars, banVars
<1>1. CASE \E a \in Address : RetryStart(a)
  <2>1. PICK a \in Address : RetryStart(a)
    BY <1>1
  <2>2. row[a] # "none" /\ arg'["retry"] = {a} /\ row' = row /\ want' = want
        /\ \A q \in Syncer : pc'[q] = pc[q]
    BY <2>1 DEF RetryStart, Real, Syncer, Sys
  <2> QED
    BY <2>2 DEF LiftOK
<1>2. CASE \E a \in Address : RetryRefused(a)
  BY <1>2, LiftFrame DEF RetryRefused, LiftOK, Syncer, Sys
<1>3. CASE ApplyBan("retry") \/ ApplyFail("retry")
  <2>1. pc' = [pc EXCEPT !["retry"] = "idle"] /\ row' = row /\ want' = want
    BY <1>3 DEF ApplyBan, ApplyFail
  <2> QED
    BY <2>1, LiftFrame DEF LiftOK, Syncer, Sys
<1> QED
  BY <1>1, <1>2, <1>3 DEF RetryStep

\* Every step of syncEnforcer keeps LiftOK.
LEMMA SyncLift ==
    ASSUME BanInv, LiftOK, NEW p \in Syncer, SyncStep(p)
    PROVE  LiftOK'
<1> USE BanAssumption, AllowlistAssumption DEF BanInv, TypeInv, TypeOK, MutexOK,
        Critical, Return, Finish, Goto, Acquire, Release, Holds, allowVars,
        procVars, localVars, syncVars, envVars, banVars
<1>1. CASE SyncSnapshot(p)
  <2>1. /\ p # "retry" /\ pc'[p] = "sync_gate" /\ pc'["retry"] = pc["retry"] /\ row' = row /\ arg' = arg
    BY <1>1 DEF SyncSnapshot, Syncer, Sys
  <2>2. \A a \in Address : want'[a] # "none" => row[a] # "none"
    BY <1>1 DEF SyncSnapshot, Real
  <2> QED
    BY <2>1, <2>2 DEF LiftOK
<1>2. CASE SyncGate(p)
  <2>1. /\ p # "retry" /\ pc'[p] = "sync_apply" /\ pc'["retry"] = pc["retry"] /\ row' = row /\ arg' = arg
    BY <1>2 DEF SyncGate, Syncer, Sys
  <2>2. \A a \in Address : want'[a] # "none" => want[a] # "none"
    BY <1>2 DEF SyncGate
  <2> QED
    BY <2>1, <2>2 DEF LiftOK
<1>3. CASE SyncApply(p)
  <2>1. /\ p # "retry" /\ pc'["retry"] = pc["retry"] /\ row' = row /\ arg' = arg /\ want' = NoWant
    BY <1>3 DEF SyncApply, Syncer, Sys
  <2> QED
    BY <2>1 DEF LiftOK, NoWant
<1>4. CASE SyncAbort(p)
  BY <1>4, LiftFrame DEF SyncAbort, SyncDone, LiftOK, Syncer, Sys
<1>5. CASE SyncFail(p)
  <2>1. /\ p # "retry" /\ pc'["retry"] = pc["retry"] /\ row' = row /\ arg' = arg /\ want' = NoWant
    BY <1>5 DEF SyncFail, Syncer, Sys
  <2> QED
    BY <2>1 DEF LiftOK, NoWant
<1> QED
  BY <1>1, <1>2, <1>3, <1>4, <1>5 DEF SyncStep

\* Every step of a control-socket verb keeps LiftOK.
LEMMA ConnLift ==
    ASSUME BanInv, LiftOK, NEW c \in Conn, ConnStep(c)
    PROVE  LiftOK'
<1> USE BanAssumption, AllowlistAssumption DEF BanInv, TypeInv, TypeOK, MutexOK,
        Critical, Return, Finish, Goto, Acquire, Release, Holds, allowVars,
        procVars, localVars, syncVars, envVars, banVars
<1>1. CASE BanStart(c)
  BY <1>1, LiftFrame DEF BanStart, LiftOK, Syncer, Sys
<1>2. CASE BanError(c)
  BY <1>2, LiftFrame DEF BanError, LiftOK, Syncer, Sys
<1>3. CASE BanApply(c)
  BY <1>3, LiftFrame DEF BanApply, LiftOK, Syncer, Sys
<1>4. CASE BanRecord(c)
  <2>1. row' \in [Address -> Live \cup {"none"}]
    BY <1>4 DEF BanRecord, LiftOK, StoreWrite, HandsOK, Live, Real
  <2> QED
    BY <1>4, <2>1, LiftIdle DEF BanRecord, Live, Real, Syncer, Sys
<1>5. CASE UnbanStore(c)
  <2>1. row' \in [Address -> Live \cup {"none"}]
    BY <1>5 DEF UnbanStore, LiftOK, StoreWrite, HandsOK, Live, Real
  <2> QED
    BY <1>5, <2>1, LiftIdle DEF UnbanStore, Live, Real, Syncer, Sys
<1>6. CASE LiftKernel(c)
  BY <1>6, LiftFrame DEF LiftKernel, LiftOK, Syncer, Sys
<1>7. CASE LiftFail(c)
  BY <1>7, LiftFrame DEF LiftFail, LiftOK, Syncer, Sys
<1>8. CASE LiftStore(c)
  <2>1. row' \in [Address -> Live \cup {"none"}]
    BY <1>8 DEF LiftStore, LiftOK, StoreWrite, HandsOK, Live, Real
  <2> QED
    BY <1>8, <2>1, LiftIdle DEF LiftStore, Live, Real, Syncer, Sys
<1>9. CASE DisableAllClear(c)
  BY <1>9, LiftIdle DEF DisableAllClear, LiftOK, Syncer, Sys
<1>10. CASE DisableAllFail(c)
  BY <1>10, LiftFrame DEF DisableAllFail, LiftOK, Syncer, Sys
<1>11. CASE AllowEnd(c)
  BY <1>11, LiftFrame DEF AllowEnd, AllowPush, LiftOK, Syncer, Sys
<1> QED
  BY <1>1, <1>2, <1>3, <1>4, <1>5, <1>6, <1>7, <1>8, <1>9, <1>10, <1>11 DEF ConnStep

\* Every request keeps LiftOK.
LEMMA RequestLift ==
    ASSUME BanInv, LiftOK, Request
    PROVE  LiftOK'
<1> USE BanAssumption, AllowlistAssumption DEF BanInv, TypeInv, TypeOK, MutexOK,
        Critical, Return, Finish, Goto, Acquire, Release, Holds, allowVars,
        procVars, localVars, syncVars, envVars, banVars
<1>1. CASE \E w \in Worker, a \in Address : Detect(w, a)
  BY <1>1, LiftFrame DEF Detect, LiftOK, Syncer, Sys
<1>2. CASE \E c \in Conn, t \in BanTarget, v \in Real : BanRequest(c, t, v)
  BY <1>2, LiftFrame DEF BanRequest, LiftOK, Syncer, Sys
<1>3. CASE \E c \in Conn, t \in BanTarget : UnbanKernel(c, t)
  BY <1>3, LiftFrame DEF UnbanKernel, LiftOK, Syncer, Sys
<1>4. CASE \E c \in Conn, v \in BOOLEAN : SetArmed(c, v)
  BY <1>4, LiftFrame DEF SetArmed, LiftOK, Syncer, Sys
<1>5. CASE \E c \in Conn : DisableAll(c)
  BY <1>5, LiftFrame DEF DisableAll, LiftOK, Syncer, Sys
<1>6. CASE AllowBegin
  <2>1. ASSUME NEW c \in Goroutine, c # "retry", pc[c] = "idle", Goto(c, "reload_list"),
               NEW x, arg' = arg \/ arg' = [arg EXCEPT ![c] = x]
        PROVE  LiftOK'
    BY <1>6, <2>1, LiftFrame DEF AllowBegin, LiftOK, Syncer, Sys
  <2>2. CASE \E c \in Conn, x \in AllowTarget : AllowRequest(c, x) \/ UnallowRequest(c, x)
    BY <2>1, <2>2 DEF AllowRequest, UnallowRequest, Sys
  <2>3. CASE \E S \in SUBSET AllowTarget : ExpireAllows(S)
    BY <2>1, <2>3 DEF ExpireAllows
  <2> QED
    BY <1>6, <2>2, <2>3 DEF AllowBegin
<1> QED
  BY <1>1, <1>2, <1>3, <1>4, <1>5, <1>6 DEF Request

\* Without expiring rows, every step of the environment and of the expiry sweep keeps LiftOK.
LEMMA EnvLift ==
    ASSUME BanInv, LiftOK, "expiry" \notin Env, Environment \/ ExpireBans
    PROVE  LiftOK'
<1> USE BanAssumption, AllowlistAssumption DEF BanInv, TypeInv, TypeOK, MutexOK,
        Critical, Return, Finish, Goto, Acquire, Release, Holds, allowVars,
        procVars, localVars, syncVars, envVars, banVars
<1>1. CASE \E a \in Address : RowExpires(a)
  BY <1>1 DEF RowExpires
<1>2. CASE \E a \in Address : PeersChange(a)
  BY <1>2, LiftFrame DEF PeersChange, LiftOK, Syncer, Sys
<1>3. CASE \E t \in Prefix : ElementExpires(t)
  BY <1>3 DEF ElementExpires
<1>4. CASE LocalFlush
  BY <1>4, LiftFrame DEF LocalFlush, LiftOK, Syncer, Sys
<1>5. CASE Crash
  <2>1. pc'["retry"] # "apply" /\ want' = NoWant /\ row' = row
    BY <1>5 DEF Crash, Restart, Sys
  <2> QED
    BY <2>1 DEF LiftOK, NoWant
<1>6. CASE Quiesce
  BY <1>6, LiftFrame DEF Quiesce, LiftOK, Syncer, Sys
<1>7. CASE ExpireBans
  BY <1>7 DEF ExpireBans, LiftOK
<1> QED
  BY <1>1, <1>2, <1>3, <1>4, <1>5, <1>6, <1>7 DEF Environment

\* Every step of an allowlist reload keeps LiftOK.
LEMMA AllowLift ==
    ASSUME BanInv, LiftOK, NEW p \in AllowProc, AllowMiddle(p)
    PROVE  LiftOK'
<1> USE BanAssumption, AllowlistAssumption DEF BanInv, TypeInv, TypeOK, MutexOK,
        Critical, Return, Finish, Goto, Acquire, Release, Holds, allowVars,
        procVars, localVars, syncVars, envVars, banVars
<1>1. CASE ReloadList(p) /\ UNCHANGED banVars
  BY <1>1, LiftFrame DEF ReloadList, AllowProc, LiftOK, Syncer, Sys
<1>2. CASE ReloadMem(p) /\ UNCHANGED banVars
  BY <1>2, LiftFrame DEF ReloadMem, AllowProc, LiftOK, Syncer, Sys
<1>3. CASE ReloadGate(p) /\ UNCHANGED banVars
  BY <1>3, LiftFrame DEF ReloadGate, AfterReload, AllowProc, LiftOK, Syncer, Sys
<1>4. CASE ReloadFail(p) /\ UNCHANGED banVars
  BY <1>4, LiftFrame DEF ReloadFail, AfterReload, AllowProc, LiftOK, Syncer, Sys
<1>5. CASE ResyncRead(p) /\ UNCHANGED banVars
  BY <1>5, LiftFrame DEF ResyncRead, AllowProc, LiftOK, Syncer, Sys
<1>6. CASE ResyncList(p) /\ UNCHANGED banVars
  BY <1>6, LiftFrame DEF ResyncList, AllowProc, LiftOK, Syncer, Sys
<1>7. CASE ResyncPush(p) /\ UNCHANGED banVars
  BY <1>7, LiftFrame DEF ResyncPush, AllowProc, LiftOK, Syncer, Sys
<1> QED
  BY <1>1, <1>2, <1>3, <1>4, <1>5, <1>6, <1>7 DEF AllowMiddle

\* A step that puts an address without a row into the kernel is one of a
\* worker or of a connection that holds enforceMu.
LEMMA RevivalStep ==
    ASSUME BanInv, LiftOK, Next, NEW a \in Address,
           row[a] = "none", kernel[{a}] = "none", kernel'[{a}] # "none"
    PROVE  enforceMu \in Worker \cup Conn
<1> USE BanAssumption, AllowlistAssumption DEF BanInv, TypeInv, TypeOK
<1>1. CASE \E w \in Worker : WorkerStep(w)
  BY <1>1 DEF WorkerStep, DecideNoStrike, DecideGuard, DecideCommit, DecideFail, DispatchStart,
     DispatchRefused, ApplyBan, ApplyFail, Holds, banVars
<1>2. CASE RetryStep
  <2>1. ApplyBan("retry")
    BY <1>2 DEF RetryStep, RetryStart, RetryRefused, ApplyFail
  <2>2. PICK b \in Address : arg["retry"] = {b}
    BY <2>1 DEF ApplyBan, HandsOK, Sys
  <2>3. row[b] # "none"
    BY <2>1, <2>2 DEF ApplyBan, LiftOK
  <2>4. kernel' = KernelAdd({b}, dec["retry"]) /\ {a} \in Prefix /\ {a} # {b} /\ ~({a} \subseteq {b})
    BY <2>1, <2>2, <2>3 DEF ApplyBan
  <2> QED
    BY <2>4 DEF KernelAdd
<1>3. CASE \E p \in Syncer : SyncStep(p)
  <2>1. PICK p \in Syncer : SyncApply(p) \/ SyncFail(p)
    BY <1>3 DEF SyncStep, SyncSnapshot, SyncGate, SyncAbort, banVars
  <2>2. {a} \in Prefix /\ want[a] = "none"
    BY DEF LiftOK
  <2>3. ~\E b \in Address : {a} = {b} /\ want[b] # "none"
    BY <2>2
  <2>4. Synced[{a}] = "none"
    BY <2>2, <2>3 DEF Synced
  <2> QED
    BY <2>1, <2>2, <2>4 DEF SyncApply, SyncFail
<1>4. CASE \E c \in Conn : ConnStep(c)
  <2>1. PICK c \in Conn : ConnStep(c)
    BY <1>4
  <2>2. BanApply(c) \/ kernel' = kernel \/ LiftKernel(c)
    BY <2>1 DEF ConnStep, BanStart, BanError, BanRecord, UnbanStore, LiftFail, LiftStore,
       DisableAllClear, DisableAllFail, AllowEnd, banVars
  <2>3. {a} \in Prefix
    OBVIOUS
  <2> QED
    BY <2>2, <2>3 DEF BanApply, LiftKernel, Holds
<1>5. CASE Request
  <2>1. kernel' = kernel \/ \E c \in Conn, t \in BanTarget : UnbanKernel(c, t)
    BY <1>5 DEF Request, Detect, BanRequest, SetArmed, DisableAll, AllowBegin, banVars
  <2> QED
    BY <2>1 DEF UnbanKernel
<1>6. CASE Environment \/ ExpireBans
  BY <1>6 DEF Environment, ExpireBans, RowExpires, PeersChange, ElementExpires, LocalFlush, Crash,
     Quiesce, NoElement
<1>7. CASE \E p \in AllowProc : AllowMiddle(p)
  BY <1>7 DEF AllowMiddle, banVars
<1> QED
  BY <1>1, <1>2, <1>3, <1>4, <1>5, <1>6, <1>7 DEF Next

\* gatedban.go and syncEnforcer, with no TTL running out and whatever else
\* fails, crashes or interleaves: no reconcile and no deferred retry puts an
\* address back into the kernel whose ban an operator has lifted.
THEOREM LiftedStaysLifted == ASSUME "expiry" \notin Env PROVE Spec => NoRevival
<1>1. Init => LiftOK
  BY BanAssumption, AllowlistAssumption DEF Init, AllowInit, LiftOK, NoWant, Sys
<1>2. ASSUME BanInv, LiftOK, [Next]_vars PROVE LiftOK'
  <2>1. CASE UNCHANGED vars
    BY <1>2, <2>1 DEF vars, procVars, localVars, banVars, syncVars, LiftOK
  <2>2. CASE Next
    BY <1>2, <2>2, WorkerLift, RetryLift, SyncLift, ConnLift, RequestLift, EnvLift, AllowLift
       DEF Next
  <2> QED
    BY <1>2, <2>1, <2>2
<1>3. ASSUME BanInv, LiftOK, [Next]_vars
      PROVE  [\A a \in Address :
                row[a] = "none" /\ kernel[{a}] = "none" /\ kernel'[{a}] # "none"
                   => enforceMu \in Worker \cup Conn]_vars
  BY <1>3, RevivalStep
<1> QED
  BY <1>1, <1>2, <1>3, BanInvariance, PTL DEF Spec, NoRevival
-----------------------------------------------------------------------------
(* An allowed address is not banned again. *)

\* With one control-socket connection c at a time, a readable store, no
\* elapsing entries and no restart, c is the only one to reload the allowlist:
\* the entries that stand, and the one c is adding, are in what it has read
\* and then in the gate's list.
EntryOK(c) ==
    /\ pc["boot"] = "idle" /\ pc["expireAllows"] = "idle"
    /\ settled \subseteq allowTable /\ settled \subseteq extra
    /\ pc[c] = "reload_list" /\ op[c] = "allow" => arg[c] \in allowTable
    /\ pc[c] \in {"reload_mem", "reload_gate"} =>
           settled \subseteq snap[c] /\ (op[c] = "allow" => arg[c] \in snap[c])
    /\ pc[c] \in {"lift", "lift_store", "push"} => arg[c] \in extra

\* The entries no ban may touch: those that stand and, once the bans it
\* covers are lifted, the one about to.
Shield(c) == settled \cup {x \in {arg[c]} : pc[c] = "push"}

\* What has passed the gate and is about to reach the kernel is outside them.
GuardOK(c) ==
    /\ pc[c] = "mb_apply" => ~Overlaps(settled, arg[c])
    /\ \A p \in Worker \cup {"retry"} :
           pc[p] = "apply" => ~Overlaps(Shield(c), arg[p])
    /\ \A p \in Syncer : pc[p] = "sync_apply" =>
           \A a \in Address : want[a] # "none" => ~Covers(Shield(c), a)

ShieldOK(c) == EntryOK(c) /\ GuardOK(c)

\* What the theorem assumes of the instance: one connection at a time, a
\* store that can be read, no entry that elapses, no restart.
OneOperator(c) ==
    Conn = {c} /\ "store" \notin Env /\ "crash" \notin Env /\ "allow_expiry" \notin Env

\* The entries are kept by a step that changes neither the lists nor where c is.
LEMMA EntryFrame ==
    ASSUME NEW c, EntryOK(c), UNCHANGED <<allowTable, extra, settled>>,
           pc'["boot"] = pc["boot"], pc'["expireAllows"] = pc["expireAllows"],
           pc'[c] = pc[c], op'[c] = op[c], arg'[c] = arg[c], snap'[c] = snap[c]
    PROVE  EntryOK(c)'
  BY DEF EntryOK

\* The entries are kept by a step of c outside of allow and unallow.
LEMMA EntryElsewhere ==
    ASSUME NEW c, EntryOK(c), UNCHANGED <<allowTable, extra, settled>>,
           pc'["boot"] = pc["boot"], pc'["expireAllows"] = pc["expireAllows"],
           pc'[c] \notin {"reload_list", "reload_mem", "reload_gate", "lift", "lift_store", "push"}
    PROVE  EntryOK(c)'
  BY DEF EntryOK

\* What is about to reach the kernel stays outside the shield when the shield
\* does not grow and nothing new passes the gate.
LEMMA GuardFrame ==
    ASSUME NEW c, GuardOK(c), Shield(c)' \subseteq Shield(c), settled' \subseteq Shield(c),
           pc'[c] = "mb_apply" => pc[c] = "mb_apply" /\ arg'[c] = arg[c] /\ settled' = settled,
           \A p \in Worker \cup {"retry"} :
              pc'[p] = "apply" => pc[p] = "apply" /\ arg'[p] = arg[p],
           \A p \in Syncer : pc'[p] = "sync_apply" => pc[p] = "sync_apply",
           \A a \in Address : want'[a] # "none" => want[a] # "none"
    PROVE  GuardOK(c)'
<1>1. pc'[c] = "mb_apply" => ~Overlaps(settled', arg'[c])
  BY DEF GuardOK, Overlaps
<1>2. ASSUME NEW p \in Worker \cup {"retry"}, pc'[p] = "apply"
      PROVE  ~Overlaps(Shield(c)', arg'[p])
  <2> HIDE DEF Shield
  <2>1. ~Overlaps(Shield(c), arg[p]) /\ arg'[p] = arg[p]
    BY <1>2 DEF GuardOK
  <2> QED
    BY <2>1 DEF Overlaps
<1>3. ASSUME NEW p \in Syncer, pc'[p] = "sync_apply", NEW a \in Address, want'[a] # "none"
      PROVE  ~Covers(Shield(c)', a)
  <2>1. ~Covers(Shield(c), a)
    BY <1>3 DEF GuardOK
  <2> QED
    BY <2>1 DEF Covers
<1> QED
  BY <1>1, <1>2, <1>3 DEF GuardOK, Overlaps, Covers, Shield

\* The gate knows every entry of the shield, and the shield covers what stands.
LEMMA ShieldKnown ==
    ASSUME NEW c, EntryOK(c)
    PROVE  Shield(c) \subseteq extra /\ settled \subseteq Shield(c)
  BY DEF EntryOK, Shield

\* What the gate lets through is outside the shield.
LEMMA GateShield ==
    ASSUME NEW c, EntryOK(c), NEW t, ~Refuse(t)
    PROVE  ~Overlaps(Shield(c), t) /\ ~Overlaps(settled, t)
  BY ShieldKnown DEF Refuse, Overlaps

\* Every step of Decide and dispatch keeps the shield.
LEMMA WorkerShield ==
    ASSUME BanInv, NEW c, OneOperator(c), ShieldOK(c), NEW w \in Worker, WorkerStep(w)
    PROVE  ShieldOK(c)'
<1> USE BanAssumption, AllowlistAssumption DEF BanInv, TypeInv, TypeOK, OneOperator,
        Return, Finish, Goto, Acquire, Release, Holds, allowVars,
        procVars, localVars, syncVars, envVars, banVars
<1>1. /\ UNCHANGED <<allowTable, extra, settled, want>>
      /\ pc'[w] \in {"idle", "commit", "dispatch", "apply"}
      /\ \A r \in Goroutine \ {w} :
            pc'[r] = pc[r] /\ op'[r] = op[r] /\ arg'[r] = arg[r] /\ snap'[r] = snap[r]
  <2>1. CASE DecideNoStrike(w) \/ DecideFail(w) \/ ApplyBan(w) \/ ApplyFail(w)
    BY <2>1 DEF DecideNoStrike, DecideFail, ApplyBan, ApplyFail
  <2>2. CASE DecideGuard(w)
    BY <2>2 DEF DecideGuard
  <2>3. CASE DecideCommit(w)
    BY <2>3 DEF DecideCommit
  <2>4. CASE DispatchStart(w) \/ DispatchRefused(w)
    BY <2>4 DEF DispatchStart, DispatchRefused
  <2> QED
    BY <2>1, <2>2, <2>3, <2>4 DEF WorkerStep
<1>2. w # c /\ w # "retry" /\ w # "boot" /\ w # "expireAllows" /\ w \notin Syncer
      /\ c \in Goroutine /\ {"retry", "boot", "expireAllows"} \subseteq Goroutine
      /\ Syncer \subseteq Goroutine
  BY DEF Syncer, Sys
<1>3. EntryOK(c)'
  BY <1>1, <1>2, EntryFrame DEF ShieldOK
<1>4. Shield(c)' = Shield(c) /\ settled' \subseteq Shield(c)
  BY <1>1, <1>2 DEF Shield
<1>5. CASE pc'[w] # "apply"
  BY <1>1, <1>2, <1>3, <1>4, <1>5, GuardFrame DEF ShieldOK
<1>6. CASE pc'[w] = "apply"
  <2>1. DispatchStart(w)
    BY <1>6 DEF WorkerStep, DecideNoStrike, DecideGuard, DecideCommit, DecideFail,
       DispatchRefused, ApplyBan, ApplyFail
  <2>2. ~Overlaps(Shield(c), arg[w]) /\ arg' = arg
    BY <2>1, GateShield DEF DispatchStart, ShieldOK
  <2>3. GuardOK(c)'
    <3> HIDE DEF Shield
    <3> QED
      BY <1>1, <1>2, <1>4, <2>2 DEF ShieldOK, GuardOK, Overlaps, Covers
  <2> QED
    BY <1>3, <2>3 DEF ShieldOK
<1> QED
  BY <1>5, <1>6

\* Every step of retryGatedBan keeps the shield.
LEMMA RetryShield ==
    ASSUME BanInv, NEW c, OneOperator(c), ShieldOK(c), RetryStep
    PROVE  ShieldOK(c)'
<1> USE BanAssumption, AllowlistAssumption DEF BanInv, TypeInv, TypeOK, OneOperator,
        Return, Finish, Goto, Acquire, Release, Holds, allowVars,
        procVars, localVars, syncVars, envVars, banVars
<1>1. /\ UNCHANGED <<allowTable, extra, settled, want>>
      /\ \A r \in Goroutine \ {"retry"} :
            pc'[r] = pc[r] /\ op'[r] = op[r] /\ arg'[r] = arg[r] /\ snap'[r] = snap[r]
  <2>1. CASE \E a \in Address : RetryStart(a) \/ RetryRefused(a)
    BY <2>1 DEF RetryStart, RetryRefused, Sys
  <2>2. CASE ApplyBan("retry") \/ ApplyFail("retry")
    BY <2>2 DEF ApplyBan, ApplyFail, Sys
  <2> QED
    BY <2>1, <2>2 DEF RetryStep
<1>2. c # "retry" /\ "retry" \notin Worker /\ "retry" \notin Syncer /\ c \in Goroutine
      /\ {"retry", "boot", "expireAllows"} \subseteq Goroutine
      /\ Syncer \subseteq Goroutine /\ Worker \subseteq Goroutine
  BY DEF Syncer, Sys
<1>3. EntryOK(c)'
  BY <1>1, <1>2, EntryFrame DEF ShieldOK
<1>4. Shield(c)' = Shield(c) /\ settled' \subseteq Shield(c)
  BY <1>1, <1>2 DEF Shield
<1>5. CASE pc'["retry"] = "apply" => pc["retry"] = "apply" /\ arg'["retry"] = arg["retry"]
  BY <1>1, <1>2, <1>3, <1>4, <1>5, GuardFrame DEF ShieldOK
<1>6. CASE \E a \in Address : RetryStart(a)
  <2>1. PICK a \in Address : RetryStart(a)
    BY <1>6
  <2>2. ~Overlaps(Shield(c), {a}) /\ arg'["retry"] = {a}
    BY <1>2, <2>1, GateShield DEF RetryStart, ShieldOK
  <2>3. GuardOK(c)'
    <3> HIDE DEF Shield
    <3> QED
      BY <1>1, <1>2, <1>4, <2>2 DEF ShieldOK, GuardOK, Overlaps, Covers
  <2> QED
    BY <1>3, <2>3 DEF ShieldOK
<1>7. CASE ~ \E a \in Address : RetryStart(a)
  BY <1>2, <1>5, <1>7 DEF RetryStep, RetryRefused, ApplyBan, ApplyFail
<1> QED
  BY <1>6, <1>7

\* Every step of syncEnforcer keeps the shield.
LEMMA SyncShield ==
    ASSUME BanInv, NEW c, OneOperator(c), ShieldOK(c), NEW p \in Syncer, SyncStep(p)
    PROVE  ShieldOK(c)'
<1> USE BanAssumption, AllowlistAssumption DEF BanInv, TypeInv, TypeOK, OneOperator,
        Return, Finish, Goto, Acquire, Release, Holds, allowVars,
        procVars, localVars, syncVars, envVars, banVars
<1>0. p \in Goroutine /\ p # "boot"
  <2>1. p = "boot" => pc["boot"] # "idle"
    BY DEF SyncStep, SyncSnapshot, SyncGate, SyncApply, SyncAbort, SyncFail, SyncReady
  <2> QED
    BY <2>1 DEF ShieldOK, EntryOK, Syncer, Sys
<1>1. /\ UNCHANGED <<allowTable, extra, settled, arg, snap>>
      /\ pc[p] \in {"idle", "sync", "sync_gate", "sync_apply"}
      /\ pc'[p] \in {"idle", "sync_gate", "sync_apply"}
      /\ \A r \in Goroutine \ {p} : pc'[r] = pc[r] /\ op'[r] = op[r]
  <2>1. CASE SyncSnapshot(p) \/ SyncGate(p)
    BY <1>0, <2>1 DEF SyncSnapshot, SyncGate, SyncReady
  <2>2. CASE SyncApply(p) \/ SyncAbort(p)
    BY <1>0, <2>2 DEF SyncApply, SyncAbort, SyncDone
  <2>3. CASE SyncFail(p)
    BY <1>0, <2>3 DEF SyncFail, SyncDone
  <2> QED
    BY <2>1, <2>2, <2>3 DEF SyncStep
<1>2. p \in Goroutine /\ p # "retry" /\ p # "expireAllows" /\ p \notin Worker /\ p # "boot"
      /\ c \in Goroutine /\ {"retry", "boot", "expireAllows"} \subseteq Goroutine
      /\ Syncer \subseteq Goroutine /\ Worker \subseteq Goroutine
  BY <1>0 DEF Syncer, Sys
<1>3. EntryOK(c)'
  <2>1. CASE p = c
    BY <1>1, <1>2, <2>1, EntryElsewhere DEF ShieldOK
  <2>2. CASE p # c
    BY <1>1, <1>2, <2>2, EntryFrame DEF ShieldOK
  <2> QED
    BY <2>1, <2>2
<1>4. Shield(c)' = Shield(c) /\ settled' \subseteq Shield(c)
  BY <1>1, <1>2 DEF Shield
<1>5. CASE SyncGate(p)
  <2>1. \A q \in Syncer : q # p => pc[q] # "sync_apply"
    BY <1>2, <1>5 DEF SyncGate, MutexOK, Critical
  <2>2. ASSUME NEW a \in Address, want'[a] # "none"
        PROVE  ~Covers(Shield(c), a)
    <3>1. ~Refuse({a})
      BY <1>5, <2>2 DEF SyncGate
    <3>2. ~Overlaps(Shield(c), {a})
      BY <3>1, GateShield DEF ShieldOK
    <3> QED
      BY <3>2 DEF Overlaps, Covers
  <2>3. GuardOK(c)'
    <3> HIDE DEF Shield
    <3> QED
      BY <1>1, <1>2, <1>4, <2>2 DEF ShieldOK, GuardOK, Overlaps, Covers
  <2> QED
    BY <1>3, <2>3 DEF ShieldOK
<1>6. CASE ~SyncGate(p)
  <2>1. pc'[p] # "sync_apply"
    BY <1>2, <1>6 DEF SyncStep, SyncSnapshot, SyncApply, SyncAbort, SyncFail, SyncDone
  <2>2. (\A a \in Address : want'[a] # "none" => want[a] # "none")
         \/ \A q \in Syncer : pc'[q] # "sync_apply"
    <3>1. CASE SyncSnapshot(p)
      BY <1>1, <1>2, <2>1, <3>1 DEF SyncSnapshot, MutexOK, Critical
    <3>2. CASE SyncApply(p) \/ SyncAbort(p) \/ SyncFail(p)
      BY <3>2 DEF SyncApply, SyncAbort, SyncFail, NoWant
    <3> QED
      BY <1>6, <3>1, <3>2 DEF SyncStep
  <2>3. GuardOK(c)'
    <3> HIDE DEF Shield
    <3>1. CASE \A a \in Address : want'[a] # "none" => want[a] # "none"
      BY <1>1, <1>2, <1>4, <2>1, <3>1, GuardFrame DEF ShieldOK
    <3>2. CASE \A q \in Syncer : pc'[q] # "sync_apply"
      BY <1>1, <1>2, <1>4, <2>1, <3>2 DEF ShieldOK, GuardOK, Overlaps, Covers
    <3> QED
      BY <2>2, <3>1, <3>2
  <2> QED
    BY <1>3, <2>3 DEF ShieldOK
<1> QED
  BY <1>5, <1>6

\* Every step of a control-socket verb keeps the shield.
LEMMA ConnShield ==
    ASSUME BanInv, NEW c, OneOperator(c), ShieldOK(c), ConnStep(c)
    PROVE  ShieldOK(c)'
<1> USE BanAssumption, AllowlistAssumption DEF BanInv, TypeInv, TypeOK, OneOperator,
        Return, Finish, Goto, Acquire, Release, Holds, allowVars,
        procVars, localVars, syncVars, envVars, banVars
<1>1. c \in Conn /\ c \in Goroutine /\ c \notin Worker
      /\ c # "retry" /\ c # "boot" /\ c # "expireAllows"
      /\ {"retry", "boot", "expireAllows"} \subseteq Goroutine
      /\ Syncer \subseteq Goroutine /\ Worker \subseteq Goroutine
  BY DEF Syncer, Sys
<1>2. CASE BanStart(c) \/ BanError(c) \/ BanApply(c) \/ BanRecord(c) \/ UnbanStore(c)
           \/ DisableAllClear(c) \/ DisableAllFail(c)
  <2>1. /\ UNCHANGED <<allowTable, extra, settled, want>>
        /\ pc[c] # "push" /\ pc'[c] \in {"idle", "mb_apply", "mb_record", "sync"}
        /\ \A r \in Goroutine \ {c} : pc'[r] = pc[r] /\ arg'[r] = arg[r]
    <3>1. CASE BanStart(c) \/ BanError(c)
      BY <1>1, <3>1 DEF BanStart, BanError
    <3>2. CASE BanApply(c) \/ BanRecord(c) \/ UnbanStore(c)
      BY <1>1, <3>2 DEF BanApply, BanRecord, UnbanStore
    <3>3. CASE DisableAllClear(c) \/ DisableAllFail(c)
      BY <1>1, <3>3 DEF DisableAllClear, DisableAllFail
    <3> QED
      BY <1>2, <3>1, <3>2, <3>3
  <2>2. EntryOK(c)'
    BY <1>1, <2>1, EntryElsewhere DEF ShieldOK
  <2>3. Shield(c)' = Shield(c) /\ settled' \subseteq Shield(c)
    BY <2>1 DEF Shield
  <2>4. CASE pc'[c] = "mb_apply"
    <3>1. BanStart(c)
      BY <1>1, <1>2, <2>4 DEF BanError, BanApply, BanRecord, UnbanStore, DisableAllClear,
         DisableAllFail
    <3>2. ~Overlaps(settled, arg[c]) /\ arg' = arg
      BY <1>1, <2>4, <3>1, GateShield DEF BanStart, ShieldOK
    <3>3. GuardOK(c)'
      <4> HIDE DEF Shield
      <4> QED
        BY <1>1, <2>1, <2>3, <3>2 DEF ShieldOK, GuardOK, Overlaps, Covers, Syncer, Sys
    <3> QED
      BY <2>2, <3>3 DEF ShieldOK
  <2>5. CASE pc'[c] # "mb_apply"
    BY <1>1, <2>1, <2>2, <2>3, <2>5, GuardFrame DEF ShieldOK
  <2> QED
    BY <2>4, <2>5
<1>3. CASE LiftKernel(c)
  <2>1. EntryOK(c)'
    BY <1>1, <1>3 DEF LiftKernel, ShieldOK, EntryOK
  <2>2. Shield(c)' = Shield(c) /\ settled' \subseteq Shield(c)
    BY <1>1, <1>3 DEF LiftKernel, Shield
  <2>3. /\ UNCHANGED <<want, arg>> /\ pc'[c] = "lift_store"
        /\ \A r \in Goroutine \ {c} : pc'[r] = pc[r]
    BY <1>1, <1>3 DEF LiftKernel
  <2> QED
    BY <1>1, <2>1, <2>2, <2>3, GuardFrame DEF ShieldOK
<1>4. CASE LiftStore(c)
  <2>1. EntryOK(c)'
    BY <1>1, <1>4 DEF LiftStore, ShieldOK, EntryOK
  <2>2. /\ pc[c] = "lift_store" /\ pc'[c] = "push"
        /\ \A r \in Goroutine \ {c} : pc'[r] = pc[r]
    BY <1>1, <1>4 DEF LiftStore
  <2>3. \A p \in Goroutine : pc'[p] \notin {"apply", "mb_apply", "sync_apply"}
    BY <1>1, <2>2 DEF MutexOK, Critical
  <2>4. GuardOK(c)'
    BY <1>1, <2>3 DEF GuardOK
  <2> QED
    BY <2>1, <2>4 DEF ShieldOK
<1>5. CASE AllowEnd(c)
  <2>1. /\ pc[c] = "push" /\ UNCHANGED <<allowTable, extra, want>>
        /\ settled' = settled \cup ({arg[c]} \cap allowTable)
        /\ pc'[c] = "idle"
        /\ \A r \in Goroutine \ {c} : pc'[r] = pc[r] /\ arg'[r] = arg[r]
    BY <1>1, <1>5 DEF AllowEnd, AllowPush
  <2>2. EntryOK(c)'
    BY <1>1, <2>1 DEF ShieldOK, EntryOK
  <2>3. Shield(c)' \subseteq Shield(c) /\ settled' \subseteq Shield(c)
    BY <2>1 DEF Shield
  <2> QED
    BY <1>1, <2>1, <2>2, <2>3, GuardFrame DEF ShieldOK
<1>6. ~LiftFail(c)
  BY DEF LiftFail, StoreDown
<1> QED
  BY <1>2, <1>3, <1>4, <1>5, <1>6 DEF ConnStep

\* Every request keeps the shield.
LEMMA RequestShield ==
    ASSUME BanInv, NEW c, OneOperator(c), ShieldOK(c), Request
    PROVE  ShieldOK(c)'
<1> USE BanAssumption, AllowlistAssumption DEF BanInv, TypeInv, TypeOK, OneOperator,
        Return, Finish, Goto, Acquire, Release, Holds, allowVars,
        procVars, localVars, syncVars, envVars, banVars
<1>1. c \in Conn /\ c \in Goroutine /\ c \notin Worker
      /\ c # "retry" /\ c # "boot" /\ c # "expireAllows"
      /\ {"retry", "boot", "expireAllows"} \subseteq Goroutine
      /\ "boot" \notin Worker /\ "expireAllows" \notin Worker /\ "retry" \notin Worker
      /\ Syncer \subseteq Goroutine /\ Worker \subseteq Goroutine /\ Worker \cap Syncer = {}
  BY DEF Syncer, Sys
<1>2. CASE \E w \in Worker, a \in Address : Detect(w, a)
  <2>1. PICK w \in Worker : \E a \in Address : Detect(w, a)
    BY <1>2
  <2>2. /\ UNCHANGED <<allowTable, extra, settled, want, op, snap>> /\ pc'[w] = "decide"
        /\ \A r \in Goroutine \ {w} : pc'[r] = pc[r] /\ arg'[r] = arg[r]
    BY <1>1, <2>1 DEF Detect
  <2>3. EntryOK(c)'
    BY <1>1, <2>2, EntryFrame DEF ShieldOK
  <2>4. Shield(c)' = Shield(c) /\ settled' \subseteq Shield(c)
    BY <1>1, <2>2 DEF Shield
  <2> QED
    BY <1>1, <2>2, <2>3, <2>4, GuardFrame DEF ShieldOK
<1>3. CASE \/ \E t \in BanTarget, v \in Real : BanRequest(c, t, v)
           \/ \E t \in BanTarget : UnbanKernel(c, t)
           \/ DisableAll(c)
  <2>1. /\ UNCHANGED <<allowTable, extra, settled, want>>
        /\ pc[c] = "idle" /\ pc'[c] \in {"mb_lock", "ub_store", "da_clear"}
        /\ \A r \in Goroutine \ {c} : pc'[r] = pc[r] /\ arg'[r] = arg[r]
    BY <1>1, <1>3 DEF BanRequest, UnbanKernel, DisableAll
  <2>2. EntryOK(c)'
    BY <1>1, <2>1, EntryElsewhere DEF ShieldOK
  <2>3. Shield(c)' = Shield(c) /\ settled' \subseteq Shield(c)
    BY <2>1 DEF Shield
  <2> QED
    BY <1>1, <2>1, <2>2, <2>3, GuardFrame DEF ShieldOK
<1>4. CASE \E v \in BOOLEAN : SetArmed(c, v)
  <2>1. UNCHANGED <<allowVars, procVars, want, settled>>
    BY <1>4 DEF SetArmed
  <2> QED
    BY <2>1 DEF ShieldOK, EntryOK, GuardOK, Shield, Overlaps, Covers
<1>5. CASE AllowBegin
  <2>1. PICK x \in AllowTarget :
           \/ AllowRequest(c, x) /\ UNCHANGED settled
           \/ UnallowRequest(c, x) /\ settled' = settled \ {x}
    BY <1>5 DEF AllowBegin, ExpireAllows
  <2>2. /\ pc[c] = "idle" /\ pc'[c] = "reload_list" /\ extra' = extra
        /\ \A r \in Goroutine \ {c} : pc'[r] = pc[r] /\ arg'[r] = arg[r]
    BY <1>1, <2>1 DEF AllowRequest, UnallowRequest
  <2>3. EntryOK(c)'
    <3>1. CASE AllowRequest(c, x) /\ UNCHANGED settled
      BY <1>1, <2>2, <3>1 DEF AllowRequest, ShieldOK, EntryOK
    <3>2. CASE UnallowRequest(c, x) /\ settled' = settled \ {x}
      BY <1>1, <2>2, <3>2 DEF UnallowRequest, ShieldOK, EntryOK
    <3> QED
      BY <2>1, <3>1, <3>2
  <2>4. settled' \subseteq settled /\ want' = want
    BY <1>5, <2>1 DEF AllowBegin
  <2>5. Shield(c)' \subseteq Shield(c) /\ settled' \subseteq Shield(c)
    BY <2>2, <2>4 DEF Shield
  <2> QED
    BY <1>1, <2>2, <2>3, <2>4, <2>5, GuardFrame DEF ShieldOK
<1> QED
  BY <1>2, <1>3, <1>4, <1>5 DEF Request

\* Every step of the environment and of the expiry sweep keeps the shield.
LEMMA EnvShield ==
    ASSUME BanInv, NEW c, OneOperator(c), ShieldOK(c), Environment \/ ExpireBans
    PROVE  ShieldOK(c)'
<1> USE BanAssumption, AllowlistAssumption DEF BanInv, TypeInv, TypeOK, OneOperator,
        Goto, allowVars, procVars, localVars, syncVars, envVars, banVars
<1>1. CASE Environment
  <2>1. UNCHANGED <<allowVars, procVars, want, settled>>
    BY <1>1 DEF Environment, RowExpires, PeersChange, ElementExpires, LocalFlush, Crash,
       Restart, Quiesce
  <2> QED
    BY <2>1 DEF ShieldOK, EntryOK, GuardOK, Shield, Overlaps, Covers
<1>2. CASE ExpireBans
  <2>1. /\ UNCHANGED <<allowVars, localVars, want, settled>>
        /\ pc' = [pc EXCEPT !["expireBans"] = "sync"]
    BY <1>2 DEF ExpireBans
  <2>2. c \in Goroutine /\ c \in Conn /\ c # "expireBans" /\ "expireBans" \notin Worker
        /\ Sys \subseteq Goroutine
        /\ Syncer \subseteq Goroutine /\ Worker \subseteq Goroutine
    BY DEF Syncer, Sys
  <2>3. EntryOK(c)'
    BY <2>1, <2>2, EntryFrame DEF ShieldOK, Sys
  <2>4. Shield(c)' = Shield(c) /\ settled' \subseteq Shield(c)
    BY <2>1, <2>2 DEF Shield
  <2> QED
    BY <2>1, <2>2, <2>3, <2>4, GuardFrame DEF ShieldOK, Sys
<1> QED
  BY <1>1, <1>2

\* Every step of an allowlist reload keeps the shield: the only goroutine
\* that reloads is c, from a list that holds every entry that stands.
LEMMA AllowShield ==
    ASSUME BanInv, NEW c, OneOperator(c), ShieldOK(c), NEW p \in AllowProc, AllowMiddle(p)
    PROVE  ShieldOK(c)'
<1> USE BanAssumption, AllowlistAssumption DEF BanInv, TypeInv, TypeOK, OneOperator,
        Finish, Goto, allowVars, procVars, localVars, syncVars, envVars, banVars
<1>1. p = c
  <2>1. pc[p] # "idle"
    BY DEF AllowMiddle, ReloadList, ReloadMem, ReloadGate, ReloadFail, ResyncRead, ResyncList,
       ResyncPush
  <2> QED
    BY <2>1 DEF ShieldOK, EntryOK, AllowProc
<1>2. c \in Conn /\ c \in Goroutine /\ c \notin Worker
      /\ c # "retry" /\ c # "boot" /\ c # "expireAllows"
      /\ {"retry", "boot", "expireAllows"} \subseteq Goroutine
      /\ Syncer \subseteq Goroutine /\ Worker \subseteq Goroutine
  BY DEF Syncer, Sys
<1>3. /\ UNCHANGED <<allowTable, want, settled>>
      /\ pc[c] \in AllowLabel \ {"push", "idle", "lift"} /\ pc'[c] \in AllowLabel \ {"push"}
      /\ \A r \in Goroutine \ {c} : pc'[r] = pc[r] /\ arg'[r] = arg[r]
  <2>1. CASE ReloadList(c) \/ ReloadMem(c) \/ ReloadGate(c) \/ ReloadFail(c)
    BY <1>1, <1>2, <2>1 DEF AllowMiddle, ReloadList, ReloadMem, ReloadGate, ReloadFail, AfterReload,
       AllowLabel
  <2>2. CASE ResyncRead(c) \/ ResyncList(c) \/ ResyncPush(c)
    BY <1>1, <1>2, <2>2 DEF AllowMiddle, ResyncRead, ResyncList, ResyncPush, AllowLabel
  <2> QED
    BY <1>1, <2>1, <2>2 DEF AllowMiddle
<1>4. EntryOK(c)'
  <2>1. CASE ReloadList(c)
    BY <1>2, <1>3, <2>1 DEF ReloadList, ShieldOK, EntryOK
  <2>2. CASE ReloadMem(c)
    BY <1>2, <1>3, <2>2 DEF ReloadMem, ShieldOK, EntryOK
  <2>3. CASE ReloadGate(c)
    BY <1>2, <1>3, <2>3 DEF ReloadGate, AfterReload, ShieldOK, EntryOK
  <2>4. ~ReloadFail(c)
    BY DEF ReloadFail
  <2>5. CASE ResyncRead(c) \/ ResyncList(c) \/ ResyncPush(c)
    BY <1>2, <1>3, <2>5, EntryElsewhere DEF ResyncRead, ResyncList, ResyncPush, ShieldOK
  <2> QED
    BY <1>1, <2>1, <2>2, <2>3, <2>4, <2>5 DEF AllowMiddle
<1>5. Shield(c)' = Shield(c) /\ settled' \subseteq Shield(c)
  BY <1>2, <1>3 DEF Shield, AllowLabel
<1> QED
  BY <1>2, <1>3, <1>4, <1>5, GuardFrame DEF ShieldOK, AllowLabel

\* The helper's add verb blocks nothing but what its target covers.
LEMMA AddBlocks ==
    ASSUME NEW t, NEW v, NEW a, a \notin t,
           kernel \in [Prefix -> Real \cup {"none"}], kernel' = KernelAdd(t, v),
           Blocked(kernel', a)
    PROVE  Blocked(kernel, a)
<1>1. PICK u \in Prefix : a \in u /\ kernel'[u] # "none"
  BY DEF Blocked
<1>2. kernel[u] # "none"
  BY <1>1 DEF KernelAdd
<1> QED
  BY <1>1, <1>2 DEF Blocked

\* No step blocks an address that a standing entry covers.
LEMMA ReapplyStep ==
    ASSUME BanInv, NEW c, OneOperator(c), ShieldOK(c), Next, NEW a \in Address,
           Covers(settled, a), Blocked(kernel', a)
    PROVE  Blocked(kernel, a)
<1> USE BanAssumption, AllowlistAssumption DEF BanInv, TypeInv, TypeOK
<1>0. PICK u \in Prefix : a \in u /\ kernel'[u] # "none"
  BY DEF Blocked
<1>1. SUFFICES ASSUME kernel[u] = "none" PROVE Blocked(kernel, a)
  BY <1>0 DEF Blocked
<1>2. ASSUME NEW p \in Worker \cup {"retry"}, ApplyBan(p) PROVE Blocked(kernel, a)
  <2>1. ~Overlaps(Shield(c), arg[p]) /\ kernel' = KernelAdd(arg[p], dec[p])
    BY <1>2 DEF ApplyBan, ShieldOK, GuardOK
  <2>2. a \notin arg[p]
    BY <2>1, ShieldKnown DEF Overlaps, Covers, ShieldOK
  <2> QED
    BY <2>1, <2>2, AddBlocks
<1>3. CASE \E w \in Worker : WorkerStep(w)
  <2>1. PICK w \in Worker : ApplyBan(w)
    BY <1>0, <1>1, <1>3 DEF WorkerStep, DecideNoStrike, DecideGuard, DecideCommit, DecideFail,
       DispatchStart, DispatchRefused, ApplyFail, banVars
  <2> QED
    BY <1>2, <2>1
<1>4. CASE RetryStep
  <2>1. ApplyBan("retry")
    BY <1>0, <1>1, <1>4 DEF RetryStep, RetryStart, RetryRefused, ApplyFail
  <2> QED
    BY <1>2, <2>1
<1>5. CASE \E p \in Syncer : SyncStep(p)
  <2>1. PICK p \in Syncer : SyncApply(p) \/ SyncFail(p)
    BY <1>0, <1>1, <1>5 DEF SyncStep, SyncSnapshot, SyncGate, SyncAbort, banVars
  <2>2. Synced[u] # "none"
    BY <1>0, <1>1, <2>1 DEF SyncApply, SyncFail
  <2>3. PICK b \in Address : u = {b} /\ want[b] # "none"
    BY <2>2 DEF Synced
  <2>4. ~Covers(Shield(c), b) /\ a = b
    BY <1>0, <2>1, <2>3 DEF SyncApply, SyncFail, ShieldOK, GuardOK
  <2> QED
    BY <2>4, ShieldKnown DEF Covers, ShieldOK
<1>6. CASE \E d \in Conn : ConnStep(d)
  <2>1. ConnStep(c)
    BY <1>6 DEF OneOperator
  <2>2. BanApply(c) \/ kernel' = kernel \/ LiftKernel(c)
    BY <2>1 DEF ConnStep, BanStart, BanError, BanRecord, UnbanStore, LiftFail, LiftStore,
       DisableAllClear, DisableAllFail, AllowEnd, banVars
  <2>3. BanApply(c)
    BY <1>0, <1>1, <2>2 DEF LiftKernel
  <2>4. a \notin arg[c] /\ kernel' = KernelAdd(arg[c], dec[c])
    BY <2>3 DEF BanApply, ShieldOK, GuardOK, Overlaps, Covers
  <2> QED
    BY <2>4, AddBlocks
<1>7. CASE Request
  <2>1. kernel' = kernel \/ \E d \in Conn, t \in BanTarget : UnbanKernel(d, t)
    BY <1>7 DEF Request, Detect, BanRequest, SetArmed, DisableAll, AllowBegin, banVars
  <2> QED
    BY <1>0, <1>1, <2>1 DEF UnbanKernel
<1>8. CASE Environment \/ ExpireBans
  BY <1>0, <1>1, <1>8 DEF Environment, ExpireBans, RowExpires, PeersChange, ElementExpires,
     LocalFlush, Crash, Quiesce, NoElement
<1>9. CASE \E p \in AllowProc : AllowMiddle(p)
  BY <1>0, <1>1, <1>9 DEF AllowMiddle, banVars
<1> QED
  BY <1>3, <1>4, <1>5, <1>6, <1>7, <1>8, <1>9 DEF Next

\* docs/security/overview.md, for one operator command at a time and any
\* number of deciding goroutines, addresses and prefixes, whatever the SSH
\* peers, the TTLs and the enforcer do: once `allow` has replied, no ban of a
\* covered address reaches the kernel, from a decision in flight, a deferred
\* retry, a reconcile or a manual ban.
THEOREM AllowedStaysUnblocked ==
    ASSUME NEW c, OneOperator(c) PROVE Spec => AllowNeverReapplied
<1>1. Init => ShieldOK(c)
  <2>1. c \in Goroutine /\ {"boot", "expireAllows", "retry"} \subseteq Goroutine
        /\ Worker \subseteq Goroutine /\ Syncer \subseteq Goroutine
    BY BanAssumption, AllowlistAssumption DEF OneOperator, Syncer, Sys
  <2> QED
    BY <2>1 DEF Init, AllowInit, ShieldOK, EntryOK, GuardOK
<1>2. ASSUME BanInv, ShieldOK(c), [Next]_vars PROVE ShieldOK(c)'
  <2>1. CASE UNCHANGED vars
    BY <1>2, <2>1 DEF vars, allowVars, procVars, localVars, banVars, syncVars, envVars, ShieldOK,
       EntryOK, GuardOK, Shield, Overlaps, Covers
  <2>2. CASE Next
    <3>1. \A d \in Conn : d = c
      BY DEF OneOperator
    <3> QED
      BY <1>2, <2>2, <3>1, WorkerShield, RetryShield, SyncShield, ConnShield, RequestShield,
         EnvShield, AllowShield DEF Next
  <2> QED
    BY <1>2, <2>1, <2>2
<1>3. ASSUME BanInv, ShieldOK(c), [Next]_vars
      PROVE  [\A a \in Address : Covers(settled, a) /\ Blocked(kernel', a)
                => Blocked(kernel, a)]_vars
  BY <1>3, ReapplyStep
<1> QED
  BY <1>1, <1>2, <1>3, BanInvariance, PTL DEF Spec, AllowNeverReapplied
=============================================================================

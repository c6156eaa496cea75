-------------------------- MODULE Allowlist_proofs --------------------------
(***************************************************************************)
(* Proofs about the runtime allowlist, for any number of connections and   *)
(* any prefixes: AllowTypeOK and StaticAlwaysAccepted hold in every state  *)
(* of AllowSpec. The invariant that carries them also says what the        *)
(* goroutines hold in their hands between two steps: a re-sync has the     *)
(* static entries in its desired list, and a goroutine about to push an    *)
(* entry is serving an `allow` of a prefix. Below: when the four copies    *)
(* agree (AllowRepair).                                                    *)
(***************************************************************************)
EXTENDS AllowRepair, TLAPS

\* syncEnforcerAllowlist and handleAllow: what a goroutine has read and is
\* about to write.
HandsOK ==
    \A p \in Goroutine :
        /\ pc[p] \in {"resync_list", "resync_push"} => StaticAllow \subseteq snap[p]
        /\ pc[p] \in {"lift", "push"} => op[p] = "allow"
        /\ op[p] = "allow" => arg[p] \in Prefix

\* The inductive invariant.
AllowInv == AllowTypeOK /\ HandsOK /\ StaticAlwaysAccepted

\* AllowInit: the state the daemon starts in satisfies the invariant.
LEMMA AllowInitInv == AllowInit => AllowInv
BY AllowlistAssumption DEF AllowInit, AllowInv, AllowTypeOK, AllowLabel, HandsOK,
   StaticAlwaysAccepted

\* Every step of reloadAllowlist keeps the invariant.
LEMMA ReloadInv ==
    ASSUME AllowInv, NEW p \in Goroutine,
           ReloadList(p) \/ ReloadMem(p) \/ ReloadGate(p) \/ ReloadFail(p)
    PROVE  AllowInv'
<1> USE DEF AllowInv, AllowTypeOK, AllowLabel, HandsOK, StaticAlwaysAccepted,
        Goto, allowVars, localVars
<1>1. CASE ReloadList(p)
  BY <1>1 DEF ReloadList
<1>2. CASE ReloadMem(p)
  BY <1>2 DEF ReloadMem
<1>3. CASE ReloadGate(p)
  BY <1>3 DEF ReloadGate, AfterReload
<1>4. CASE ReloadFail(p)
  BY <1>4 DEF ReloadFail, AfterReload
<1> QED
  BY <1>1, <1>2, <1>3, <1>4

\* Every step of syncEnforcerAllowlist keeps the invariant: the removals are
\* entries the desired list lacks, so no static one is among them.
LEMMA ResyncInv ==
    ASSUME AllowInv, NEW p \in Goroutine,
           ResyncRead(p) \/ ResyncList(p) \/ ResyncPush(p)
    PROVE  AllowInv'
<1>1. CASE ResyncRead(p)
  BY <1>1, AllowlistAssumption DEF AllowInv, AllowTypeOK, AllowLabel, HandsOK,
     StaticAlwaysAccepted, ResyncRead, Goto, allowVars
<1>2. CASE ResyncList(p)
  BY <1>2 DEF AllowInv, AllowTypeOK, AllowLabel, HandsOK,
     StaticAlwaysAccepted, ResyncList, Goto, allowVars
<1>3. CASE ResyncPush(p)
  <2>1. PICK A \in SUBSET (snap[p] \ listed[p]), D \in SUBSET (listed[p] \ snap[p]) :
           allowedSet' = (allowedSet \cup A) \ D
    BY <1>3 DEF ResyncPush
  <2>2. StaticAllow \subseteq snap[p] /\ snap[p] \subseteq Prefix
    BY <1>3 DEF ResyncPush, AllowInv, AllowTypeOK, HandsOK
  <2>3. allowedSet' \subseteq Prefix /\ StaticAllow \subseteq allowedSet'
    BY <2>1, <2>2 DEF AllowInv, AllowTypeOK, StaticAlwaysAccepted
  <2> QED
    BY <1>3, <2>3 DEF ResyncPush, AllowInv, AllowTypeOK, AllowLabel, HandsOK,
       StaticAlwaysAccepted, Finish, Goto
<1> QED
  BY <1>1, <1>2, <1>3

\* The verbs, the sweep and a restart keep the invariant.
LEMMA VerbInv ==
    ASSUME AllowInv,
           \/ \E c \in Conn : AllowPush(c) \/ PassLift(c)
           \/ \E c \in Conn, x \in AllowTarget : AllowRequest(c, x) \/ UnallowRequest(c, x)
           \/ \E S \in SUBSET AllowTarget : ExpireAllows(S)
           \/ Restart("reload_list")
    PROVE  AllowInv'
<1> USE AllowlistAssumption DEF AllowInv, AllowTypeOK, AllowLabel, HandsOK,
        StaticAlwaysAccepted, Goto
<1>1. CASE \E c \in Conn : AllowPush(c)
  BY <1>1 DEF AllowPush, Finish
<1>2. CASE \E c \in Conn : PassLift(c)
  BY <1>2 DEF PassLift, allowVars, localVars
<1>3. CASE \E c \in Conn, x \in AllowTarget : AllowRequest(c, x)
  BY <1>3 DEF AllowRequest
<1>4. CASE \E c \in Conn, x \in AllowTarget : UnallowRequest(c, x)
  BY <1>4 DEF UnallowRequest
<1>5. CASE \E S \in SUBSET AllowTarget : ExpireAllows(S)
  BY <1>5 DEF ExpireAllows
<1>6. CASE Restart("reload_list")
  BY <1>6 DEF Restart
<1> QED
  BY <1>1, <1>2, <1>3, <1>4, <1>5, <1>6

\* No step of the daemon breaks the invariant.
LEMMA AllowNextInv == ASSUME AllowInv, [AllowNext]_aVars PROVE AllowInv'
<1>1. CASE \E p \in AllowProc : \/ ReloadList(p) \/ ReloadMem(p)
                                \/ ReloadGate(p) \/ ReloadFail(p)
  BY <1>1, ReloadInv, AllowlistAssumption DEF AllowProc
<1>2. CASE \E p \in AllowProc : ResyncRead(p) \/ ResyncList(p) \/ ResyncPush(p)
  BY <1>2, ResyncInv, AllowlistAssumption DEF AllowProc
<1>3. CASE \/ \E c \in Conn : AllowPush(c) \/ PassLift(c)
           \/ \E c \in Conn, x \in AllowTarget :
                 AllowRequest(c, x) \/ UnallowRequest(c, x)
           \/ \E S \in SUBSET AllowTarget : ExpireAllows(S)
           \/ Restart("reload_list")
  BY <1>3, VerbInv
<1>4. CASE UNCHANGED aVars
  BY <1>4 DEF aVars, allowVars, procVars, localVars, AllowInv, AllowTypeOK,
     HandsOK, StaticAlwaysAccepted
<1> QED
  BY <1>1, <1>2, <1>3, <1>4 DEF AllowNext, AllowStep

\* The invariant holds in every state, whatever the interleaving.
THEOREM AllowInvariance == AllowSpec => []AllowInv
BY AllowInitInv, AllowNextInv, PTL DEF AllowSpec

\* Every copy of the allowlist holds prefixes and every goroutine is at a
\* step of an operation.
THEOREM AllowTypeCorrect == AllowSpec => []AllowTypeOK
BY AllowInvariance, PTL DEF AllowInv

\* Hard Rule 1: the kernel's @allowed set holds the policy's own entries in
\* every state, for every number of connections, every set of prefixes and
\* whatever fails or restarts in between.
THEOREM StaticSupremacy == AllowSpec => []StaticAlwaysAccepted
BY AllowInvariance, PTL DEF AllowInv

-----------------------------------------------------------------------------
(* When the copies agree. CopiesAgree only speaks of quiet states. In      *)
(* between, a behaviour without overlap has one goroutine at work, and     *)
(* Trail says what its operation has brought up to date so far: an allow   *)
(* leaves the kernel one entry short, the others start from nothing and    *)
(* owe nothing to the state they found.                                    *)

\* What an operation has made agree by the time it is at a step.
Trail(p) ==
    /\ pc[p] = "reload_mem" => snap[p] = allowTable
    /\ pc[p] = "reload_gate" => snap[p] = allowTable /\ runtimeAllowlist = allowTable
    /\ pc[p] \in {"resync_read", "resync_list", "resync_push", "lift", "push"} =>
          runtimeAllowlist = allowTable /\ extra = allowTable
    /\ pc[p] \in {"resync_list", "resync_push"} => snap[p] = StaticAllow \cup allowTable
    /\ pc[p] = "resync_push" => listed[p] = allowedSet
    /\ pc[p] # "idle" /\ op[p] = "allow" => allowedSet \cup {arg[p]} = StaticAllow \cup allowTable

\* At most one goroutine is at work.
OneAtWork == \A p, q \in AllowProc : pc[p] # "idle" /\ pc[q] # "idle" => p = q

\* An allow never enters the re-sync and nothing else pushes an entry.
Lanes == \A p \in AllowProc :
    /\ pc[p] \in {"resync_read", "resync_list", "resync_push"} => op[p] # "allow"
    /\ pc[p] # "idle" /\ p \notin Conn => op[p] # "allow"

\* With one goroutine at work the quiet states and the trails decide everything.
Agreed == OneAtWork /\ ViewNeverLags /\ KernelMirrorExact /\ \A p \in AllowProc : Trail(p)

\* The inductive invariant.
RepairInv == AllowInv /\ Lanes /\ raced \in BOOLEAN /\ (~raced => Agreed)

\* The history variable adds nothing to what the daemon does.
LEMMA RepairIsAllow == RepairNext => AllowNext
BY DEF RepairNext, AllowNext

\* Run's first state.
LEMMA RepairInitInv == RepairInit => RepairInv
BY AllowInitInv, AllowlistAssumption DEF RepairInit, AllowInit, RepairInv, Lanes, Agreed, OneAtWork,
   ViewNeverLags, KernelMirrorExact, AllowQuiet, AllowProc, Trail

\* The part of the invariant that needs no history.
LEMMA LanesKept == ASSUME AllowInv, Lanes, [AllowNext]_aVars PROVE Lanes'
<1> USE AllowlistAssumption DEF AllowInv, AllowTypeOK, AllowLabel, HandsOK, Lanes, AllowProc, Goto
<1>1. CASE \E p \in AllowProc : ReloadList(p)
  BY <1>1 DEF ReloadList
<1>2. CASE \E p \in AllowProc : ReloadMem(p)
  BY <1>2 DEF ReloadMem, localVars
<1>3. CASE \E p \in AllowProc : ReloadGate(p)
  BY <1>3 DEF ReloadGate, AfterReload, localVars
<1>4. CASE \E p \in AllowProc : ReloadFail(p)
  BY <1>4 DEF ReloadFail, AfterReload, localVars
<1>5. CASE \E p \in AllowProc : ResyncRead(p)
  BY <1>5 DEF ResyncRead
<1>6. CASE \E p \in AllowProc : ResyncList(p)
  BY <1>6 DEF ResyncList
<1>7. CASE \E p \in AllowProc : ResyncPush(p)
  BY <1>7 DEF ResyncPush, Finish
<1>8. CASE \E c \in Conn : AllowPush(c)
  BY <1>8 DEF AllowPush, Finish
<1>9. CASE \E c \in Conn : PassLift(c)
  BY <1>9 DEF PassLift, localVars
<1>10. CASE \E c \in Conn, x \in AllowTarget : AllowRequest(c, x)
  BY <1>10 DEF AllowRequest
<1>11. CASE \E c \in Conn, x \in AllowTarget : UnallowRequest(c, x)
  BY <1>11 DEF UnallowRequest
<1>12. CASE \E S \in SUBSET AllowTarget : ExpireAllows(S)
  BY <1>12 DEF ExpireAllows
<1>13. CASE Restart("reload_list")
  BY <1>13 DEF Restart
<1>14. CASE UNCHANGED aVars
  BY <1>14 DEF aVars, procVars, localVars
<1> QED
  BY <1>1, <1>2, <1>3, <1>4, <1>5, <1>6, <1>7, <1>8, <1>9, <1>10, <1>11, <1>12, <1>13, <1>14
     DEF AllowNext, AllowStep

\* A step of reloadAllowlist by the only goroutine at work.
LEMMA ReloadAgrees ==
    ASSUME AllowInv, Lanes, Agreed, NEW p \in AllowProc,
           ReloadList(p) \/ ReloadMem(p) \/ ReloadGate(p)
    PROVE  Agreed'
<1> USE AllowlistAssumption DEF AllowInv, AllowTypeOK, AllowLabel, Agreed, OneAtWork,
        ViewNeverLags, KernelMirrorExact, AllowQuiet, AllowProc, Goto, Trail
<1>1. CASE ReloadList(p)
  BY <1>1 DEF ReloadList, allowVars
<1>2. CASE ReloadMem(p)
  BY <1>2 DEF ReloadMem, localVars
<1>3. CASE ReloadGate(p)
  BY <1>3 DEF ReloadGate, AfterReload, localVars
<1> QED
  BY <1>1, <1>2, <1>3

\* A step of syncEnforcerAllowlist by the only goroutine at work; with no RPC
\* failing, the kernel ends up with exactly the desired list.
LEMMA ResyncAgrees ==
    ASSUME AllowInv, Lanes, Agreed, ~CallFailed, NEW p \in AllowProc,
           ResyncRead(p) \/ ResyncList(p) \/ ResyncPush(p)
    PROVE  Agreed'
<1> USE AllowlistAssumption DEF AllowInv, AllowTypeOK, AllowLabel, Agreed, OneAtWork,
        ViewNeverLags, KernelMirrorExact, AllowQuiet, AllowProc, Goto, Trail, Lanes
<1>1. CASE ResyncRead(p)
  BY <1>1 DEF ResyncRead, allowVars
<1>2. CASE ResyncList(p)
  BY <1>2 DEF ResyncList, allowVars
<1>3. CASE ResyncPush(p)
  <2>1. pc[p] = "resync_push"
    BY <1>3 DEF ResyncPush
  <2>2. allowedSet' = (allowedSet \cup snap[p]) \ (listed[p] \ snap[p])
    BY <1>3 DEF CallFailed
  <2>3. listed[p] = allowedSet /\ snap[p] = StaticAllow \cup allowTable
    BY <2>1
  <2>4. allowedSet' = StaticAllow \cup allowTable
    BY <2>2, <2>3
  <2>5. runtimeAllowlist = allowTable /\ extra = allowTable
    BY <2>1
  <2>6. \A q \in AllowProc : pc'[q] = "idle"
    BY <1>3, <2>1 DEF ResyncPush, Finish
  <2> QED
    BY <1>3, <2>4, <2>5, <2>6 DEF ResyncPush
<1> QED
  BY <1>1, <1>2, <1>3

\* The end of handleAllow by the only goroutine at work.
LEMMA PushAgrees ==
    ASSUME AllowInv, Agreed, ~CallFailed, NEW c \in Conn, AllowPush(c)
    PROVE  Agreed'
<1> USE AllowlistAssumption DEF AllowInv, AllowTypeOK, AllowLabel, HandsOK, Agreed, OneAtWork,
        ViewNeverLags, KernelMirrorExact, AllowQuiet, AllowProc, Goto, Trail
<1>1. pc[c] = "push" /\ op[c] = "allow"
  BY DEF AllowPush
<1>2. allowedSet' = allowedSet \cup {arg[c]}
  BY DEF AllowPush, CallFailed
<1>3. allowedSet' = StaticAllow \cup allowTable
  BY <1>1, <1>2
<1>4. \A q \in AllowProc : pc'[q] = "idle"
  BY <1>1 DEF AllowPush, Finish
<1> QED
  BY <1>1, <1>3, <1>4 DEF AllowPush

\* liftBansCoveredBy, called by the only goroutine at work, leaves the copies alone.
LEMMA LiftAgrees == ASSUME AllowInv, Agreed, NEW c \in Conn, PassLift(c) PROVE Agreed'
BY AllowlistAssumption DEF AllowInv, AllowTypeOK, AllowLabel, HandsOK, Agreed, OneAtWork,
   ViewNeverLags, KernelMirrorExact, AllowQuiet, AllowProc, Goto, Trail, PassLift, allowVars, localVars

\* A request or a sweep that begins alone, and a restart. Only the allow builds
\* on what it finds.
LEMMA BeginAgrees ==
    ASSUME AllowInv,
           \/ Agreed /\ AllowQuiet /\ \E c \in Conn, x \in AllowTarget : AllowRequest(c, x)
           \/ AllowQuiet /\ \E c \in Conn, x \in AllowTarget : UnallowRequest(c, x)
           \/ AllowQuiet /\ \E S \in SUBSET AllowTarget : ExpireAllows(S)
           \/ Restart("reload_list")
    PROVE  Agreed'
<1> USE AllowlistAssumption DEF AllowInv, AllowTypeOK, AllowLabel, Agreed, OneAtWork,
        ViewNeverLags, KernelMirrorExact, AllowQuiet, AllowProc, Goto, Trail
<1>1. ASSUME Agreed, AllowQuiet, NEW c \in Conn, NEW x \in AllowTarget, AllowRequest(c, x) PROVE Agreed'
  BY <1>1 DEF AllowRequest
<1>2. ASSUME AllowQuiet, NEW c \in Conn, NEW x \in AllowTarget, UnallowRequest(c, x) PROVE Agreed'
  BY <1>2 DEF UnallowRequest
<1>3. ASSUME AllowQuiet, NEW S \in SUBSET AllowTarget, ExpireAllows(S) PROVE Agreed'
  BY <1>3 DEF ExpireAllows
<1>4. CASE Restart("reload_list")
  <2>1. ASSUME NEW p \in AllowProc, pc'[p] # "idle"
        PROVE  p = "boot" /\ pc'[p] = "reload_list" /\ op'[p] = "none"
    BY <1>4, <2>1 DEF Restart
  <2>2. pc'["boot"] = "reload_list"
    BY <1>4 DEF Restart
  <2> HIDE AllowlistAssumption DEF AllowInv, AllowTypeOK, AllowLabel, Goto
  <2>3. OneAtWork'
    <3> SUFFICES ASSUME NEW p \in AllowProc, NEW q \in AllowProc, pc'[p] # "idle", pc'[q] # "idle"
                 PROVE  p = q
      OBVIOUS
    <3> QED
      BY <2>1
  <2>4. ~AllowQuiet'
    BY <2>2
  <2>5. ASSUME NEW p \in AllowProc PROVE Trail(p)'
    <3>1. CASE pc'[p] = "idle"
      BY <3>1
    <3>2. CASE pc'[p] # "idle"
      BY <2>1, <3>2
    <3> QED
      BY <3>1, <3>2
  <2> QED
    BY <2>3, <2>4, <2>5
<1> QED
  BY <1>1, <1>2, <1>3, <1>4

\* No step of the daemon breaks the invariant.
LEMMA RepairNextInv == ASSUME RepairInv, [RepairNext]_arVars PROVE RepairInv'
<1>1. AllowInv /\ Lanes /\ raced \in BOOLEAN /\ (~raced => Agreed)
  BY DEF RepairInv
<1>2. [AllowNext]_aVars
  BY RepairIsAllow DEF arVars
<1>3. AllowInv' /\ Lanes'
  BY <1>1, <1>2, AllowNextInv, LanesKept
<1>4. raced' \in BOOLEAN
  BY <1>1 DEF RepairNext, arVars
<1>5. ASSUME ~raced' PROVE Agreed'
  <2>1. CASE AllowStep /\ raced' = (raced \/ CallFailed)
    <3>1. ~raced /\ ~CallFailed /\ Agreed
      BY <1>1, <1>5, <2>1
    <3>2. ~ \E p \in AllowProc : ReloadFail(p)
      BY <3>1 DEF CallFailed
    <3> QED
      BY <1>1, <2>1, <3>1, <3>2, ReloadAgrees, ResyncAgrees, PushAgrees DEF AllowStep
  <2>2. CASE \E c \in Conn : PassLift(c) /\ UNCHANGED raced
    BY <1>1, <1>5, <2>2, LiftAgrees
  <2>3. CASE \E c \in Conn, x \in AllowTarget : AllowRequest(c, x) /\ raced' = (raced \/ ~AllowQuiet)
    BY <1>1, <1>5, <2>3, BeginAgrees
  <2>4. CASE \E c \in Conn, x \in AllowTarget : UnallowRequest(c, x) /\ raced' = ~AllowQuiet
    BY <1>1, <1>5, <2>4, BeginAgrees
  <2>5. CASE \E S \in SUBSET AllowTarget : ExpireAllows(S) /\ raced' = ~AllowQuiet
    BY <1>1, <1>5, <2>5, BeginAgrees
  <2>6. CASE Restart("reload_list") /\ raced' = FALSE
    BY <1>1, <2>6, BeginAgrees
  <2>7. CASE UNCHANGED arVars
    BY <1>1, <1>5, <2>7 DEF arVars, aVars, allowVars, procVars, localVars, Agreed, OneAtWork,
       ViewNeverLags, KernelMirrorExact, AllowQuiet, Trail
  <2> QED
    BY <2>1, <2>2, <2>3, <2>4, <2>5, <2>6, <2>7 DEF RepairNext
<1> QED
  BY <1>3, <1>4, <1>5 DEF RepairInv

\* In every state the goroutines' trails and the history variable account for
\* what the four copies hold.
THEOREM RepairInvariant == RepairSpec => []RepairInv
BY RepairInitInv, RepairNextInv, PTL DEF RepairSpec

\* reloadAllowlist's promise that the view "never lags behind the persisted
\* state", as far as the code keeps it, for any number of connections and any
\* prefixes: without overlap and failure the copies agree, and after either of
\* them the next re-syncing operation that runs alone makes them agree again.
THEOREM CopiesRepaired == RepairSpec => []CopiesAgree
BY RepairInvariant, PTL DEF RepairInv, Agreed, CopiesAgree
=============================================================================

-------------------------- MODULE EdgeLists_proofs --------------------------
(***************************************************************************)
(* Proofs about the edge enforcers and the wizard that sets them up.       *)
(*                                                                         *)
(* The list enforcer, for any addresses, static allowlist, batch size and  *)
(* number of changes and faults:                                           *)
(*   - between two holders of pushMu the mirror is exact (LsInv);          *)
(*   - the enforcer implements EdgeShare, the contract of the shared list. *)
(*                                                                         *)
(* Neither is inductive. A push or a removal works through its rows batch  *)
(* by batch and updates the mirror after the last one, so the invariant    *)
(* says what the edge holds in between (LsSoFar): the mirror plus the rows *)
(* already added, or minus the rows already deleted. It also needs that    *)
(* the rows of a push are never protected ones (LsRowsOK), that an item of *)
(* somebody else is never one of ours (LsTheirsOK), and that a list that   *)
(* does not exist holds nothing (LsListOK).                                *)
(*                                                                         *)
(* The zone enforcer, for any addresses, zones, rule size and number of    *)
(* changes and faults: a zone at rest after a successful push holds exactly*)
(* the wanted blocklist (EzInv). Inductive is EzIndInv: a zone is at rest, *)
(* and the IDs mirror its rules (EzRestOK), or one push is under way, and  *)
(* the zone lies between the two blocklists (EzPushOK). That the           *)
(* expressions cover the set (EzChunksCover) is arithmetic on the position *)
(* of an address, by the least number that exceeds it (LeastNatural).      *)
(*                                                                         *)
(* The edge wizard (EdgeSetup), for any labels, variables and zones and    *)
(* any number of runs: the accounts of config.yaml stay apart and proven   *)
(* (CdInv). CdIndInv says of a run in progress what the merge will rely on *)
(* (CdKept): its accounts differ from one another and from the old ones    *)
(* that stay. The merge itself is a recursion over the accounts (CdFrom,   *)
(* CdMergedFrom), again by the least number where it would fail.           *)
(*                                                                         *)
(* The address sets of AWS WAF and Bunny (EdgeSets), for any addresses,    *)
(* capacity, retries, calls and faults: the caches list an address once    *)
(* and fit, and no update of the shared IPSet loses somebody else's entry  *)
(* (EsSafe). EsCachesOK says what a call under way may rely on: the room   *)
(* for its address, and that what a reconcile has filled and what it has   *)
(* left are apart. EsEdgesOK says that a lock token still good stands for  *)
(* the content that was read.                                              *)
(***************************************************************************)
EXTENDS EdgeLists, EdgeZones, EdgeSets, EdgeSetup, FiniteSetTheorems, FunctionTheorems, SequenceTheorems,
        WellFoundedInduction, TLAPS

\* What the holder of pushMu may be doing.
LsOps == [at : LsSteps, who : {"none", "debounce", "sync", "rebuild", "flush"},
          todo : SUBSET LsIPs, ask : SUBSET LsIPs, out : SUBSET LsIPs,
          refresh : BOOLEAN, again : BOOLEAN]

\* Somebody else's items are the listed ones this instance does not own.
LsTheirsOK == lsTheirs = LsPresent \ LsOwned

\* Items need a list, and an enforcer that has found the list has one.
LsListOK == (LsPresent # {} \/ lsFound) => lsList

\* The rows of the operation under way: those left to do, those answered
\* with their IDs.
LsRowsOK ==
    /\ lsOp.todo \subseteq lsOp.ask
    /\ lsOp.at \in {"add", "refresh", "retry", "del"} => lsFound
    /\ lsOp.at \in {"add", "retry"} => lsOp.ask \cap LsAllow = {}
    /\ lsOp.at \in {"discover", "retry"} => lsOp.todo = {} /\ lsOp.out = {}
    /\ lsOp.at = "discover" => ~lsOp.refresh
    /\ lsOp.at = "add" /\ ~lsOp.refresh => lsOp.out = lsOp.ask \ lsOp.todo
    /\ lsOp.at \in {"add", "refresh"} => lsOp.out \subseteq lsOp.ask
    /\ lsOp.at = "refresh" => lsOp.todo = {}

\* What this instance owns at the edge, seen from its mirror.
LsSoFar ==
    CASE lsOp.at = "del" -> lsItems \ (lsOp.ask \ lsOp.todo)
      [] lsOp.at \in {"add", "refresh"} -> lsItems \cup (lsOp.ask \ lsOp.todo)
      [] OTHER -> lsItems

LsMirrorOK == lsFound /\ ~lsStale /\ ~lsBlind => LsOwned = LsSoFar

\* The inductive invariant.
LsIndInv == LsTypeOK /\ LsTheirsOK /\ LsListOK /\ LsRowsOK /\ LsMirrorOK
-----------------------------------------------------------------------------
(* What the operators the actions share do. *)

\* Placing or clearing a tag on some addresses changes what is listed, and
\* what this instance owns, by exactly those addresses.
LEMMA LsPutIs ==
    ASSUME LsTypeOK, NEW S \in SUBSET LsIPs, NEW tag \in LsTags, LsPut(S, tag)
    PROVE  /\ lsEdge' \in [LsIPs -> LsTags]
           /\ LsOwned' = IF LsOwns(tag) THEN LsOwned \cup S ELSE LsOwned \ S
           /\ LsPresent' = IF tag = "none" THEN LsPresent \ S ELSE LsPresent \cup S
  BY LsAssumption DEF LsTypeOK, LsPut, LsOwned, LsPresent, LsTags, LsOwns

\* What is owned is listed; a step that leaves the edge alone leaves both.
LEMMA LsOwnedListed ==
    ASSUME LsTypeOK
    PROVE  /\ LsOwned \subseteq LsPresent /\ LsPresent \subseteq LsIPs
           /\ lsEdge' = lsEdge => LsOwned' = LsOwned /\ LsPresent' = LsPresent
           /\ LsOwns("own") /\ ~LsOwns("none") /\ ~LsOwns("other")
  BY LsAssumption DEF LsTypeOK, LsOwned, LsPresent, LsOwns, LsTags

\* The record of a free pushMu.
LEMMA LsIdleIs ==
    /\ LsIdle \in LsOps /\ LsIdle.at = "idle" /\ LsIdle.who = "none" /\ LsIdle.todo = {}
    /\ LsIdle.ask = {} /\ LsIdle.out = {} /\ LsIdle.refresh = FALSE
<1>1. LsIdle \in LsOps
  BY DEF LsIdle, LsOps, LsSteps
<1>2. /\ LsIdle.at = "idle" /\ LsIdle.who = "none" /\ LsIdle.todo = {} /\ LsIdle.ask = {}
      /\ LsIdle.out = {} /\ LsIdle.refresh = FALSE
  BY DEF LsIdle
<1> QED
  BY <1>1, <1>2

\* The end of a push: the mirror counts again.
LEMMA LsDoneIs ==
    ASSUME LsTypeOK, LsDone
    PROVE  /\ lsOp' \in LsOps
           /\ lsOp'.at \in {"idle", "rule"} /\ lsOp'.todo = {} /\ lsOp'.ask = {} /\ lsOp'.out = {}
  BY LsIdleIs DEF LsDone, LsOps, LsSteps
-----------------------------------------------------------------------------
(* Every step keeps the invariant. *)

\* The daemon's calls, the other instances and a restart.
LEMMA LsCallStep ==
    ASSUME LsIndInv, LsCalls \/ LsSyncs
    PROVE  LsIndInv'
<1> USE LsAssumption DEF LsIndInv, lsRemote, lsMirror, lsInput, LsChange
<1>0. LsTypeOK /\ LsOwned \subseteq LsPresent
  BY LsOwnedListed
<1>1. ASSUME NEW ip \in LsIPs, LsBan(ip) PROVE LsIndInv'
  <2>1. LsTypeOK'
    BY <1>1 DEF LsBan, LsTypeOK
  <2> QED
    BY <1>0, <1>1, <2>1, LsOwnedListed DEF LsBan, LsTheirsOK, LsListOK, LsRowsOK, LsMirrorOK, LsSoFar
<1>2. ASSUME NEW ip \in LsIPs, LsUnban(ip) PROVE LsIndInv'
  <2>1. LsTypeOK'
    BY <1>2 DEF LsUnban, LsTypeOK
  <2> QED
    BY <1>0, <1>2, <2>1, LsOwnedListed DEF LsUnban, LsTheirsOK, LsListOK, LsRowsOK, LsMirrorOK, LsSoFar
<1>3. ASSUME NEW ip \in LsIPs, LsOthersAdd(ip) PROVE LsIndInv'
  <2>1. /\ LsOwned' = LsOwned \ {ip} /\ LsPresent' = LsPresent \cup {ip}
        /\ lsEdge' \in [LsIPs -> LsTags]
    BY <1>0, <1>3, LsPutIs, LsOwnedListed DEF LsOthersAdd, LsTags
  <2>2. ip \notin LsPresent
    BY <1>3 DEF LsOthersAdd, LsPresent
  <2>3. LsTypeOK'
    BY <1>3, <2>1 DEF LsOthersAdd, LsTypeOK
  <2> QED
    BY <1>0, <1>3, <2>1, <2>2, <2>3 DEF LsOthersAdd, LsTheirsOK, LsListOK, LsRowsOK, LsMirrorOK, LsSoFar
<1>4. ASSUME NEW ip \in LsIPs, LsOthersDrop(ip) PROVE LsIndInv'
  <2>1. /\ LsOwned' = LsOwned \ {ip} /\ LsPresent' = LsPresent \ {ip}
        /\ lsEdge' \in [LsIPs -> LsTags]
    BY <1>0, <1>4, LsPutIs, LsOwnedListed DEF LsOthersDrop, LsTags
  <2>2. ip \in LsPresent \ LsOwned
    BY <1>4 DEF LsOthersDrop, LsTheirsOK
  <2>3. LsTypeOK'
    BY <1>4, <2>1 DEF LsOthersDrop, LsTypeOK
  <2> QED
    BY <1>0, <1>4, <2>1, <2>2, <2>3 DEF LsOthersDrop, LsTheirsOK, LsListOK, LsRowsOK, LsMirrorOK, LsSoFar
<1>5. CASE LsRestart
  <2>1. lsChanges' \in 0 .. LsMaxChanges /\ lsOp' \in LsOps
    BY <1>5, LsIdleIs DEF LsRestart, LsTypeOK
  <2>2. LsTypeOK'
    BY <1>5, <2>1 DEF LsRestart, LsTypeOK, LsOps
  <2> QED
    BY <1>0, <1>5, <2>2, LsOwnedListed, LsIdleIs
    DEF LsRestart, LsTheirsOK, LsListOK, LsRowsOK, LsMirrorOK
<1>6. ASSUME NEW want \in SUBSET LsIPs, LsSyncCall(want) PROVE LsIndInv'
  <2>1. lsChanges' \in 0 .. LsMaxChanges
    BY <1>6 DEF LsSyncCall, LsTypeOK
  <2>2. LsTypeOK'
    BY <1>6, <2>1 DEF LsSyncCall, LsTypeOK
  <2> QED
    BY <1>0, <1>6, <2>2, LsOwnedListed DEF LsSyncCall, LsTheirsOK, LsListOK, LsRowsOK, LsMirrorOK, LsSoFar
<1>7. lsDesired \in SUBSET LsIPs
  BY DEF LsTypeOK
<1> QED
  BY <1>1, <1>2, <1>3, <1>4, <1>5, <1>6, <1>7 DEF LsCalls, LsSyncs

\* The holder of pushMu begins: a push, a rebuild or a removal.
LEMMA LsStartStep ==
    ASSUME LsIndInv, LsDebounce \/ LsSyncPush \/ LsRebuild \/ LsFlush
    PROVE  LsIndInv'
<1> USE LsAssumption DEF LsIndInv, lsRemote, lsMirror, lsInput
<1>0. /\ LsTypeOK /\ lsOp = LsIdle /\ lsEdge' = lsEdge /\ LsOwned' = LsOwned /\ LsPresent' = LsPresent
      /\ lsItems' = lsItems /\ lsFound' = lsFound /\ lsStale' = lsStale /\ lsBlind' = lsBlind
      /\ lsList' = lsList /\ lsTheirs' = lsTheirs
  BY LsOwnedListed DEF LsDebounce, LsSyncPush, LsRebuild, LsFlush
<1>1. LsTheirsOK' /\ LsListOK'
  BY <1>0 DEF LsTheirsOK, LsListOK
<1>2. lsFound /\ ~lsStale /\ ~lsBlind => LsOwned = lsItems
  BY <1>0 DEF LsMirrorOK, LsSoFar, LsIdle
<1>3. ASSUME NEW who \in {"debounce", "sync", "rebuild"}, LsStart(who)
      PROVE  /\ lsOp' \in LsOps
             /\ LsRowsOK' /\ LsMirrorOK'
  <2>1. LsMissing(lsItems, lsForeign) \subseteq LsIPs \ LsAllow
    BY DEF LsMissing, LsTypeOK
  <2>2. CASE lsOp' \in {LsIdle, [[LsIdle EXCEPT !.who = who] EXCEPT !.at = "discover"],
                         [[LsIdle EXCEPT !.who = who] EXCEPT !.at = "rule"]}
    <3>1. /\ lsOp' \in LsOps /\ lsOp'.at \in {"idle", "discover", "rule"} /\ ~lsOp'.refresh
          /\ lsOp'.todo = {} /\ lsOp'.ask = {} /\ lsOp'.out = {}
      BY <2>2, LsIdleIs DEF LsOps, LsSteps
    <3> QED
      BY <1>0, <1>2, <3>1 DEF LsRowsOK, LsMirrorOK, LsSoFar
  <2>3. CASE /\ lsFound
             /\ lsOp' = [[LsIdle EXCEPT !.who = who] EXCEPT !.at = "add",
                             !.todo = LsMissing(lsItems, lsForeign),
                             !.ask = LsMissing(lsItems, lsForeign)]
    <3>1. /\ lsOp' \in LsOps /\ lsOp'.at = "add" /\ ~lsOp'.refresh /\ lsOp'.out = {}
          /\ lsOp'.todo = LsMissing(lsItems, lsForeign)
          /\ lsOp'.ask = LsMissing(lsItems, lsForeign)
      BY <2>1, <2>3, LsIdleIs DEF LsOps, LsSteps
    <3> QED
      BY <1>0, <1>2, <2>1, <2>3, <3>1 DEF LsRowsOK, LsMirrorOK, LsSoFar
  <2> QED
    BY <1>3, <2>2, <2>3 DEF LsStart
<1>4. CASE LsDebounce
  BY <1>0, <1>1, <1>3, <1>4 DEF LsDebounce, LsTypeOK, LsOps
<1>5. CASE LsSyncPush
  BY <1>0, <1>1, <1>3, <1>5 DEF LsSyncPush, LsTypeOK, LsOps
<1>6. CASE LsRebuild
  <2>1. CASE lsStale
    BY <1>0, <1>1, <1>3, <1>6, <2>1 DEF LsRebuild, LsTypeOK, LsOps
  <2>2. CASE ~lsStale
    <3>1. LsTypeOK'
      BY <1>6, <2>2 DEF LsRebuild, LsTypeOK, LsOps
    <3>2. LsRowsOK' /\ LsMirrorOK'
      BY <1>0, <1>6, <2>2 DEF LsRebuild, LsRowsOK, LsMirrorOK, LsSoFar
    <3> QED
      BY <1>1, <3>1, <3>2
  <2> QED
    BY <2>1, <2>2
<1>7. CASE LsFlush
  <2>1. LsTypeOK'
    BY <1>0, <1>7, LsIdleIs DEF LsFlush, LsTypeOK, LsOps, LsSteps
  <2>2. LsRowsOK' /\ LsMirrorOK'
    BY <1>0, <1>2, <1>7, LsIdleIs DEF LsFlush, LsTypeOK, LsOps, LsRowsOK, LsMirrorOK, LsSoFar
  <2> QED
    BY <1>1, <2>1, <2>2
<1> QED
  BY <1>4, <1>5, <1>6, <1>7

\* A push that fails leaves pushMu free and the mirror as stale as it was.
LEMMA LsFailedIs ==
    ASSUME LsTypeOK, LsFailed(lsStale)
    PROVE  /\ lsOp' \in LsOps /\ lsOp'.at = "idle" /\ lsOp'.todo = {} /\ lsOp'.ask = {}
           /\ lsStale' = lsStale /\ lsStaleTimer' \in BOOLEAN
  BY LsIdleIs DEF LsFailed, LsTypeOK

\* Discovery: the mirror is what the account holds.
LEMMA LsDiscoverStep ==
    ASSUME LsIndInv, LsDiscover \/ LsCreateList \/ LsDiscoverFails
    PROVE  LsIndInv'
<1> USE LsAssumption DEF LsIndInv, lsRemote, lsMirror, lsInput
<1>0. /\ LsTypeOK /\ LsOwned \subseteq LsPresent /\ LsPresent \subseteq LsIPs
      /\ lsEdge' = lsEdge /\ LsOwned' = LsOwned /\ LsPresent' = LsPresent
      /\ lsTheirs' = lsTheirs /\ lsBlind' = lsBlind /\ lsOp \in LsOps /\ lsOp.at = "discover"
      /\ UNCHANGED <<lsRule, lsDesired, lsTimer, lsSync, lsChanges>>
  BY LsOwnedListed DEF LsDiscover, LsCreateList, LsDiscoverFails, LsTypeOK, LsOps
<1>1. LsTheirsOK'
  BY <1>0 DEF LsTheirsOK
<1>2. ASSUME LsLearn(LsOwned, LsPresent \ LsOwned), lsList', lsFaults' = lsFaults
      PROVE  LsIndInv'
  <2>0. /\ lsItems' = LsOwned /\ lsForeign' = LsPresent \ LsOwned /\ lsFound' = TRUE
        /\ lsStale' = FALSE /\ lsStaleTimer' = lsStaleTimer
    BY <1>2 DEF LsLearn
  <2>1. LsMissing(LsOwned, LsPresent \ LsOwned) \subseteq LsIPs \ LsAllow
    BY DEF LsMissing, LsTypeOK
  <2>2. CASE LsDone
    <3>1. lsOp' \in LsOps /\ LsRowsOK' /\ LsMirrorOK'
      BY <1>0, <2>0, <2>2, LsDoneIs DEF LsRowsOK, LsMirrorOK, LsSoFar
    <3> QED
      BY <1>0, <1>1, <1>2, <2>0, <3>1 DEF LsTypeOK, LsListOK, LsOps
  <2>3. CASE lsOp' = [lsOp EXCEPT !.at = "add", !.todo = LsMissing(LsOwned, LsPresent \ LsOwned),
                                  !.ask = LsMissing(LsOwned, LsPresent \ LsOwned)]
    <3>1. /\ lsOp' \in LsOps /\ lsOp'.at = "add" /\ lsOp'.out = {} /\ ~lsOp'.refresh
          /\ lsOp'.todo = LsMissing(LsOwned, LsPresent \ LsOwned)
          /\ lsOp'.ask = LsMissing(LsOwned, LsPresent \ LsOwned)
      BY <1>0, <2>1, <2>3 DEF LsOps, LsSteps, LsRowsOK
    <3>2. LsRowsOK' /\ LsMirrorOK'
      BY <1>0, <2>0, <2>1, <3>1 DEF LsRowsOK, LsMirrorOK, LsSoFar
    <3> QED
      BY <1>0, <1>1, <1>2, <2>0, <3>1, <3>2 DEF LsTypeOK, LsListOK, LsOps
  <2> QED
    BY <1>2, <2>2, <2>3 DEF LsLearn
<1>3. CASE LsDiscover
  BY <1>2, <1>3 DEF LsDiscover
<1>4. CASE LsCreateList
  <2>1. LsPresent = {} /\ LsOwned = {}
    BY <1>0, <1>4 DEF LsCreateList, LsListOK
  <2> QED
    BY <1>2, <1>4, <2>1 DEF LsCreateList
<1>5. CASE LsDiscoverFails
  <2>0. LsFailed(lsStale) /\ lsFaults' \in 0 .. LsMaxFaults
    BY <1>5 DEF LsDiscoverFails, LsFaulty, LsTypeOK
  <2>1. lsList' \in BOOLEAN /\ (lsList => lsList')
    <3>1. (lsList' = lsList \/ lsList' = TRUE) /\ lsList \in BOOLEAN
      BY <1>5 DEF LsDiscoverFails, LsTypeOK
    <3>2. CASE lsList' = lsList
      BY <3>1, <3>2
    <3>3. CASE lsList' = TRUE
      BY <3>3
    <3> QED
      BY <3>1, <3>2, <3>3
  <2>2. LsTypeOK' /\ LsRowsOK' /\ LsMirrorOK'
    BY <1>0, <1>5, <2>0, <2>1, LsFailedIs
    DEF LsDiscoverFails, LsTypeOK, LsOps, LsRowsOK, LsMirrorOK, LsSoFar
  <2>3. LsListOK'
    BY <1>0, <1>5, <2>1 DEF LsDiscoverFails, LsListOK
  <2> QED
    BY <1>1, <2>2, <2>3
<1> QED
  BY <1>3, <1>4, <1>5

\* The replies of the API that an addition or a removal goes on with.
LEMMA LsReplyIs ==
    ASSUME LsTypeOK, NEW r \in LsReplies, LsPaid(r)
    PROVE  /\ lsFaults' \in 0 .. LsMaxFaults /\ r.applied \in BOOLEAN
           /\ r.reply \in {"items", "done"} => r.applied
           /\ r.reply \in {"items", "done", "unsure", "error"}
<1>1. lsFaults' \in 0 .. LsMaxFaults
  BY LsAssumption DEF LsPaid, LsFaulty, LsTypeOK
<1>2. \/ r = [reply |-> "items", applied |-> TRUE] \/ r = [reply |-> "done", applied |-> TRUE]
      \/ r = [reply |-> "error", applied |-> TRUE] \/ r = [reply |-> "error", applied |-> FALSE]
      \/ r = [reply |-> "unsure", applied |-> TRUE] \/ r = [reply |-> "unsure", applied |-> FALSE]
  BY Zenon DEF LsReplies, LsOperation
<1>3. /\ r.reply \in {"items", "done", "unsure", "error"} /\ r.applied \in {TRUE, FALSE}
      /\ r.reply \in {"items", "done"} => r.applied = TRUE
  <2>1. CASE r = [reply |-> "items", applied |-> TRUE]
    BY <2>1, Zenon
  <2>2. CASE r = [reply |-> "done", applied |-> TRUE]
    BY <2>2, Zenon
  <2>3. CASE r = [reply |-> "error", applied |-> TRUE]
    BY <2>3, Zenon
  <2>4. CASE r = [reply |-> "error", applied |-> FALSE]
    BY <2>4, Zenon
  <2>5. CASE r = [reply |-> "unsure", applied |-> TRUE]
    BY <2>5, Zenon
  <2>6. CASE r = [reply |-> "unsure", applied |-> FALSE]
    BY <2>6, Zenon
  <2> QED
    BY <1>2, <2>1, <2>2, <2>3, <2>4, <2>5, <2>6
<1> QED
  BY <1>1, <1>3, Zenon

\* A batch is part of what it is taken from.
LEMMA LsBatchIs == \A S : \A B \in LsBatches(S) : B \subseteq S
  BY DEF LsBatches

\* Adding rows: batch by batch, refused, asked again, and read back.
LEMMA LsAddStep ==
    ASSUME LsIndInv, LsAdd
    PROVE  LsIndInv'
<1> USE LsAssumption DEF LsIndInv, lsRemote, lsMirror, lsInput
<1>0. /\ LsTypeOK /\ LsOwned \subseteq LsPresent /\ LsPresent \subseteq LsIPs /\ lsOp \in LsOps
      /\ lsOp.at = "add" /\ lsFound /\ lsList /\ lsOp.todo \subseteq lsOp.ask
      /\ lsOp.ask \subseteq LsIPs /\ lsOp.out \subseteq lsOp.ask
      /\ UNCHANGED <<lsList, lsRule, lsTheirs, lsForeign, lsFound, lsDesired, lsTimer, lsSync,
                     lsChanges, lsBlind>>
  BY LsOwnedListed DEF LsAdd, LsTypeOK, LsRowsOK, LsListOK, LsOps
<1>1. PICK B \in LsBatches(lsOp.todo), r \in LsReplies :
        LET left == lsOp.todo \ B
            out == lsOp.out \cup (IF r.reply = "items" THEN B ELSE {})
            refresh == lsOp.refresh \/ r.reply # "items"
        IN  /\ ~LsDuplicate(B) /\ LsPaid(r) /\ r.reply # "error"
            /\ IF r.applied THEN LsPut(B, "own") ELSE UNCHANGED lsEdge
            /\ IF r.reply = "unsure" THEN LsMarkStale ELSE LsKeepStale
            /\ IF left # {}
               THEN lsOp' = [lsOp EXCEPT !.todo = left, !.out = out, !.refresh = refresh] /\ UNCHANGED lsItems
               ELSE LsAdded(out, refresh)
  BY DEF LsAdd
<1> DEFINE left == lsOp.todo \ B
           out == lsOp.out \cup (IF r.reply = "items" THEN B ELSE {})
           refresh == lsOp.refresh \/ r.reply # "items"
<1>2. /\ B \subseteq lsOp.todo /\ B \subseteq LsIPs /\ B \cap LsPresent = {}
      /\ left \subseteq lsOp.ask /\ out \subseteq lsOp.ask /\ refresh \in BOOLEAN
      /\ ~refresh => out = lsOp.ask \ left
  BY <1>0, <1>1, LsBatchIs DEF LsDuplicate, LsRowsOK, LsOps
<1>3. /\ lsFaults' \in 0 .. LsMaxFaults /\ r.applied \in BOOLEAN
      /\ r.reply # "unsure" => r.applied
  BY <1>0, <1>1, LsReplyIs
<1>4. /\ lsEdge' \in [LsIPs -> LsTags]
      /\ r.applied => LsOwned' = LsOwned \cup B /\ LsPresent' = LsPresent \cup B
      /\ ~r.applied => LsOwned' = LsOwned /\ LsPresent' = LsPresent
  BY <1>0, <1>1, <1>2, <1>3, LsPutIs, LsOwnedListed DEF LsTags, LsTypeOK
<1>5. /\ lsStale' \in BOOLEAN /\ lsStaleTimer' \in BOOLEAN
      /\ ~lsStale' => ~lsStale /\ r.reply # "unsure"
  BY <1>1 DEF LsMarkStale, LsKeepStale, LsTypeOK
<1>6. LsTheirsOK' /\ LsListOK'
  BY <1>0, <1>2, <1>3, <1>4 DEF LsTheirsOK, LsListOK
<1>7. ~lsStale' /\ ~lsBlind => LsOwned' = lsItems \cup (lsOp.ask \ left)
  BY <1>0, <1>2, <1>3, <1>4, <1>5 DEF LsMirrorOK, LsSoFar
<1>8. CASE left # {}
  <2>1. /\ lsOp' = [lsOp EXCEPT !.todo = left, !.out = out, !.refresh = refresh]
        /\ lsItems' = lsItems
    BY <1>1, <1>8
  <2>2. /\ lsOp' \in LsOps /\ lsOp'.at = "add" /\ lsOp'.todo = left /\ lsOp'.ask = lsOp.ask
        /\ lsOp'.out = out /\ lsOp'.refresh = refresh
    BY <1>0, <1>2, <2>1 DEF LsOps
  <2>3. LsRowsOK'
    BY <1>0, <1>2, <2>2 DEF LsRowsOK
  <2>4. LsMirrorOK'
    BY <1>0, <1>7, <2>1, <2>2 DEF LsMirrorOK, LsSoFar
  <2>5. LsTypeOK'
    BY <1>0, <1>3, <1>4, <1>5, <2>1, <2>2 DEF LsTypeOK, LsOps
  <2> QED
    BY <1>6, <2>3, <2>4, <2>5
<1>9. CASE left = {} /\ refresh
  <2>1. lsOp' = [lsOp EXCEPT !.at = "refresh", !.todo = {}, !.out = out] /\ lsItems' = lsItems
    BY <1>1, <1>9 DEF LsAdded
  <2>2. /\ lsOp' \in LsOps /\ lsOp'.at = "refresh" /\ lsOp'.todo = {} /\ lsOp'.ask = lsOp.ask
        /\ lsOp'.out = out
    BY <1>0, <1>2, <2>1 DEF LsOps, LsSteps
  <2>3. LsRowsOK'
    BY <1>0, <1>2, <2>2 DEF LsRowsOK
  <2>4. LsMirrorOK'
    BY <1>0, <1>7, <1>9, <2>1, <2>2 DEF LsMirrorOK, LsSoFar
  <2>5. LsTypeOK'
    BY <1>0, <1>3, <1>4, <1>5, <2>1, <2>2 DEF LsTypeOK, LsOps
  <2> QED
    BY <1>6, <2>3, <2>4, <2>5
<1>10. CASE left = {} /\ ~refresh
  <2>1. LsDone /\ lsItems' = lsItems \cup out
    BY <1>1, <1>10 DEF LsAdded
  <2>2. lsOp' \in LsOps /\ LsRowsOK' /\ lsOp'.at \in {"idle", "rule"}
    BY <1>0, <2>1, LsDoneIs DEF LsRowsOK
  <2>4. LsMirrorOK'
    BY <1>0, <1>2, <1>7, <1>10, <2>1, <2>2 DEF LsMirrorOK, LsSoFar
  <2>5. LsTypeOK'
    BY <1>0, <1>2, <1>3, <1>4, <1>5, <2>1, <2>2 DEF LsTypeOK, LsOps
  <2> QED
    BY <1>6, <2>2, <2>4, <2>5
<1> QED
  BY <1>8, <1>9, <1>10

\* The other steps of a push: a failed batch, a refused one, the rows asked
\* again, the re-read of the list, the zone's rule.
LEMMA LsPushStep ==
    ASSUME LsIndInv,
           \/ LsAddFails \/ LsAddDuplicate \/ LsRetryAdd \/ LsRetryFails
           \/ LsRefresh \/ LsRefreshFails \/ LsZoneRule \/ LsZoneRuleFails
    PROVE  LsIndInv'
<1> USE LsAssumption DEF LsIndInv, lsRemote, lsMirror, lsInput
<1>0. /\ LsTypeOK /\ LsOwned \subseteq LsPresent /\ LsPresent \subseteq LsIPs /\ lsOp \in LsOps
      /\ lsOp.ask \subseteq LsIPs /\ lsOp.todo \subseteq lsOp.ask
      /\ UNCHANGED <<lsList, lsTheirs, lsDesired, lsTimer, lsSync, lsChanges, lsFound>>
  BY LsOwnedListed
  DEF LsAddFails, LsAddDuplicate, LsRetryAdd, LsRetryFails, LsRefresh, LsRefreshFails,
      LsZoneRule, LsZoneRuleFails, LsTypeOK, LsOps, LsRowsOK
<1>1. CASE LsAddFails
  <2>0. lsOp.at = "add" /\ lsFound /\ lsList /\ UNCHANGED <<lsItems, lsForeign, lsRule>>
    BY <1>1 DEF LsAddFails, LsRowsOK, LsListOK
  <2>1. PICK B \in LsBatches(lsOp.todo), applied \in BOOLEAN :
          /\ ~LsDuplicate(B)
          /\ IF applied THEN LsPut(B, "own") ELSE UNCHANGED lsEdge
          /\ lsBlind' = (lsBlind \/ applied \/ lsOp.todo # lsOp.ask)
    BY <1>1 DEF LsAddFails
  <2>2. B \subseteq LsIPs /\ B \cap LsPresent = {}
    BY <1>0, <2>1, LsBatchIs DEF LsDuplicate
  <2>3. /\ lsEdge' \in [LsIPs -> LsTags]
        /\ applied => LsOwned' = LsOwned \cup B /\ LsPresent' = LsPresent \cup B
        /\ ~applied => LsOwned' = LsOwned /\ LsPresent' = LsPresent
    BY <1>0, <2>1, <2>2, LsPutIs, LsOwnedListed DEF LsTags, LsTypeOK
  <2>4. /\ lsFaults' \in 0 .. LsMaxFaults /\ LsFailed(lsStale) /\ lsBlind' \in BOOLEAN
        /\ ~lsBlind' => ~lsBlind /\ ~applied /\ lsOp.todo = lsOp.ask
    <3>1. lsFaults' \in 0 .. LsMaxFaults /\ LsFailed(lsStale)
      BY <1>1 DEF LsAddFails, LsFaulty, LsTypeOK
    <3>2. lsBlind' \in BOOLEAN /\ (~lsBlind' => ~lsBlind /\ ~applied /\ lsOp.todo = lsOp.ask)
      BY <2>1, Zenon
    <3> QED
      BY <3>1, <3>2
  <2>5. LsTypeOK' /\ LsRowsOK'
    BY <1>0, <2>0, <2>3, <2>4, LsFailedIs DEF LsTypeOK, LsOps, LsRowsOK
  <2>6. LsMirrorOK'
    BY <1>0, <2>0, <2>3, <2>4, LsFailedIs DEF LsMirrorOK, LsSoFar
  <2>7. LsTheirsOK' /\ LsListOK'
    BY <1>0, <2>0, <2>2, <2>3 DEF LsTheirsOK, LsListOK
  <2> QED
    BY <2>5, <2>6, <2>7
\* The remaining steps leave the list's items alone.
<1>a. ASSUME lsEdge' = lsEdge PROVE LsOwned' = LsOwned /\ LsPresent' = LsPresent /\ LsTheirsOK' /\ LsListOK'
  BY <1>0, <1>a, LsOwnedListed DEF LsTheirsOK, LsListOK
<1>2. CASE LsAddDuplicate
  <2>0. /\ lsOp.at = "add" /\ UNCHANGED <<lsEdge, lsItems, lsForeign, lsFaults, lsRule>>
        /\ lsBlind' \in BOOLEAN /\ lsFound
        /\ ~lsBlind' => ~lsBlind /\ lsOp.todo = lsOp.ask
    BY <1>2 DEF LsAddDuplicate, LsTypeOK, LsRowsOK
  <2>1. CASE LsFailed(lsStale)
    <3>1. LsTypeOK' /\ LsRowsOK'
      BY <1>0, <2>0, <2>1, LsFailedIs DEF LsTypeOK, LsOps, LsRowsOK
    <3>2. LsMirrorOK'
      BY <1>0, <1>a, <2>0, <2>1, LsFailedIs DEF LsMirrorOK, LsSoFar
    <3> QED
      BY <1>a, <2>0, <3>1, <3>2
  <2>2. CASE lsOp' = [lsOp EXCEPT !.at = "retry", !.todo = {}, !.out = {}] /\ LsKeepStale
    <3>0. /\ lsOp' \in LsOps /\ lsOp'.at = "retry" /\ lsOp'.todo = {} /\ lsOp'.out = {}
          /\ lsOp'.ask = lsOp.ask
      BY <1>0, <2>2 DEF LsOps, LsSteps
    <3>1. LsTypeOK' /\ LsRowsOK'
      BY <1>0, <2>0, <2>2, <3>0 DEF LsTypeOK, LsOps, LsRowsOK, LsKeepStale
    <3>2. LsMirrorOK'
      BY <1>0, <1>a, <2>0, <2>2, <3>0 DEF LsMirrorOK, LsSoFar, LsKeepStale
    <3> QED
      BY <1>a, <2>0, <3>1, <3>2
  <2> QED
    BY <1>2, <2>1, <2>2 DEF LsAddDuplicate
<1>3. CASE LsRetryAdd
  <2>0. /\ lsOp.at = "retry" /\ lsOp.out = {} /\ lsFound
        /\ UNCHANGED <<lsEdge, lsFaults, lsRule, lsBlind, lsStale, lsStaleTimer>>
        /\ lsItems' = lsItems \cup (lsOp.ask \cap LsOwned)
        /\ lsForeign' = lsForeign \cup (lsOp.ask \cap (LsPresent \ LsOwned))
    BY <1>3 DEF LsRetryAdd, LsRowsOK
  <2>1. CASE LsDone
    <3>1. LsTypeOK' /\ LsRowsOK'
      BY <1>0, <2>0, <2>1, LsDoneIs DEF LsTypeOK, LsOps, LsRowsOK
    <3>2. LsMirrorOK'
      BY <1>0, <1>a, <2>0, <2>1, LsDoneIs DEF LsMirrorOK, LsSoFar
    <3> QED
      BY <1>a, <2>0, <3>1, <3>2
  <2>2. CASE lsOp' = [lsOp EXCEPT !.at = "add", !.todo = lsOp.ask \ LsPresent,
                                  !.ask = lsOp.ask \ LsPresent, !.refresh = FALSE, !.again = TRUE]
    <3>0. /\ lsOp' \in LsOps /\ lsOp'.at = "add" /\ lsOp'.todo = lsOp.ask \ LsPresent
          /\ lsOp'.ask = lsOp.ask \ LsPresent /\ lsOp'.out = {} /\ lsOp'.refresh = FALSE
      BY <1>0, <2>0, <2>2 DEF LsOps, LsSteps
    <3>1. LsTypeOK' /\ LsRowsOK'
      BY <1>0, <2>0, <3>0 DEF LsTypeOK, LsOps, LsRowsOK
    <3>2. LsMirrorOK'
      BY <1>0, <1>a, <2>0, <3>0 DEF LsMirrorOK, LsSoFar
    <3> QED
      BY <1>a, <2>0, <3>1, <3>2
  <2> QED
    BY <1>3, <2>1, <2>2 DEF LsRetryAdd
<1>4. CASE LsRetryFails
  <2>0. /\ lsOp.at = "retry" /\ LsFailed(lsStale) /\ lsFaults' \in 0 .. LsMaxFaults
        /\ UNCHANGED <<lsEdge, lsItems, lsForeign, lsRule, lsBlind>>
    BY <1>4 DEF LsRetryFails, LsFaulty, LsTypeOK
  <2>1. LsTypeOK' /\ LsRowsOK'
    BY <1>0, <2>0, LsFailedIs DEF LsTypeOK, LsOps, LsRowsOK
  <2>2. LsMirrorOK'
    BY <1>0, <1>a, <2>0, LsFailedIs DEF LsMirrorOK, LsSoFar
  <2> QED
    BY <1>a, <2>0, <2>1, <2>2
<1>5. CASE LsRefresh
  <2>0. /\ lsOp.at = "refresh" /\ lsOp.todo = {} /\ lsOp.out \subseteq lsOp.ask /\ LsDone
        /\ UNCHANGED <<lsEdge, lsForeign, lsFaults, lsRule, lsBlind, lsStale, lsStaleTimer>>
        /\ lsItems' = lsItems \cup lsOp.out \cup (lsOp.ask \cap LsOwned)
    BY <1>5 DEF LsRefresh, LsRowsOK
  <2>1. LsTypeOK' /\ LsRowsOK'
    BY <1>0, <2>0, LsDoneIs DEF LsTypeOK, LsOps, LsRowsOK
  <2>2. LsMirrorOK'
    BY <1>0, <1>a, <2>0, LsDoneIs DEF LsMirrorOK, LsSoFar
  <2> QED
    BY <1>a, <2>0, <2>1, <2>2
<1>6. CASE LsRefreshFails
  <2>0. /\ lsOp.at = "refresh" /\ lsOp.out \subseteq lsOp.ask /\ LsDone /\ lsFaults' \in 0 .. LsMaxFaults
        /\ UNCHANGED <<lsEdge, lsForeign, lsRule, lsBlind>>
        /\ lsItems' = lsItems \cup lsOp.out /\ lsStale' = TRUE /\ lsStaleTimer' = TRUE
    BY <1>6 DEF LsRefreshFails, LsRowsOK, LsMarkStale, LsFaulty, LsTypeOK
  <2>1. LsTypeOK' /\ LsRowsOK'
    BY <1>0, <2>0, LsDoneIs DEF LsTypeOK, LsOps, LsRowsOK
  <2>2. LsMirrorOK'
    BY <2>0 DEF LsMirrorOK
  <2> QED
    BY <1>a, <2>0, <2>1, <2>2
<1>7. CASE LsZoneRule \/ LsZoneRuleFails
  <2>0. /\ lsOp.at = "rule" /\ lsOp' = LsIdle /\ lsFaults' \in 0 .. LsMaxFaults
        /\ UNCHANGED <<lsEdge, lsItems, lsForeign, lsBlind, lsStale, lsStaleTimer>>
    <3>1. CASE LsZoneRule
      BY <3>1 DEF LsZoneRule, LsTypeOK
    <3>2. CASE LsZoneRuleFails
      BY <3>2 DEF LsZoneRuleFails, LsFaulty, LsTypeOK
    <3> QED
      BY <1>7, <3>1, <3>2
  <2>1. lsRule' \in BOOLEAN
    BY <1>7, Zenon DEF LsZoneRule, LsZoneRuleFails, LsTypeOK
  <2>2. LsTypeOK' /\ LsRowsOK'
    BY <1>0, <2>0, <2>1, LsIdleIs DEF LsTypeOK, LsOps, LsRowsOK
  <2>3. LsMirrorOK'
    BY <1>0, <1>a, <2>0, LsIdleIs DEF LsMirrorOK, LsSoFar
  <2> QED
    BY <1>a, <2>0, <2>2, <2>3
<1> QED
  BY <1>1, <1>2, <1>3, <1>4, <1>5, <1>6, <1>7

\* Removing rows, batch by batch.
LEMMA LsDeleteStep ==
    ASSUME LsIndInv, LsDelete \/ LsDeleteFails
    PROVE  LsIndInv'
<1> USE LsAssumption DEF LsIndInv, lsRemote, lsMirror, lsInput
<1>0. /\ LsTypeOK /\ LsOwned \subseteq LsPresent /\ LsPresent \subseteq LsIPs /\ lsOp \in LsOps
      /\ lsOp.at = "del" /\ lsFound /\ lsList /\ lsOp.todo \subseteq lsOp.ask /\ lsOp.ask \subseteq LsIPs
      /\ UNCHANGED <<lsList, lsRule, lsTheirs, lsForeign, lsFound, lsDesired, lsTimer, lsSync, lsChanges>>
  BY LsOwnedListed DEF LsDelete, LsDeleteFails, LsTypeOK, LsRowsOK, LsListOK, LsOps
<1>1. ASSUME NEW B \in LsBatches(lsOp.todo), NEW applied \in BOOLEAN,
             IF applied THEN LsPut(B \cap LsOwned, "none") ELSE UNCHANGED lsEdge
      PROVE  /\ lsEdge' \in [LsIPs -> LsTags]
             /\ applied => LsOwned' = LsOwned \ B /\ LsPresent' = LsPresent \ (B \cap LsOwned)
             /\ ~applied => LsOwned' = LsOwned /\ LsPresent' = LsPresent
             /\ B \subseteq lsOp.todo /\ LsTheirsOK' /\ LsListOK'
  <2>1. B \subseteq lsOp.todo /\ B \cap LsOwned \subseteq LsIPs /\ "none" \in LsTags /\ ~LsOwns("none")
    BY <1>0, LsBatchIs, LsOwnedListed DEF LsTags
  <2>2. CASE applied
    <3>1. /\ lsEdge' \in [LsIPs -> LsTags] /\ LsOwned' = LsOwned \ (B \cap LsOwned)
          /\ LsPresent' = LsPresent \ (B \cap LsOwned)
      BY <1>0, <1>1, <2>1, <2>2, LsPutIs
    <3> QED
      BY <1>0, <2>1, <2>2, <3>1 DEF LsTheirsOK, LsListOK
  <2>3. CASE ~applied
    BY <1>0, <1>1, <2>1, <2>3, LsOwnedListed DEF LsTheirsOK, LsListOK, LsTypeOK
  <2> QED
    BY <2>2, <2>3
<1>2. CASE LsDelete
  <2>1. PICK B \in LsBatches(lsOp.todo), r \in LsReplies :
          /\ r.reply \in {"done", "unsure"} /\ LsPaid(r)
          /\ IF r.applied THEN LsPut(B \cap LsOwned, "none") ELSE UNCHANGED lsEdge
          /\ IF r.reply = "unsure" THEN LsMarkStale ELSE LsKeepStale
          /\ IF B = lsOp.todo THEN lsItems' = lsItems \ lsOp.ask /\ lsOp' = LsIdle
             ELSE lsOp' = [lsOp EXCEPT !.todo = @ \ B] /\ UNCHANGED lsItems
    BY <1>2 DEF LsDelete
  <2>2. /\ lsFaults' \in 0 .. LsMaxFaults /\ r.applied \in BOOLEAN
        /\ r.reply # "unsure" => r.applied
    BY <1>0, <2>1, LsReplyIs
  <2>3. /\ lsEdge' \in [LsIPs -> LsTags]
        /\ r.applied => LsOwned' = LsOwned \ B
        /\ B \subseteq lsOp.todo /\ LsTheirsOK' /\ LsListOK'
    BY <1>1, <2>1, <2>2
  <2>4. /\ lsStale' \in BOOLEAN /\ lsStaleTimer' \in BOOLEAN /\ lsBlind' = lsBlind
        /\ ~lsStale' => ~lsStale /\ r.reply # "unsure"
    BY <1>2, <2>1 DEF LsDelete, LsMarkStale, LsKeepStale, LsTypeOK
  <2>5. ~lsStale' /\ ~lsBlind => LsOwned' = (lsItems \ (lsOp.ask \ lsOp.todo)) \ B
    BY <1>0, <2>2, <2>3, <2>4 DEF LsMirrorOK, LsSoFar
  <2>6. CASE B = lsOp.todo
    <3>0. lsItems' = lsItems \ lsOp.ask /\ lsOp' = LsIdle
      BY <2>1, <2>6
    <3>1. LsTypeOK' /\ LsRowsOK'
      BY <1>0, <2>2, <2>3, <2>4, <3>0, LsIdleIs DEF LsTypeOK, LsOps, LsRowsOK
    <3>2. LsMirrorOK'
      BY <1>0, <2>4, <2>5, <2>6, <3>0, LsIdleIs DEF LsMirrorOK, LsSoFar
    <3> QED
      BY <2>3, <3>1, <3>2
  <2>7. CASE B # lsOp.todo
    <3>0. lsItems' = lsItems /\ lsOp' = [lsOp EXCEPT !.todo = lsOp.todo \ B]
      BY <2>1, <2>7
    <3>1. /\ lsOp' \in LsOps /\ lsOp'.at = "del" /\ lsOp'.todo = lsOp.todo \ B /\ lsOp'.ask = lsOp.ask
      BY <1>0, <3>0 DEF LsOps
    <3>2. LsTypeOK' /\ LsRowsOK'
      BY <1>0, <2>2, <2>3, <2>4, <3>0, <3>1 DEF LsTypeOK, LsOps, LsRowsOK
    <3>3. LsMirrorOK'
      BY <1>0, <2>3, <2>4, <2>5, <3>0, <3>1 DEF LsMirrorOK, LsSoFar
    <3> QED
      BY <2>3, <3>2, <3>3
  <2> QED
    BY <2>6, <2>7
<1>3. CASE LsDeleteFails
  <2>1. PICK B \in LsBatches(lsOp.todo), applied \in BOOLEAN :
          /\ IF applied THEN LsPut(B \cap LsOwned, "none") ELSE UNCHANGED lsEdge
          /\ lsBlind' = (lsBlind \/ applied \/ lsOp.todo # lsOp.ask)
    BY <1>3 DEF LsDeleteFails
  <2>2. /\ lsEdge' \in [LsIPs -> LsTags] /\ LsTheirsOK' /\ LsListOK'
        /\ ~applied => LsOwned' = LsOwned
    BY <1>1, <2>1
  <2>3. /\ lsFaults' \in 0 .. LsMaxFaults /\ lsOp' = LsIdle /\ lsBlind' \in BOOLEAN
        /\ UNCHANGED <<lsItems, lsStale, lsStaleTimer>>
        /\ ~lsBlind' => ~lsBlind /\ ~applied /\ lsOp.todo = lsOp.ask
    <3>1. lsFaults' \in 0 .. LsMaxFaults /\ lsOp' = LsIdle /\ UNCHANGED <<lsItems, lsStale, lsStaleTimer>>
      BY <1>3 DEF LsDeleteFails, LsFaulty, LsTypeOK
    <3>2. lsBlind' \in BOOLEAN /\ (~lsBlind' => ~lsBlind /\ ~applied /\ lsOp.todo = lsOp.ask)
      BY <2>1, Zenon
    <3> QED
      BY <3>1, <3>2
  <2>4. LsTypeOK' /\ LsRowsOK'
    BY <1>0, <2>2, <2>3, LsIdleIs DEF LsTypeOK, LsOps, LsRowsOK
  <2>5. LsMirrorOK'
    BY <1>0, <2>2, <2>3, LsIdleIs DEF LsMirrorOK, LsSoFar
  <2> QED
    BY <2>2, <2>4, <2>5
<1> QED
  BY <1>2, <1>3
-----------------------------------------------------------------------------

\* The invariant of the list enforcer, through lost replies, refused batches,
\* operations nobody confirms, other instances and restarts.
THEOREM LsInvariant == LsSpec => []LsIndInv
<1>1. LsInit => LsIndInv
  <2> SUFFICES ASSUME LsInit PROVE LsIndInv
    OBVIOUS
  <2>0. /\ lsTheirs \subseteq LsIPs /\ lsChanges \in 0 .. LsMaxChanges
        /\ lsFaults \in 0 .. LsMaxFaults /\ lsOp \in LsOps
    BY LsAssumption, LsIdleIs DEF LsInit
  <2>1. LsTypeOK
    BY <2>0 DEF LsInit, LsTypeOK, LsOps
  <2>2. LsTheirsOK
    BY DEF LsInit, LsTheirsOK, LsPresent, LsOwned, LsOwns
  <2>3. LsListOK /\ LsRowsOK /\ LsMirrorOK
    BY LsIdleIs DEF LsInit, LsListOK, LsRowsOK, LsMirrorOK
  <2> QED
    BY <2>1, <2>2, <2>3 DEF LsIndInv
<1>2. LsIndInv /\ [LsNext]_lsVars => LsIndInv'
  <2> SUFFICES ASSUME LsIndInv, [LsNext]_lsVars PROVE LsIndInv'
    OBVIOUS
  <2>1. CASE UNCHANGED lsVars
    <3>1. /\ UNCHANGED <<lsEdge, lsList, lsRule, lsTheirs, lsItems, lsForeign, lsFound, lsStale>>
          /\ UNCHANGED <<lsStaleTimer, lsDesired, lsTimer, lsSync, lsChanges, lsOp, lsBlind, lsFaults>>
      BY <2>1 DEF lsVars, lsRemote, lsMirror, lsInput
    <3>2. LsTypeOK' /\ LsRowsOK'
      BY <3>1 DEF LsIndInv, LsTypeOK, LsRowsOK
    <3>3. LsTheirsOK' /\ LsListOK' /\ LsMirrorOK'
      BY <3>1, LsOwnedListed DEF LsIndInv, LsTheirsOK, LsListOK, LsMirrorOK, LsSoFar
    <3> QED
      BY <3>2, <3>3 DEF LsIndInv
  <2> QED
    BY <2>1, LsCallStep, LsStartStep, LsDiscoverStep, LsAddStep, LsPushStep, LsDeleteStep
    DEF LsNext, LsPush, LsRemove
<1> QED
  BY <1>1, <1>2, PTL DEF LsSpec

\* Between two holders of pushMu the mirror is exactly what this instance
\* owns at the edge, unless it is marked stale or a lost reply hid a change:
\* no item is left behind for good, no ban is taken for listed that is not.
THEOREM LsMirrorIsExact == LsSpec => []LsInv
<1>1. LsIndInv => LsInv
  BY LsIdleIs DEF LsIndInv, LsInv, LsMirrorExact, LsMirrorOK, LsSoFar
<1> QED
  BY <1>1, LsInvariant, PTL
-----------------------------------------------------------------------------
(* The contract of the shared list. *)

\* A step that changes the edge publishes addresses nobody lists and nobody
\* protects, withdraws items this instance owns, or is somebody else's.
LEMMA LsStepKeepsContract ==
    ASSUME LsIndInv, [LsNext]_lsVars
    PROVE  [Share!Publish \/ Share!Withdraw \/ Share!Others]_<<lsEdge, lsTheirs>>
<1> USE LsAssumption DEF lsRemote, lsMirror, lsInput, LsIndInv
<1>0. /\ LsTypeOK /\ lsOp \in LsOps
      /\ LsOwned = Share!Tagged(IF LsAdopt THEN {"own", "legacy"} ELSE {"own"})
      /\ LsIPs \ LsPresent = Share!Tagged({"none"})
  BY DEF LsTypeOK, LsOps, LsOwned, LsOwns, LsPresent, Share!Tagged
<1>p. \A S, tag : LsPut(S, tag) <=> Share!Put(S, tag)
  BY DEF LsPut, Share!Put
<1>1. ASSUME NEW B \in LsBatches(lsOp.todo), lsOp.at = "add", ~LsDuplicate(B), LsPut(B, "own"),
             lsTheirs' = lsTheirs
      PROVE  Share!Publish
  <2>1. B \subseteq (LsIPs \ LsPresent) \ LsAllow
    BY <1>0, <1>1, LsBatchIs DEF LsDuplicate, LsRowsOK, LsOps
  <2>2. B \in SUBSET (Share!Tagged({"none"}) \ LsAllow)
    BY <1>0, <2>1
  <2> QED
    BY <1>1, <1>p, <2>2 DEF Share!Publish
<1>2. ASSUME NEW B, LsPut(B \cap LsOwned, "none"), lsTheirs' = lsTheirs
      PROVE  Share!Withdraw
  <2>1. B \cap LsOwned \in SUBSET Share!Tagged(IF LsAdopt THEN {"own", "legacy"} ELSE {"own"})
    BY <1>0
  <2> QED
    BY <1>2, <1>p, <2>1 DEF Share!Withdraw
<1>3. CASE LsAdd
  BY <1>1, <1>3 DEF LsAdd
<1>4. CASE LsAddFails
  BY <1>1, <1>4 DEF LsAddFails
<1>5. CASE LsDelete
  BY <1>2, <1>5 DEF LsDelete
<1>6. CASE LsDeleteFails
  BY <1>2, <1>6 DEF LsDeleteFails
<1>7. ASSUME NEW ip \in LsIPs, LsOthersAdd(ip)
      PROVE  Share!Others
  <2>1. ip \in Share!Tagged({"none"})
    BY <1>7 DEF LsOthersAdd, Share!Tagged
  <2> QED
    BY <1>7, <1>p, <2>1 DEF LsOthersAdd, Share!Others
<1>8. ASSUME NEW ip \in LsIPs, LsOthersDrop(ip)
      PROVE  Share!Others
  BY <1>8, <1>p DEF LsOthersDrop, Share!Others
<1>9. CASE \/ \E ip \in LsIPs : LsBan(ip) \/ LsUnban(ip)
           \/ LsRestart \/ LsSyncs \/ LsDebounce \/ LsSyncPush \/ LsRebuild \/ LsFlush
           \/ LsDiscover \/ LsCreateList \/ LsDiscoverFails \/ LsAddDuplicate \/ LsRetryAdd
           \/ LsRetryFails \/ LsRefresh \/ LsRefreshFails \/ LsZoneRule \/ LsZoneRuleFails
           \/ UNCHANGED lsVars
  BY <1>9 DEF LsBan, LsUnban, LsRestart, LsSyncs, LsSyncCall, LsDebounce, LsSyncPush, LsRebuild,
     LsFlush, LsDiscover, LsCreateList, LsDiscoverFails, LsAddDuplicate, LsRetryAdd, LsRetryFails,
     LsRefresh, LsRefreshFails, LsZoneRule, LsZoneRuleFails, lsVars
<1> QED
  BY <1>3, <1>4, <1>5, <1>6, <1>7, <1>8, <1>9 DEF LsNext, LsCalls, LsPush, LsRemove

\* The list enforcer implements the contract of the shared list: whatever the
\* API loses, refuses or leaves unconfirmed, it never lists a protected or an
\* already listed address and never takes out an item it does not own.
THEOREM LsImplementsShare == LsSpec => LsSharesList
<1>1. LsInit => Share!ShareInit
  BY LsAssumption DEF LsInit, Share!ShareInit, Share!Tags, Share!Tagged, LsTags
<1>2. LsIndInv /\ [LsNext]_lsVars
         => [Share!Publish \/ Share!Withdraw \/ Share!Others]_<<lsEdge, lsTheirs>>
  BY LsStepKeepsContract
<1> QED
  BY <1>1, <1>2, LsInvariant, PTL DEF LsSpec, LsSharesList, Share!ShareSpec

-----------------------------------------------------------------------------
(* The zone rules (EdgeZones).                                             *)

\* A set of numbers has a least one.
LEMMA LeastNatural ==
    ASSUME NEW T \in SUBSET Nat, T # {}
    PROVE  \E x \in T : \A y \in T : x <= y
<1> DEFINE R == {ss \in Nat \X Nat : ss[1] < ss[2]}
<1>1. IsWellFoundedOn(R, Nat)
  BY NatLessThanWellFounded DEF OpToRel
<1>2. PICK x \in T : \A y \in T : ~ (<<y, x>> \in R)
  BY <1>1, WFMin
<1>3. \A y \in T : ~(y < x)
  BY <1>2
<1> QED
  BY <1>3

\* Division with remainder: the batch a position falls into.
LEMMA Quotient ==
    ASSUME NEW n \in Nat, NEW k \in Nat \ {0}
    PROVE  \E q \in 0..n : q * k <= n /\ n < (q + 1) * k
<1> DEFINE T == {q \in Nat : n < (q + 1) * k}
<1>1. n \in T
  <2>1. PICK m \in Nat : k = m + 1
    <3>1. k - 1 \in Nat /\ k = (k - 1) + 1
      OBVIOUS
    <3> QED
      BY <3>1
  <2>2. (n + 1) * k = (n + 1) * m + (n + 1)
    BY <2>1
  <2>3. (n + 1) * m \in Nat
    BY <2>1
  <2> QED
    BY <2>2, <2>3
<1>2. PICK q \in T : \A y \in T : q <= y
  BY <1>1, LeastNatural
<1>3. q * k <= n
  <2>1. CASE q = 0
    BY <2>1
  <2>2. CASE q # 0
    <3>1. q - 1 \in Nat /\ q - 1 \notin T
      BY <1>2, <2>2
    <3>2. ~(n < q * k)
      BY <3>1
    <3>3. q * k \in Nat
      OBVIOUS
    <3> QED
      BY <3>2, <3>3
  <2> QED
    BY <2>1, <2>2
<1> QED
  BY <1>1, <1>2, <1>3

\* The next zone of a Sync is one of those it has left.
LEMMA EzMinIs ==
    ASSUME NEW T \in SUBSET Nat, T # {}
    PROVE  Min(T) \in T
<1>1. \E x \in T : \A y \in T : x =< y
  BY LeastNatural
<1> QED
  BY <1>1 DEF Min

\* buildExpressions loses no address: the expressions that are not empty
\* hold, together, exactly the addresses of the set.
LEMMA EzChunksCover ==
    ASSUME NEW ips \in SUBSET EzIPs
    PROVE  UNION {EzChunk(ips, d) : d \in EzExprs(ips)} = ips
<1> USE EzAssumption
<1>1. ASSUME NEW i \in ips PROVE \E d \in EzDescs : i \in EzChunk(ips, d)
  <2> DEFINE B == {j \in ips : j < i}
  <2>1. IsFiniteSet(B) /\ IsFiniteSet(B \cup {i}) /\ Cardinality(B \cup {i}) = Cardinality(B) + 1
        /\ Cardinality(B) \in Nat
    <3>1. IsFiniteSet(B)
      BY FS_Subset
    <3>2. i \notin B
      OBVIOUS
    <3> QED
      BY <3>1, <3>2, FS_AddElement, FS_CardinalityType
  <2>2. Cardinality(B \cup {i}) <= Cardinality(EzIPs) /\ Cardinality(EzIPs) \in Nat
    <3>1. B \cup {i} \in SUBSET EzIPs
      OBVIOUS
    <3> QED
      BY <3>1, FS_Subset, FS_CardinalityType
  <2>3. PICK q \in 0..Cardinality(B) : q * EzPerRule <= Cardinality(B) /\ Cardinality(B) < (q + 1) * EzPerRule
    BY <2>1, Quotient
  <2>4. q + 1 \in EzDescs /\ (q + 1) - 1 = q
    BY <2>1, <2>2, <2>3 DEF EzDescs
  <2>5. i \in EzChunk(ips, q + 1)
    BY <2>3, <2>4 DEF EzChunk
  <2> QED
    BY <2>4, <2>5
<1>2. \A d \in EzDescs : EzChunk(ips, d) \subseteq ips
  BY DEF EzChunk
<1>3. \A i \in ips : \E d \in EzExprs(ips) : i \in EzChunk(ips, d)
  BY <1>1 DEF EzExprs
<1>4. EzExprs(ips) \subseteq EzDescs
  BY DEF EzExprs
<1> QED
  BY <1>2, <1>3, <1>4

\* An empty blocklist has no expression.
LEMMA EzNoExprs == EzExprs({}) = {}
  BY DEF EzExprs, EzChunk

\* The managed rules of a zone that exist, and the IDs it ever gave out.
EzThere(R) == {i \in 1..EzMaxRules : R[i].desc # 0}
EzTaken(R) == {i \in 1..EzMaxRules : R[i] # [desc |-> 0, ips |-> {}]}

\* The IDs name exactly the rules that exist, each under its description.
EzMirror(R, ids) ==
    /\ \A d \in EzDescs : ids[d] # 0 => R[ids[d]].desc = d
    /\ \A i \in EzThere(R) : ids[R[i].desc] = i

\* The expressions D of a blocklist are at the zone, each in its rule.
EzWrote(R, ids, ips, D) ==
    \A d \in D : ids[d] # 0 /\ R[ids[d]].ips = EzChunk(ips, d)

\* IDs are given out in order, and no rule blocks nothing.
EzSlotsOK(R) ==
    /\ EzTaken(R) = 1..Cardinality(EzTaken(R))
    /\ \A i \in EzThere(R) : R[i].ips # {}

\* The IDs of a deleting push that still name a rule.
EzLeft(j) == [d \in EzDescs |-> IF d \in EzExprs(j.ips) \cup j.todo THEN j.ids[d] ELSE 0]

\* What a push holds, whatever another one did to its zone.
EzJobOK(p) ==
    LET j == ezJob[p]
    IN  /\ j.at = "none" => j = EzNoJob
        /\ j.at # "none" => j.zone \in EzZones
        /\ j.at \in {"discover", "write"} => j.todo \subseteq EzExprs(j.ips)
        /\ j.at \in {"write", "delete"} => ezFound[j.zone]
        /\ j.at = "delete" => \A d \in j.todo : j.ids[d] # 0 /\ d \notin EzExprs(j.ips)

\* The push of a zone whose pushes never overlapped: how far the zone has
\* come, between the blocklist before and the one it writes.
EzPushOK(p) ==
    LET j == ezJob[p]  z == j.zone  R == ezRules[z]
    IN  /\ ~ezTimer[z] => j.ips = ezWant[z]
        /\ j.at = "discover" => EzMirror(R, ezIDs[z]) /\ j.todo = EzExprs(j.ips)
        /\ j.at = "write" => /\ EzMirror(R, j.ids) /\ j.ids = ezIDs[z]
                             /\ EzWrote(R, j.ids, j.ips, EzExprs(j.ips) \ j.todo)
        /\ j.at = "delete" => /\ EzMirror(R, EzLeft(j)) /\ EzWrote(R, j.ids, j.ips, EzExprs(j.ips))
                              /\ ezIDs[z] = IF j.ips = {} THEN EzLeft(j) ELSE j.ids

\* A zone that nobody pushes: the IDs mirror it, and unless a push is to
\* come or the last one failed, it holds the wanted blocklist.
EzRestOK(z) ==
    /\ EzMirror(ezRules[z], ezIDs[z])
    /\ (~ezTimer[z] /\ ezFound[z] /\ ezLast[z] = "ok") =>
          /\ EzWrote(ezRules[z], ezIDs[z], ezWant[z], EzExprs(ezWant[z]))
          /\ \A d \in EzDescs : ezIDs[z][d] # 0 => d \in EzExprs(ezWant[z])

\* A zone: rules are found before they are made, and unless pushes
\* overlapped or a reply was lost, its push or its rest is in order.
EzZoneOK(z) ==
    /\ ~ezFound[z] => EzThere(ezRules[z]) = {}
    /\ ezLast[z] # "lost" =>
          /\ EzSlotsOK(ezRules[z])
          /\ \A p, q \in EzPushers : ezJob[p].zone = z /\ ezJob[q].zone = z => p = q
          /\ \A p \in EzPushers : ezJob[p].zone = z => EzPushOK(p)
          /\ (\A p \in EzPushers : ezJob[p].zone # z) => EzRestOK(z)

\* The inductive invariant.
EzIndInv == EzTypeOK /\ (\A p \in EzPushers : EzJobOK(p)) /\ \A z \in EzZones : EzZoneOK(z)

\* The numbers the types are made of.
LEMMA EzBounds ==
    /\ Cardinality(EzIPs) \in Nat /\ EzDescs \subseteq 1..Cardinality(EzIPs)
    /\ EzIDRange = 0..EzMaxRules /\ EzMaxRules \in Nat \ {0}
  BY EzAssumption, FS_CardinalityType DEF EzDescs, EzIDRange

\* No more IDs are used than there are.
LEMMA EzUsedCount ==
    ASSUME NEW z
    PROVE  IsFiniteSet(EzUsed(z)) /\ Cardinality(EzUsed(z)) \in Nat
           /\ Cardinality(EzUsed(z)) <= EzMaxRules
<1>1. IsFiniteSet(1..EzMaxRules) /\ Cardinality(1..EzMaxRules) = EzMaxRules
  BY EzAssumption, FS_Interval
<1>2. EzUsed(z) \in SUBSET (1..EzMaxRules)
  BY DEF EzUsed
<1> QED
  BY <1>1, <1>2, FS_Subset, FS_CardinalityType

\* An expression is made of addresses.
LEMMA EzChunkType ==
    ASSUME NEW ips \in SUBSET EzIPs, NEW d
    PROVE  EzChunk(ips, d) \subseteq EzIPs
  BY DEF EzChunk

\* Types and jobs, action by action: a call of the daemon,
LEMMA EzCallType ==
    ASSUME EzTypeOK, \A p \in EzPushers : EzJobOK(p),
           (\E ip \in EzIPs : EzBan(ip) \/ EzUnban(ip)) \/ (\E want \in SUBSET EzIPs : EzSync(want))
    PROVE  EzTypeOK' /\ \A p \in EzPushers : EzJobOK(p)'
<1> USE EzAssumption DEF EzTypeOK, EzChange, ezCall, ezState
<1>1. UNCHANGED <<ezRules, ezIDs, ezFound, ezJob, ezLast, ezFaults>>
  BY DEF EzBan, EzUnban, EzSync
<1>2. ASSUME NEW p \in EzPushers PROVE EzJobOK(p)'
  BY <1>1 DEF EzJobOK
<1>3. CASE \E ip \in EzIPs : EzBan(ip) \/ EzUnban(ip)
  <2>1. PICK ip \in EzIPs : EzBan(ip) \/ EzUnban(ip)
    BY <1>3
  <2>2. /\ \/ ezWant' = [z \in EzZones |-> ezWant[z] \cup {ip}]
           \/ ezWant' = [z \in EzZones |-> ezWant[z] \ {ip}]
        /\ ezTimer' = [z \in EzZones |-> TRUE]
        /\ ezChanges < EzMaxChanges /\ ezChanges' = ezChanges + 1 /\ UNCHANGED <<ezTodo, ezGoal>>
    BY <2>1 DEF EzBan, EzUnban
  <2>3. ezWant' \in [EzZones -> SUBSET EzIPs] /\ ezTimer' \in [EzZones -> BOOLEAN]
    BY <2>2
  <2>4. ezChanges' \in 0..EzMaxChanges
    BY <2>2
  <2> QED
    BY <1>1, <1>2, <2>2, <2>3, <2>4
<1>4. CASE \E want \in SUBSET EzIPs : EzSync(want)
  <2>1. /\ ezTodo' = EzZones /\ ezGoal' \subseteq EzIPs /\ UNCHANGED <<ezWant, ezTimer>>
        /\ ezChanges' = ezChanges \/ (ezChanges < EzMaxChanges /\ ezChanges' = ezChanges + 1)
    BY <1>4 DEF EzSync
  <2>2. ezChanges' \in 0..EzMaxChanges
    BY <2>1
  <2> QED
    BY <1>1, <1>2, <2>1, <2>2
<1> QED
  BY <1>3, <1>4

\* The jobs of the pushers.
EzRecord == [zone : EzZones \cup {0}, at : {"none", "discover", "write", "delete"},
             ips : SUBSET EzIPs, ids : [EzDescs -> EzIDRange], todo : SUBSET EzDescs]

\* An idle pusher has no zone.
LEMMA EzNoJobIs == EzNoJob \in EzRecord /\ EzNoJob.at = "none" /\ EzNoJob.zone = 0
  BY EzBounds DEF EzNoJob, EzRecord

\* ... a push that starts,
LEMMA EzStartType ==
    ASSUME EzTypeOK, \A p \in EzPushers : EzJobOK(p), NEW p \in EzPushers, NEW z \in EzZones,
           NEW ips \in SUBSET EzIPs, EzStart(p, z, ips), UNCHANGED ezFound
    PROVE  /\ ezJob' \in [EzPushers -> EzRecord] /\ ezLast' \in [EzZones -> {"ok", "retry", "lost"}]
           /\ \A q \in EzPushers : EzJobOK(q)'
<1> USE EzAssumption DEF EzTypeOK
<1>1. EzExprs(ips) \subseteq EzDescs
  BY DEF EzExprs
<1> DEFINE J == [zone |-> z, at |-> IF ezFound[z] THEN "write" ELSE "discover",
                 ips |-> ips, ids |-> ezIDs[z], todo |-> EzExprs(ips)]
<1>2. J \in EzRecord /\ ezJob' = [ezJob EXCEPT ![p] = J]
  BY <1>1 DEF EzRecord, EzStart
<1>3. ezJob' \in [EzPushers -> EzRecord]
  BY <1>2 DEF EzRecord
<1>4. ezLast' \in [EzZones -> {"ok", "retry", "lost"}]
  BY DEF EzStart
<1>5. EzJobOK(p)'
  <2>1. ezJob'[p] = J
    BY <1>2
  <2> QED
    BY <2>1 DEF EzJobOK
<1>6. ASSUME NEW q \in EzPushers, q # p PROVE EzJobOK(q)'
  <2>1. ezJob'[q] = ezJob[q] /\ EzJobOK(q)
    BY <1>2, <1>6
  <2> QED
    BY <2>1 DEF EzJobOK
<1> QED
  BY <1>3, <1>4, <1>5, <1>6

\* The rules.
EzRuleSet == [desc : 0..Cardinality(EzIPs), ips : SUBSET EzIPs]

\* A pusher at work has a zone, a blocklist and IDs.
LEMMA EzActing ==
    ASSUME EzTypeOK, NEW p \in EzPushers, EzJobOK(p), ezJob[p].at # "none"
    PROVE  /\ ezJob[p].zone \in EzZones /\ ezJob[p].zone # 0 /\ ezJob[p].ips \in SUBSET EzIPs
           /\ ezJob[p].ids \in [EzDescs -> EzIDRange] /\ ezJob[p].todo \in SUBSET EzDescs
           /\ ezJob[p] \in EzRecord
  BY EzAssumption DEF EzTypeOK, EzJobOK, EzRecord

\* The other pusher's job is not touched.
LEMMA EzOtherJob ==
    ASSUME NEW q \in EzPushers, EzJobOK(q), ezJob'[q] = ezJob[q],
           \A z \in EzZones : ezFound[z] => ezFound'[z]
    PROVE  EzJobOK(q)'
  BY DEF EzJobOK

\* A rule put at an ID,
LEMMA EzPutType ==
    ASSUME EzTypeOK, NEW z \in EzZones, NEW i \in 1..EzMaxRules, NEW r \in EzRuleSet,
           ezRules' = [ezRules EXCEPT ![z][i] = r]
    PROVE  /\ ezRules' \in [EzZones -> [1..EzMaxRules -> EzRuleSet]]
           /\ \A y \in EzZones \ {z} : ezRules'[y] = ezRules[y]
           /\ \A k \in 1..EzMaxRules : ezRules'[z][k] = IF k = i THEN r ELSE ezRules[z][k]
  BY DEF EzTypeOK, EzRuleSet

\* ... a rule whose expression is replaced,
EzEdits(z, i, c) ==
    /\ EzTypeOK /\ z \in EzZones /\ i \in 1..EzMaxRules /\ c \in SUBSET EzIPs
    /\ ezRules' = [ezRules EXCEPT ![z][i].ips = c]

LEMMA EzEditType ==
    ASSUME NEW z, NEW i, NEW c, EzEdits(z, i, c)
    PROVE  /\ ezRules' \in [EzZones -> [1..EzMaxRules -> EzRuleSet]]
           /\ \A y \in EzZones \ {z} : ezRules'[y] = ezRules[y]
           /\ \A k \in 1..EzMaxRules : ezRules'[z][k] =
                 IF k = i THEN [desc |-> ezRules[z][i].desc, ips |-> c] ELSE ezRules[z][k]
<1> USE DEF EzEdits
<1>0. ezRules \in [EzZones -> [1..EzMaxRules -> EzRuleSet]]
  BY DEF EzTypeOK, EzRuleSet
<1>1. ezRules[z][i] \in EzRuleSet /\ ezRules[z] \in [1..EzMaxRules -> EzRuleSet]
      /\ ezRules \in [EzZones -> [1..EzMaxRules -> EzRuleSet]]
  BY <1>0
<1>2. [ezRules[z][i] EXCEPT !.ips = c] = [desc |-> ezRules[z][i].desc, ips |-> c]
  BY <1>1 DEF EzRuleSet
<1>3. [desc |-> ezRules[z][i].desc, ips |-> c] \in EzRuleSet
  BY <1>1 DEF EzRuleSet
<1>4. ezRules' = [ezRules EXCEPT ![z] = [ezRules[z] EXCEPT ![i] = [ezRules[z][i] EXCEPT !.ips = c]]]
  OBVIOUS
<1>5. ezRules' = [ezRules EXCEPT ![z] = [ezRules[z] EXCEPT ![i] = [desc |-> ezRules[z][i].desc, ips |-> c]]]
  BY <1>2, <1>4
<1>6. ezRules'[z] = [ezRules[z] EXCEPT ![i] = [desc |-> ezRules[z][i].desc, ips |-> c]]
      /\ \A y \in EzZones \ {z} : ezRules'[y] = ezRules[y]
  BY <1>1, <1>5
<1>7. ezRules'[z] \in [1..EzMaxRules -> EzRuleSet]
      /\ \A k \in 1..EzMaxRules : ezRules'[z][k] =
                 IF k = i THEN [desc |-> ezRules[z][i].desc, ips |-> c] ELSE ezRules[z][k]
  BY <1>1, <1>3, <1>6
<1>8. ezRules' \in [EzZones -> [1..EzMaxRules -> EzRuleSet]]
  BY <1>1, <1>5, <1>6, <1>7
<1> QED
  BY <1>6, <1>7, <1>8

\* ... and a rule deleted, over the function of all zones.
EzClears(z, i) ==
    /\ EzTypeOK /\ z \in EzZones /\ i \in 1..EzMaxRules
    /\ ezRules' = [ezRules EXCEPT ![z][i].desc = 0]

LEMMA EzEraseType ==
    ASSUME NEW z, NEW i, EzClears(z, i)
    PROVE  /\ ezRules' \in [EzZones -> [1..EzMaxRules -> EzRuleSet]]
           /\ \A y \in EzZones \ {z} : ezRules'[y] = ezRules[y]
           /\ \A k \in 1..EzMaxRules : ezRules'[z][k] =
                 IF k = i THEN [desc |-> 0, ips |-> ezRules[z][i].ips] ELSE ezRules[z][k]
<1> USE DEF EzClears
<1>0. ezRules \in [EzZones -> [1..EzMaxRules -> EzRuleSet]]
  BY DEF EzTypeOK, EzRuleSet
<1>1. ezRules[z][i] \in EzRuleSet /\ ezRules[z] \in [1..EzMaxRules -> EzRuleSet]
      /\ ezRules \in [EzZones -> [1..EzMaxRules -> EzRuleSet]]
  BY <1>0
<1>2. [ezRules[z][i] EXCEPT !.desc = 0] = [desc |-> 0, ips |-> ezRules[z][i].ips]
  BY <1>1 DEF EzRuleSet
<1>3. [desc |-> 0, ips |-> ezRules[z][i].ips] \in EzRuleSet
  BY <1>1, EzBounds DEF EzRuleSet
<1>4. ezRules' = [ezRules EXCEPT ![z] = [ezRules[z] EXCEPT ![i] = [ezRules[z][i] EXCEPT !.desc = 0]]]
  OBVIOUS
<1>5. ezRules' = [ezRules EXCEPT ![z] = [ezRules[z] EXCEPT ![i] = [desc |-> 0, ips |-> ezRules[z][i].ips]]]
  BY <1>2, <1>4
<1>6. ezRules'[z] = [ezRules[z] EXCEPT ![i] = [desc |-> 0, ips |-> ezRules[z][i].ips]]
      /\ \A y \in EzZones \ {z} : ezRules'[y] = ezRules[y]
  BY <1>1, <1>5
<1>7. ezRules'[z] \in [1..EzMaxRules -> EzRuleSet]
      /\ \A k \in 1..EzMaxRules : ezRules'[z][k] =
                 IF k = i THEN [desc |-> 0, ips |-> ezRules[z][i].ips] ELSE ezRules[z][k]
  BY <1>1, <1>3, <1>6
<1>8. ezRules' \in [EzZones -> [1..EzMaxRules -> EzRuleSet]]
  BY <1>1, <1>5, <1>6, <1>7
<1> QED
  BY <1>6, <1>7, <1>8

\* ... discoverZone,
LEMMA EzDiscoverType ==
    ASSUME EzTypeOK, \A q \in EzPushers : EzJobOK(q), \A z \in EzZones : ~ezFound[z] => EzThere(ezRules[z]) = {},
           NEW p \in EzPushers, EzDiscover(p)
    PROVE  EzTypeOK' /\ \A q \in EzPushers : EzJobOK(q)'
<1> DEFINE j == ezJob[p]  z == j.zone
<1>1. z \in EzZones /\ j \in EzRecord /\ j.at = "discover"
  BY EzActing DEF EzDiscover
<1>2. ezFound' = [ezFound EXCEPT ![z] = TRUE]
      /\ ezIDs' = (IF ezFound[z] THEN ezIDs ELSE [ezIDs EXCEPT ![z] = EzDiscovered(z)])
      /\ ezJob' = [ezJob EXCEPT ![p].at = "write", ![p].ids = ezIDs'[z]]
      /\ UNCHANGED <<ezRules, ezWant, ezTimer, ezCall, ezLast, ezChanges, ezFaults>>
  BY DEF EzDiscover
<1>3. ezIDs' \in [EzZones -> [EzDescs -> EzIDRange]]
  <2>1. CASE ezFound[z]
    BY <1>2, <2>1 DEF EzTypeOK
  <2>2. CASE ~ezFound[z]
    <3>1. EzDiscovered(z) \in [EzDescs -> EzIDRange]
      BY <1>1, <2>2, EzBounds DEF EzDiscovered, EzLive, EzThere
    <3> QED
      BY <1>1, <1>2, <2>2, <3>1 DEF EzTypeOK
  <2> QED
    BY <2>1, <2>2
<1>4. ezJob' \in [EzPushers -> EzRecord] /\ ezJob'[p] = [j EXCEPT !.at = "write", !.ids = ezIDs'[z]]
      /\ \A q \in EzPushers \ {p} : ezJob'[q] = ezJob[q]
  BY <1>1, <1>2, <1>3 DEF EzTypeOK, EzRecord
<1>5. ezFound' \in [EzZones -> BOOLEAN] /\ ezFound'[z] = TRUE /\ \A y \in EzZones : ezFound[y] => ezFound'[y]
  BY <1>1, <1>2 DEF EzTypeOK
<1>6. EzJobOK(p)'
  <2>1. j.todo \subseteq EzExprs(j.ips) /\ ezJob'[p].todo = j.todo /\ ezJob'[p].ips = j.ips
        /\ ezJob'[p].at = "write" /\ ezJob'[p].zone = z
    BY <1>1, <1>4 DEF EzJobOK, EzRecord
  <2> QED
    BY <1>1, <1>5, <2>1 DEF EzJobOK
<1>7. \A q \in EzPushers \ {p} : EzJobOK(q)'
  BY <1>4, <1>5, EzOtherJob
<1>8. EzTypeOK'
  BY <1>2, <1>3, <1>4, <1>5 DEF EzTypeOK, EzRecord, ezCall
<1> QED
  BY <1>6, <1>7, <1>8

\* ... createRule,
LEMMA EzCreateType ==
    ASSUME EzTypeOK, \A q \in EzPushers : EzJobOK(q),
           NEW p \in EzPushers, NEW d \in EzDescs, EzCreate(p, d)
    PROVE  EzTypeOK' /\ \A q \in EzPushers : EzJobOK(q)'
<1> DEFINE j == ezJob[p]  z == j.zone  new == Cardinality(EzUsed(z)) + 1
<1>1. z \in EzZones /\ j \in EzRecord /\ j.at = "write" /\ j.ips \in SUBSET EzIPs
  BY EzActing DEF EzCreate
<1>2. new \in 1..EzMaxRules /\ new \in EzIDRange
  BY EzUsedCount, EzBounds DEF EzCreate
<1>3. /\ ezRules' = [ezRules EXCEPT ![z][new] = [desc |-> d, ips |-> EzChunk(j.ips, d)]]
      /\ ezIDs' = [ezIDs EXCEPT ![z][d] = new]
      /\ ezJob' = [ezJob EXCEPT ![p].todo = @ \ {d}, ![p].ids[d] = new]
      /\ UNCHANGED <<ezWant, ezFound, ezTimer, ezCall, ezLast, ezChanges, ezFaults>>
  BY DEF EzCreate
<1>4. [desc |-> d, ips |-> EzChunk(j.ips, d)] \in EzRuleSet
  BY <1>1, EzChunkType, EzBounds DEF EzRuleSet
<1> HIDE DEF new
<1>5. ezRules' \in [EzZones -> [1..EzMaxRules -> EzRuleSet]]
  BY <1>1, <1>2, <1>3, <1>4, EzPutType
<1>6. ezIDs' \in [EzZones -> [EzDescs -> EzIDRange]]
  BY <1>1, <1>2, <1>3 DEF EzTypeOK
<1>7. ezJob' \in [EzPushers -> EzRecord]
      /\ ezJob'[p] = [j EXCEPT !.todo = @ \ {d}, !.ids[d] = new]
      /\ \A q \in EzPushers \ {p} : ezJob'[q] = ezJob[q]
  BY <1>1, <1>2, <1>3 DEF EzTypeOK, EzRecord
<1>8. EzJobOK(p)'
  <2>1. ezJob'[p].todo = j.todo \ {d} /\ ezJob'[p].ips = j.ips /\ ezJob'[p].at = "write" /\ ezJob'[p].zone = z
    BY <1>1, <1>7 DEF EzRecord
  <2> QED
    BY <1>1, <1>3, <2>1 DEF EzJobOK
<1>9. \A q \in EzPushers \ {p} : EzJobOK(q)'
  BY <1>3, <1>7, EzOtherJob
<1>10. EzTypeOK'
  BY <1>3, <1>5, <1>6, <1>7 DEF EzTypeOK, EzRecord, EzRuleSet, ezCall
<1> QED
  BY <1>8, <1>9, <1>10

\* ... patchRule,
LEMMA EzPatchType ==
    ASSUME EzTypeOK, \A q \in EzPushers : EzJobOK(q),
           NEW p \in EzPushers, NEW d \in EzDescs, EzPatch(p, d)
    PROVE  EzTypeOK' /\ \A q \in EzPushers : EzJobOK(q)'
<1> DEFINE j == ezJob[p]  z == j.zone
<1>1. z \in EzZones /\ j \in EzRecord /\ j.at = "write" /\ j.ips \in SUBSET EzIPs
  BY EzActing DEF EzPatch
<1>2. j.ids[d] \in 1..EzMaxRules
  BY <1>1, EzBounds DEF EzPatch, EzRecord
<1>3. /\ ezRules' = [ezRules EXCEPT ![z][j.ids[d]].ips = EzChunk(j.ips, d)]
      /\ ezJob' = [ezJob EXCEPT ![p].todo = @ \ {d}]
      /\ UNCHANGED <<ezState, ezCall, ezLast, ezChanges, ezFaults>>
  BY DEF EzPatch
<1>5. ezRules' \in [EzZones -> [1..EzMaxRules -> EzRuleSet]]
  <2>1. EzChunk(j.ips, d) \subseteq EzIPs
    BY <1>1, EzChunkType
  <2> QED
    <3>1. EzEdits(z, j.ids[d], EzChunk(j.ips, d))
      BY <1>1, <1>2, <1>3, <2>1 DEF EzEdits
    <3> QED
      BY <3>1, EzEditType
<1>7. ezJob' \in [EzPushers -> EzRecord]
      /\ ezJob'[p] = [j EXCEPT !.todo = @ \ {d}]
      /\ \A q \in EzPushers \ {p} : ezJob'[q] = ezJob[q]
  BY <1>1, <1>3 DEF EzTypeOK, EzRecord
<1>8. EzJobOK(p)'
  <2>1. ezJob'[p].todo = j.todo \ {d} /\ ezJob'[p].ips = j.ips /\ ezJob'[p].at = "write" /\ ezJob'[p].zone = z
    BY <1>1, <1>7 DEF EzRecord
  <2> QED
    BY <1>1, <1>3, <2>1 DEF EzJobOK, ezState
<1>9. \A q \in EzPushers \ {p} : EzJobOK(q)'
  BY <1>3, <1>7, EzOtherJob DEF ezState
<1>10. EzTypeOK'
  BY <1>3, <1>5, <1>7 DEF EzTypeOK, EzRecord, EzRuleSet, ezCall, ezState
<1> QED
  BY <1>8, <1>9, <1>10

\* ... the end of the writing,
LEMMA EzWrittenType ==
    ASSUME EzTypeOK, \A q \in EzPushers : EzJobOK(q), NEW p \in EzPushers, EzWritten(p)
    PROVE  EzTypeOK' /\ \A q \in EzPushers : EzJobOK(q)'
<1> DEFINE j == ezJob[p]  z == j.zone  rest == {d \in EzDescs : j.ids[d] # 0} \ EzExprs(j.ips)
<1>1. z \in EzZones /\ j \in EzRecord /\ j.at = "write"
  BY EzActing DEF EzWritten
<1>2. /\ ezJob' = [ezJob EXCEPT ![p].at = "delete", ![p].todo = rest]
      /\ UNCHANGED <<ezRules, ezState, ezCall, ezLast, ezChanges, ezFaults>>
  BY DEF EzWritten
<1>3. rest \in SUBSET EzDescs /\ \A d \in rest : j.ids[d] # 0 /\ d \notin EzExprs(j.ips)
  OBVIOUS
<1> HIDE DEF rest
<1>4. ezJob' \in [EzPushers -> EzRecord] /\ ezJob'[p] = [j EXCEPT !.at = "delete", !.todo = rest]
      /\ \A q \in EzPushers \ {p} : ezJob'[q] = ezJob[q]
  BY <1>1, <1>2, <1>3 DEF EzTypeOK, EzRecord
<1>5. EzJobOK(p)'
  <2>1. ezJob'[p].todo = rest /\ ezJob'[p].ips = j.ips /\ ezJob'[p].at = "delete" /\ ezJob'[p].zone = z
        /\ ezJob'[p].ids = j.ids
    BY <1>1, <1>4 DEF EzRecord
  <2> QED
    BY <1>1, <1>2, <1>3, <2>1 DEF EzJobOK, ezState
<1>6. \A q \in EzPushers \ {p} : EzJobOK(q)'
  BY <1>2, <1>4, EzOtherJob DEF ezState
<1>7. EzTypeOK'
  BY <1>2, <1>4 DEF EzTypeOK, EzRecord, ezCall, ezState
<1> QED
  BY <1>5, <1>6, <1>7

\* ... deleteRulesetRule,
LEMMA EzDeleteType ==
    ASSUME EzTypeOK, \A q \in EzPushers : EzJobOK(q),
           NEW p \in EzPushers, NEW d \in EzDescs, EzDelete(p, d)
    PROVE  EzTypeOK' /\ \A q \in EzPushers : EzJobOK(q)'
<1> DEFINE j == ezJob[p]  z == j.zone
<1>1. z \in EzZones /\ j \in EzRecord /\ j.at = "delete" /\ d \in j.todo /\ j.ids[d] # 0
  BY EzActing DEF EzDelete, EzJobOK
<1>2. j.ids[d] \in 1..EzMaxRules
  BY <1>1, EzBounds DEF EzRecord
<1>3. /\ ezRules' = [ezRules EXCEPT ![z][j.ids[d]].desc = 0]
      /\ ezIDs' = (IF j.ips = {} THEN [ezIDs EXCEPT ![z][d] = 0] ELSE ezIDs)
      /\ ezJob' = [ezJob EXCEPT ![p].todo = @ \ {d}]
      /\ UNCHANGED <<ezWant, ezFound, ezTimer, ezCall, ezLast, ezChanges, ezFaults>>
  BY DEF EzDelete
<1>4. ezRules' \in [EzZones -> [1..EzMaxRules -> EzRuleSet]]
  <2>1. EzClears(z, j.ids[d])
    BY <1>1, <1>2, <1>3 DEF EzClears
  <2> QED
    BY <2>1, EzEraseType
<1>5. ezIDs' \in [EzZones -> [EzDescs -> EzIDRange]]
  <2>1. 0 \in EzIDRange
    BY EzBounds
  <2> QED
    BY <1>1, <1>3, <2>1 DEF EzTypeOK
<1>6. ezJob' \in [EzPushers -> EzRecord]
      /\ ezJob'[p] = [j EXCEPT !.todo = @ \ {d}]
      /\ \A q \in EzPushers \ {p} : ezJob'[q] = ezJob[q]
  BY <1>1, <1>3 DEF EzTypeOK, EzRecord
<1>7. EzJobOK(p)'
  <2>1. ezJob'[p].todo = j.todo \ {d} /\ ezJob'[p].ips = j.ips /\ ezJob'[p].at = "delete" /\ ezJob'[p].zone = z
        /\ ezJob'[p].ids = j.ids
    BY <1>1, <1>6 DEF EzRecord
  <2> QED
    BY <1>1, <1>3, <2>1 DEF EzJobOK
<1>8. \A q \in EzPushers \ {p} : EzJobOK(q)'
  BY <1>3, <1>6, EzOtherJob
<1>9. EzTypeOK'
  BY <1>3, <1>4, <1>5, <1>6 DEF EzTypeOK, EzRecord, EzRuleSet, ezCall
<1> QED
  BY <1>7, <1>8, <1>9

\* The end of a push, however it ends.
LEMMA EzEndType ==
    ASSUME EzTypeOK, \A q \in EzPushers : EzJobOK(q), NEW p \in EzPushers,
           ezJob' = [ezJob EXCEPT ![p] = EzNoJob], UNCHANGED ezFound
    PROVE  /\ ezJob' \in [EzPushers -> EzRecord] /\ ezJob'[p] = EzNoJob
           /\ \A q \in EzPushers \ {p} : ezJob'[q] = ezJob[q]
           /\ \A q \in EzPushers : EzJobOK(q)'
<1>1. /\ ezJob' \in [EzPushers -> EzRecord] /\ ezJob'[p] = EzNoJob
      /\ \A q \in EzPushers \ {p} : ezJob'[q] = ezJob[q]
  BY EzNoJobIs DEF EzTypeOK, EzRecord
<1>2. EzJobOK(p)'
  BY <1>1, EzNoJobIs DEF EzJobOK
<1>3. \A q \in EzPushers \ {p} : EzJobOK(q)'
  BY <1>1, EzOtherJob
<1> QED
  BY <1>1, <1>2, <1>3

\* ... the end of the push,
LEMMA EzPushedType ==
    ASSUME EzTypeOK, \A q \in EzPushers : EzJobOK(q), NEW p \in EzPushers, EzPushed(p)
    PROVE  EzTypeOK' /\ \A q \in EzPushers : EzJobOK(q)'
<1> DEFINE j == ezJob[p]  z == j.zone
<1>1. z \in EzZones /\ j \in EzRecord /\ j.at = "delete"
  BY EzActing DEF EzPushed
<1>2. /\ ezIDs' = (IF j.ips = {} THEN ezIDs
                ELSE [ezIDs EXCEPT ![z] = [d \in EzDescs |-> IF d \in EzExprs(j.ips) THEN j.ids[d] ELSE 0]])
      /\ ezJob' = [ezJob EXCEPT ![p] = EzNoJob]
      /\ ezLast' = [ezLast EXCEPT ![z] = IF @ = "lost" THEN @ ELSE "ok"]
      /\ UNCHANGED <<ezRules, ezWant, ezFound, ezTimer, ezCall, ezChanges, ezFaults>>
  BY DEF EzPushed
<1>3. ezIDs' \in [EzZones -> [EzDescs -> EzIDRange]]
  <2>1. [d \in EzDescs |-> IF d \in EzExprs(j.ips) THEN j.ids[d] ELSE 0] \in [EzDescs -> EzIDRange]
    BY <1>1, EzBounds DEF EzRecord
  <2> QED
    BY <1>2, <2>1 DEF EzTypeOK
<1>4. ezLast' \in [EzZones -> {"ok", "retry", "lost"}]
  BY <1>2 DEF EzTypeOK
<1>5. ezJob' \in [EzPushers -> EzRecord] /\ \A q \in EzPushers : EzJobOK(q)'
  BY <1>2, EzEndType
<1>6. EzTypeOK'
  BY <1>2, <1>3, <1>4, <1>5 DEF EzTypeOK, EzRecord, ezCall
<1> QED
  BY <1>5, <1>6

\* ... and a call that fails, whether it took effect or not.
LEMMA EzFailsType ==
    ASSUME EzTypeOK, \A q \in EzPushers : EzJobOK(q), NEW p \in EzPushers, EzFails(p)
    PROVE  EzTypeOK' /\ \A q \in EzPushers : EzJobOK(q)'
<1> DEFINE j == ezJob[p]  z == j.zone
<1>1. z \in EzZones /\ j \in EzRecord /\ j.at # "none" /\ j.ips \in SUBSET EzIPs
  BY EzActing DEF EzFails, EzJobOK
<1>2. /\ ezJob' = [ezJob EXCEPT ![p] = EzNoJob] /\ ezTodo' = (IF p = "sync" THEN {} ELSE ezTodo)
      /\ UNCHANGED <<ezState, ezGoal, ezChanges>>
      /\ ezFaults' = ezFaults \/ (ezFaults < EzMaxFaults /\ ezFaults' = ezFaults + 1)
  BY DEF EzFails
<1>3. ezLast' \in [EzZones -> {"ok", "retry", "lost"}]
  BY DEF EzFails, EzTypeOK
<1>4. ezRules' \in [EzZones -> [1..EzMaxRules -> EzRuleSet]]
  <2>1. CASE UNCHANGED ezRules
    BY <2>1 DEF EzTypeOK, EzRuleSet
  <2>2. CASE /\ j.at = "delete"
             /\ \E d \in j.todo : ezRules' = [ezRules EXCEPT ![z][j.ids[d]].desc = 0]
    <3>1. PICK d \in j.todo : ezRules' = [ezRules EXCEPT ![z][j.ids[d]].desc = 0]
      BY <2>2
    <3>2. j.ids[d] \in 1..EzMaxRules
      BY <1>1, <2>2, EzBounds DEF EzJobOK, EzRecord
    <3> QED
      <4>1. EzClears(z, j.ids[d])
        BY <1>1, <3>1, <3>2 DEF EzClears
      <4> QED
        BY <4>1, EzEraseType
  <2>3. CASE /\ j.at = "write" /\ Cardinality(EzUsed(z)) < EzMaxRules
             /\ \E d \in j.todo : ezRules' =
                  IF j.ids[d] = 0
                  THEN [ezRules EXCEPT ![z][Cardinality(EzUsed(z)) + 1] = [desc |-> d, ips |-> EzChunk(j.ips, d)]]
                  ELSE [ezRules EXCEPT ![z][j.ids[d]].ips = EzChunk(j.ips, d)]
    <3>1. PICK d \in j.todo : ezRules' =
                  IF j.ids[d] = 0
                  THEN [ezRules EXCEPT ![z][Cardinality(EzUsed(z)) + 1] = [desc |-> d, ips |-> EzChunk(j.ips, d)]]
                  ELSE [ezRules EXCEPT ![z][j.ids[d]].ips = EzChunk(j.ips, d)]
      BY <2>3
    <3>2. d \in EzDescs /\ j.ids[d] \in EzIDRange /\ EzChunk(j.ips, d) \in SUBSET EzIPs
      BY <1>1, EzChunkType DEF EzRecord
    <3>3. CASE j.ids[d] = 0
      <4>1. Cardinality(EzUsed(z)) + 1 \in 1..EzMaxRules
        BY <2>3, EzUsedCount, EzBounds
      <4>2. [desc |-> d, ips |-> EzChunk(j.ips, d)] \in EzRuleSet
        BY <3>2, EzBounds DEF EzRuleSet
      <4> QED
        BY <1>1, <3>1, <3>3, <4>1, <4>2, EzPutType
    <3>4. CASE j.ids[d] # 0
      <4>1. j.ids[d] \in 1..EzMaxRules
        BY <3>2, <3>4, EzBounds
      <4> QED
        <5>1. EzEdits(z, j.ids[d], EzChunk(j.ips, d))
          BY <1>1, <3>1, <3>2, <3>4, <4>1 DEF EzEdits
        <5> QED
          BY <5>1, EzEditType
    <3> QED
      BY <3>3, <3>4
  <2> QED
    BY <2>1, <2>2, <2>3 DEF EzFails
<1>5. ezJob' \in [EzPushers -> EzRecord] /\ \A q \in EzPushers : EzJobOK(q)'
  BY <1>2, EzEndType DEF ezState
<1>6. ezTodo' \subseteq EzZones /\ ezFaults' \in 0..EzMaxFaults
  <2>1. ezFaults \in 0..EzMaxFaults /\ EzMaxFaults \in Nat /\ ezTodo \subseteq EzZones
    BY EzAssumption DEF EzTypeOK
  <2> QED
    BY <1>2, <2>1
<1>7. EzTypeOK'
  BY <1>2, <1>3, <1>4, <1>5, <1>6 DEF EzTypeOK, EzRecord, EzRuleSet, ezState
<1> QED
  BY <1>5, <1>7

\* The model's views of a zone, over its rules alone.
LEMMA EzSameViews ==
    ASSUME NEW z
    PROVE  EzLive(z) = EzThere(ezRules[z]) /\ EzUsed(z) = EzTaken(ezRules[z])
  BY DEF EzLive, EzThere, EzUsed, EzTaken

\* A step that leaves a zone alone, or arms its timer.
LEMMA EzFrame ==
    ASSUME NEW z \in EzZones, EzZoneOK(z), ezRules'[z] = ezRules[z], ezIDs'[z] = ezIDs[z],
           ezFound'[z] <=> ezFound[z], ezLast'[z] = ezLast[z],
           ezTimer'[z] \/ (ezWant'[z] = ezWant[z] /\ ~ezTimer[z]),
           \A q \in EzPushers : (ezJob[q].zone = z \/ ezJob'[q].zone = z) => ezJob'[q] = ezJob[q]
    PROVE  EzZoneOK(z)'
<1>1. \A q \in EzPushers : ezJob'[q].zone = z <=> ezJob[q].zone = z
  OBVIOUS
<1>2. SUFFICES ASSUME ezLast[z] # "lost" PROVE EzZoneOK(z)'
  BY DEF EzZoneOK
<1>3. ASSUME NEW p \in EzPushers, ezJob[p].zone = z PROVE EzPushOK(p)'
  <2>1. EzPushOK(p) /\ ezJob'[p] = ezJob[p]
    BY <1>2, <1>3 DEF EzZoneOK
  <2> QED
    BY <1>3, <2>1 DEF EzPushOK
<1>4. ASSUME \A p \in EzPushers : ezJob[p].zone # z PROVE EzRestOK(z)'
  <2>1. EzRestOK(z)
    BY <1>2, <1>4 DEF EzZoneOK
  <2> QED
    BY <2>1 DEF EzRestOK
<1> QED
  BY <1>1, <1>2, <1>3, <1>4 DEF EzZoneOK

\* The pusher of a zone whose pushes never overlapped.
LEMMA EzAlone ==
    ASSUME NEW p \in EzPushers, NEW z, ezJob[p].zone = z, EzZoneOK(z), ezLast[z] # "lost"
    PROVE  /\ EzPushOK(p) /\ EzSlotsOK(ezRules[z])
           /\ \A q \in EzPushers : q # p => ezJob[q].zone # z
  BY DEF EzZoneOK

\* A push that starts finds the IDs exact, or overlaps with another one.
LEMMA EzStartZones ==
    ASSUME EzIndInv, NEW p \in EzPushers, NEW z \in EzZones, NEW ips \in SUBSET EzIPs,
           EzStart(p, z, ips), UNCHANGED <<ezRules, ezIDs, ezFound>>,
           ezTimer' = [ezTimer EXCEPT ![z] = FALSE], ezWant'[z] = ips,
           \A y \in EzZones \ {z} : ezWant'[y] = ezWant[y]
    PROVE  \A y \in EzZones : EzZoneOK(y)'
<1> USE EzAssumption
<1> DEFINE J == [zone |-> z, at |-> IF ezFound[z] THEN "write" ELSE "discover",
                 ips |-> ips, ids |-> ezIDs[z], todo |-> EzExprs(ips)]
<1>1. /\ ezJob \in [EzPushers -> EzRecord] /\ ezJob[p] = EzNoJob /\ ezJob'[p] = J
      /\ \A q \in EzPushers \ {p} : ezJob'[q] = ezJob[q]
      /\ ezLast' = [ezLast EXCEPT ![z] = IF EzBusy(z) = {} THEN @ ELSE "lost"]
      /\ ezLast \in [EzZones -> {"ok", "retry", "lost"}] /\ ezTimer \in [EzZones -> BOOLEAN]
  BY DEF EzStart, EzIndInv, EzTypeOK, EzRecord
<1>2. ezJob[p].zone = 0 /\ 0 # z /\ 0 \notin EzZones
  BY <1>1, EzNoJobIs
<1>3. ASSUME NEW y \in EzZones, y # z PROVE EzZoneOK(y)'
  <2>1. /\ ezLast'[y] = ezLast[y] /\ (ezTimer'[y] <=> ezTimer[y]) /\ ezWant'[y] = ezWant[y]
        /\ \A q \in EzPushers : (ezJob[q].zone = y \/ ezJob'[q].zone = y) => ezJob'[q] = ezJob[q]
    BY <1>1, <1>2, <1>3
  <2> QED
    BY <1>3, <2>1, EzFrame DEF EzIndInv
<1>4. EzZoneOK(z)'
  <2>1. EzZoneOK(z)
    BY DEF EzIndInv
  <2>2. CASE EzBusy(z) # {}
    <3>1. ezLast'[z] = "lost"
      BY <1>1, <2>2
    <3> QED
      BY <2>1, <3>1 DEF EzZoneOK
  <2>3. CASE EzBusy(z) = {}
    <3>1. ezLast'[z] = ezLast[z] /\ \A q \in EzPushers : ezJob[q].zone # z
      BY <1>1, <2>3 DEF EzBusy
    <3>2. SUFFICES ASSUME ezLast[z] # "lost" PROVE EzZoneOK(z)'
      BY <2>1, <3>1 DEF EzZoneOK
    <3>3. EzRestOK(z) /\ EzSlotsOK(ezRules[z])
      BY <2>1, <3>1, <3>2 DEF EzZoneOK
    <3>4. EzPushOK(p)'
      <4>1. EzMirror(ezRules[z], ezIDs[z]) /\ EzWrote(ezRules[z], ezIDs[z], ips, EzExprs(ips) \ EzExprs(ips))
        BY <3>3 DEF EzRestOK, EzWrote
      <4> QED
        BY <1>1, <4>1 DEF EzPushOK
    <3>5. \A q \in EzPushers : ezJob'[q].zone = z <=> q = p
      BY <1>1, <3>1
    <3> QED
      BY <2>1, <3>1, <3>3, <3>4, <3>5 DEF EzZoneOK
  <2> QED
    BY <2>2, <2>3
<1> QED
  BY <1>3, <1>4

\* A call arms every timer or leaves the zones alone.
LEMMA EzCallZones ==
    ASSUME EzIndInv,
           (\E ip \in EzIPs : EzBan(ip) \/ EzUnban(ip)) \/ (\E want \in SUBSET EzIPs : EzSync(want))
    PROVE  \A z \in EzZones : EzZoneOK(z)'
<1>1. UNCHANGED <<ezRules, ezIDs, ezFound, ezJob, ezLast>>
  BY DEF EzBan, EzUnban, EzSync, ezState
<1>2. (\A z \in EzZones : ezTimer'[z] = TRUE) \/ UNCHANGED <<ezWant, ezTimer>>
  BY DEF EzBan, EzUnban, EzSync, ezState
<1>3. ASSUME NEW z \in EzZones PROVE EzZoneOK(z)'
  BY <1>1, <1>2, EzFrame DEF EzIndInv
<1> QED
  BY <1>3

\* The other zones of a push step.
LEMMA EzOtherZones ==
    ASSUME EzIndInv, NEW p \in EzPushers, NEW z \in EzZones, ezJob[p].zone = z,
           ezJob'[p].zone \in {0, z}, \A q \in EzPushers \ {p} : ezJob'[q] = ezJob[q],
           \A y \in EzZones \ {z} : /\ ezRules'[y] = ezRules[y] /\ ezIDs'[y] = ezIDs[y]
                                    /\ (ezFound'[y] <=> ezFound[y]) /\ ezLast'[y] = ezLast[y],
           UNCHANGED <<ezTimer, ezWant>>
    PROVE  \A y \in EzZones \ {z} : EzZoneOK(y)'
<1>1. ASSUME NEW y \in EzZones \ {z} PROVE EzZoneOK(y)'
  <2>1. \A q \in EzPushers : (ezJob[q].zone = y \/ ezJob'[q].zone = y) => ezJob'[q] = ezJob[q]
    BY EzAssumption
  <2> QED
    BY <2>1, EzFrame DEF EzIndInv
<1> QED
  BY <1>1

\* The zone of a push step that goes on.
LEMMA EzThisZone ==
    ASSUME NEW p \in EzPushers, NEW z, ezJob'[p].zone = z,
           ezFound'[z], ezLast'[z] = "lost" \/
             (/\ EzSlotsOK(ezRules[z])' /\ EzPushOK(p)'
              /\ \A q \in EzPushers \ {p} : ezJob'[q].zone # z)
    PROVE  EzZoneOK(z)'
  BY DEF EzZoneOK

\* A zone whose rules were never looked for has none.
LEMMA EzDiscoverZones ==
    ASSUME EzIndInv, NEW p \in EzPushers, EzDiscover(p)
    PROVE  \A y \in EzZones : EzZoneOK(y)'
<1> DEFINE j == ezJob[p]
<1>00. PICK z \in EzZones : z = j.zone
  BY EzActing DEF EzDiscover, EzIndInv
<1>0. j.zone = z /\ j \in EzRecord /\ ezJob \in [EzPushers -> EzRecord] /\ j.at = "discover"
      /\ ezFound \in [EzZones -> BOOLEAN] /\ ezIDs \in [EzZones -> [EzDescs -> EzIDRange]]
  BY <1>00, EzActing DEF EzDiscover, EzIndInv, EzTypeOK, EzRecord
<1>1. ezFound' = [ezFound EXCEPT ![z] = TRUE]
      /\ ezIDs' = (IF ezFound[z] THEN ezIDs ELSE [ezIDs EXCEPT ![z] = EzDiscovered(z)])
      /\ ezJob' = [ezJob EXCEPT ![p].at = "write", ![p].ids = ezIDs'[z]]
      /\ UNCHANGED <<ezRules, ezWant, ezTimer, ezCall, ezLast, ezChanges, ezFaults>>
  BY <1>00 DEF EzDiscover
<1>2. ezJob'[p] = [j EXCEPT !.at = "write", !.ids = ezIDs'[z]]
      /\ \A q \in EzPushers \ {p} : ezJob'[q] = ezJob[q]
  BY <1>0, <1>1
<1>3. ezJob'[p].at = "write" /\ ezJob'[p].ids = ezIDs'[z] /\ ezJob'[p].zone = z
      /\ ezJob'[p].ips = j.ips /\ ezJob'[p].todo = j.todo
  BY <1>0, <1>2 DEF EzRecord
<1>4. \A y \in EzZones \ {z} : EzZoneOK(y)'
  BY <1>0, <1>1, <1>2, <1>3, EzOtherZones
<1>5. EzZoneOK(z)'
  <2>1. ezFound'[z]
    BY <1>0, <1>1
  <2>2. CASE ezLast[z] = "lost"
    BY <1>1, <1>3, <2>1, <2>2, EzThisZone
  <2>3. CASE ezLast[z] # "lost"
    <3>1. EzPushOK(p) /\ EzSlotsOK(ezRules[z]) /\ \A q \in EzPushers : q # p => ezJob[q].zone # z
      BY <1>0, <2>3, EzAlone DEF EzIndInv
    <3>2. EzMirror(ezRules[z], ezIDs'[z])
      <4>1. CASE ezFound[z]
        BY <1>0, <1>1, <3>1, <4>1 DEF EzPushOK
      <4>2. CASE ~ezFound[z]
        <5>1. EzThere(ezRules[z]) = {}
          BY <1>0, <4>2 DEF EzIndInv, EzZoneOK
        <5>2. \A d \in EzDescs : EzDiscovered(z)[d] = 0
          BY <5>1, EzSameViews DEF EzDiscovered
        <5>3. ezIDs'[z] = EzDiscovered(z)
          BY <1>0, <1>1, <4>2
        <5> QED
          BY <5>1, <5>2, <5>3 DEF EzMirror
      <4> QED
        BY <4>1, <4>2
    <3>3. EzPushOK(p)'
      <4>1. j.todo = EzExprs(j.ips) /\ (~ezTimer[z] => j.ips = ezWant[z])
        BY <1>0, <3>1 DEF EzPushOK
      <4>2. EzWrote(ezRules[z], ezIDs'[z], j.ips, EzExprs(j.ips) \ j.todo)
        BY <4>1 DEF EzWrote
      <4> QED
        BY <1>1, <1>3, <3>2, <4>1, <4>2 DEF EzPushOK
    <3>4. EzSlotsOK(ezRules[z])'
      BY <1>1, <3>1 DEF EzSlotsOK
    <3>5. \A q \in EzPushers \ {p} : ezJob'[q].zone # z
      BY <1>2, <3>1
    <3> QED
      BY <1>3, <2>1, <3>3, <3>4, <3>5, EzThisZone
  <2> QED
    BY <2>2, <2>3
<1> QED
  BY <1>4, <1>5

\* The rules of a zone.
EzRulesOf == [1..EzMaxRules -> EzRuleSet]

\* A rule more.
EzAdds(R, Q, ids, nids, d, c, n) ==
    /\ R \in EzRulesOf /\ Q \in EzRulesOf /\ EzSlotsOK(R)
    /\ n = Cardinality(EzTaken(R)) + 1 /\ n \in 1..EzMaxRules
    /\ d \in EzDescs /\ c \in SUBSET EzIPs /\ c # {}
    /\ \A k \in 1..EzMaxRules : Q[k] = IF k = n THEN [desc |-> d, ips |-> c] ELSE R[k]
    /\ ids \in [EzDescs -> EzIDRange] /\ ids[d] = 0 /\ EzMirror(R, ids)
    /\ nids = [ids EXCEPT ![d] = n]

LEMMA EzRuleAdded ==
    ASSUME NEW R, NEW Q, NEW ids, NEW nids, NEW d, NEW c, NEW n, EzAdds(R, Q, ids, nids, d, c, n)
    PROVE  /\ EzSlotsOK(Q) /\ EzMirror(Q, nids)
           /\ \A e \in EzDescs \ {d} : ids[e] # 0 => Q[ids[e]] = R[ids[e]]
           /\ Q[n].ips = c
<1> USE DEF EzAdds
<1>0. /\ EzTaken(R) \in SUBSET (1..EzMaxRules) /\ IsFiniteSet(EzTaken(R)) /\ Cardinality(EzTaken(R)) \in Nat
      /\ EzMaxRules \in Nat /\ EzDescs \subseteq 1..Cardinality(EzIPs) /\ Cardinality(EzIPs) \in Nat
  <2>1. EzTaken(R) \in SUBSET (1..EzMaxRules) /\ EzMaxRules \in Nat
    BY EzAssumption DEF EzTaken
  <2>2. IsFiniteSet(1..EzMaxRules)
    BY <2>1, FS_Interval
  <2> QED
    BY <2>1, <2>2, EzBounds, FS_Subset, FS_CardinalityType
<1>1. n \notin EzTaken(R)
  <2> DEFINE m == Cardinality(EzTaken(R))
  <2>1. EzTaken(R) = 1..m /\ n = m + 1 /\ m \in Nat
    BY <1>0 DEF EzSlotsOK
  <2> HIDE DEF m
  <2> QED
    BY <2>1
<1>2. R[n].desc = 0 /\ n \notin EzThere(R)
  BY <1>1 DEF EzTaken, EzThere
<1>3. d # 0 /\ Q[n] = [desc |-> d, ips |-> c]
  BY <1>0
<1>4. EzTaken(Q) = EzTaken(R) \cup {n} /\ EzThere(Q) = EzThere(R) \cup {n}
  <2>0. Q[n] # [desc |-> 0, ips |-> {}]
    <3>1. Q[n].desc = d /\ [desc |-> 0, ips |-> {}].desc = 0
      BY <1>3
    <3> QED
      BY <1>3, <3>1
  <2>1. EzTaken(Q) = EzTaken(R) \cup {n}
    BY <2>0 DEF EzTaken
  <2>2. EzThere(Q) = EzThere(R) \cup {n}
    BY <1>3 DEF EzThere
  <2> QED
    BY <2>1, <2>2
<1>5. EzSlotsOK(Q)
  <2>1. Cardinality(EzTaken(Q)) = n
    <3>1. Cardinality(EzTaken(R) \cup {n}) = Cardinality(EzTaken(R)) + 1
      BY <1>0, <1>1, FS_AddElement
    <3> QED
      BY <1>4, <3>1
  <2>2. EzTaken(Q) = 1..n
    <3> DEFINE m == Cardinality(EzTaken(R))
    <3>1. EzTaken(R) = 1..m /\ n = m + 1 /\ m \in Nat
      BY <1>0 DEF EzSlotsOK
    <3> HIDE DEF m
    <3> QED
      BY <1>4, <3>1
  <2>3. \A i \in EzThere(Q) : Q[i].ips # {}
    BY <1>3, <1>4 DEF EzSlotsOK, EzThere
  <2> QED
    BY <2>1, <2>2, <2>3 DEF EzSlotsOK
<1>6. \A e \in EzDescs : ids[e] # 0 => ids[e] \in EzThere(R) /\ ids[e] # n
  <2>1. ASSUME NEW e \in EzDescs, ids[e] # 0 PROVE ids[e] \in EzThere(R)
    <3>0. ids[e] \in EzIDRange /\ ids[e] \in 1..EzMaxRules /\ e # 0
      BY <1>0, <2>1, EzBounds
    <3>1. R[ids[e]].desc = e
      BY <2>1 DEF EzMirror
    <3> QED
      BY <3>0, <3>1 DEF EzThere
  <2> QED
    BY <1>2, <2>1
<1>7. \A e \in EzDescs \ {d} : ids[e] # 0 => Q[ids[e]] = R[ids[e]]
  BY <1>6 DEF EzThere
<1>8. EzMirror(Q, nids)
  <2>1. nids[d] = n /\ \A e \in EzDescs \ {d} : nids[e] = ids[e]
    OBVIOUS
  <2>2. ASSUME NEW e \in EzDescs, nids[e] # 0 PROVE Q[nids[e]].desc = e
    BY <1>3, <1>7, <2>1, <2>2 DEF EzMirror
  <2>3. ASSUME NEW i \in EzThere(Q) PROVE nids[Q[i].desc] = i
    <3>1. CASE i = n
      BY <1>3, <2>1, <3>1
    <3>2. CASE i # n
      <4>1. i \in EzThere(R) /\ Q[i] = R[i] /\ ids[R[i].desc] = i /\ R[i].desc # d /\ i # 0
        BY <1>4, <2>3, <3>2 DEF EzMirror, EzThere
      <4>2. R[i].desc \in EzDescs
        BY <4>1 DEF EzThere, EzRulesOf, EzRuleSet, EzDescs
      <4> QED
        BY <2>1, <4>1, <4>2
    <3> QED
      BY <3>1, <3>2
  <2> QED
    BY <2>2, <2>3 DEF EzMirror
<1> QED
  BY <1>3, <1>5, <1>7, <1>8

\* Two descriptions never share a rule.
LEMMA EzMirrorApart ==
    ASSUME NEW R, NEW ids, EzMirror(R, ids), NEW d \in EzDescs, NEW e \in EzDescs,
           d # e, ids[d] # 0, ids[e] # 0
    PROVE  ids[d] # ids[e]
  BY DEF EzMirror

\* A rule rewritten.
EzRewrites(R, Q, ids, d, c) ==
    /\ R \in EzRulesOf /\ Q \in EzRulesOf /\ EzSlotsOK(R)
    /\ ids \in [EzDescs -> EzIDRange] /\ EzMirror(R, ids)
    /\ d \in EzDescs /\ ids[d] # 0 /\ c \in SUBSET EzIPs /\ c # {}
    /\ \A k \in 1..EzMaxRules : Q[k] = IF k = ids[d] THEN [desc |-> R[ids[d]].desc, ips |-> c] ELSE R[k]

LEMMA EzRulePatched ==
    ASSUME NEW R, NEW Q, NEW ids, NEW d, NEW c, EzRewrites(R, Q, ids, d, c)
    PROVE  /\ EzSlotsOK(Q) /\ EzMirror(Q, ids) /\ Q[ids[d]].ips = c
           /\ \A e \in EzDescs \ {d} : ids[e] # 0 => Q[ids[e]] = R[ids[e]]
<1> USE DEF EzRewrites
<1>1. ids[d] \in 1..EzMaxRules /\ R[ids[d]].desc = d /\ d # 0
  BY EzBounds DEF EzMirror
<1>2. Q[ids[d]] = [desc |-> d, ips |-> c]
  BY <1>1
<1>3. Q[ids[d]].desc = d /\ Q[ids[d]].ips = c
  BY <1>2
<1>4. \A k \in 1..EzMaxRules : Q[k].desc = R[k].desc
  BY <1>1, <1>3
<1>5. EzThere(Q) = EzThere(R)
  BY <1>4 DEF EzThere
<1>6. EzTaken(Q) = EzTaken(R)
  <2>1. Q[ids[d]] # [desc |-> 0, ips |-> {}] /\ R[ids[d]] # [desc |-> 0, ips |-> {}]
    <3>1. [desc |-> 0, ips |-> {}].desc = 0
      OBVIOUS
    <3> QED
      BY <1>1, <1>3, <3>1
  <2> QED
    BY <2>1 DEF EzTaken
<1>7. \A e \in EzDescs : ids[e] # 0 => ids[e] \in 1..EzMaxRules
  BY EzBounds
<1>8. EzSlotsOK(Q)
  BY <1>3, <1>5, <1>6 DEF EzSlotsOK, EzThere
<1>9. EzMirror(Q, ids)
  BY <1>4, <1>5, <1>7 DEF EzMirror, EzThere
<1>10. \A e \in EzDescs \ {d} : ids[e] # 0 => Q[ids[e]] = R[ids[e]]
  BY <1>7, EzMirrorApart
<1> QED
  BY <1>3, <1>8, <1>9, <1>10

\* A rule deleted.
EzErases(R, Q, ids, nids, d) ==
    /\ R \in EzRulesOf /\ Q \in EzRulesOf /\ EzSlotsOK(R)
    /\ ids \in [EzDescs -> EzIDRange] /\ EzMirror(R, ids) /\ d \in EzDescs /\ ids[d] # 0
    /\ nids = [ids EXCEPT ![d] = 0]
    /\ \A k \in 1..EzMaxRules : Q[k] = IF k = ids[d] THEN [desc |-> 0, ips |-> R[ids[d]].ips] ELSE R[k]

LEMMA EzRuleErased ==
    ASSUME NEW R, NEW Q, NEW ids, NEW nids, NEW d, EzErases(R, Q, ids, nids, d)
    PROVE  /\ EzSlotsOK(Q) /\ EzMirror(Q, nids)
           /\ \A e \in EzDescs \ {d} : ids[e] # 0 => Q[ids[e]] = R[ids[e]]
<1> USE DEF EzErases
<1>1. ids[d] \in 1..EzMaxRules /\ R[ids[d]].desc = d /\ d # 0 /\ ids[d] \in EzThere(R)
  BY EzBounds DEF EzMirror, EzThere
<1>2. Q[ids[d]] = [desc |-> 0, ips |-> R[ids[d]].ips]
  BY <1>1
<1>3. Q[ids[d]].desc = 0 /\ Q[ids[d]].ips = R[ids[d]].ips /\ R[ids[d]].ips # {}
  BY <1>1, <1>2 DEF EzSlotsOK
<1>4. EzThere(Q) = EzThere(R) \ {ids[d]}
  BY <1>3 DEF EzThere
<1>5. EzTaken(Q) = EzTaken(R)
  <2>1. Q[ids[d]] # [desc |-> 0, ips |-> {}] /\ R[ids[d]] # [desc |-> 0, ips |-> {}]
    <3>1. [desc |-> 0, ips |-> {}].ips = {}
      OBVIOUS
    <3> QED
      BY <1>3, <3>1
  <2> QED
    BY <2>1 DEF EzTaken
<1>6. \A e \in EzDescs : ids[e] # 0 => ids[e] \in 1..EzMaxRules
  BY EzBounds
<1>7. EzSlotsOK(Q)
  BY <1>4, <1>5 DEF EzSlotsOK, EzThere
<1>8. \A e \in EzDescs \ {d} : ids[e] # 0 => Q[ids[e]] = R[ids[e]]
  BY <1>6, EzMirrorApart
<1>9. EzMirror(Q, nids)
  <2>1. nids[d] = 0 /\ \A e \in EzDescs \ {d} : nids[e] = ids[e]
    BY EzBounds
  <2>2. ASSUME NEW e \in EzDescs, nids[e] # 0 PROVE Q[nids[e]].desc = e
    BY <1>8, <2>1, <2>2 DEF EzMirror
  <2>3. ASSUME NEW i \in EzThere(Q) PROVE nids[Q[i].desc] = i
    <3>1. i \in EzThere(R) /\ i # ids[d] /\ Q[i] = R[i] /\ ids[R[i].desc] = i
      BY <1>4, <2>3 DEF EzMirror, EzThere
    <3>2. R[i].desc \in EzDescs /\ R[i].desc # d
      BY <3>1 DEF EzThere, EzRulesOf, EzRuleSet, EzDescs
    <3> QED
      BY <2>1, <3>1, <3>2
  <2> QED
    BY <2>2, <2>3 DEF EzMirror
<1> QED
  BY <1>7, <1>8, <1>9

\* A rule created is remembered at once, under its description.
LEMMA EzCreateZones ==
    ASSUME EzIndInv, NEW p \in EzPushers, NEW d \in EzDescs, EzCreate(p, d)
    PROVE  \A y \in EzZones : EzZoneOK(y)'
<1> DEFINE j == ezJob[p]
<1>0. PICK z \in EzZones : z = j.zone
  BY EzActing DEF EzCreate, EzIndInv
<1> DEFINE new == Cardinality(EzUsed(z)) + 1
<1>1. j \in EzRecord /\ ezJob \in [EzPushers -> EzRecord] /\ ezIDs \in [EzZones -> [EzDescs -> EzIDRange]]
      /\ j.at = "write" /\ d \in j.todo /\ j.ids[d] = 0 /\ j.ips \in SUBSET EzIPs
      /\ j.ids \in [EzDescs -> EzIDRange] /\ ezRules[z] \in EzRulesOf
  BY EzActing DEF EzCreate, EzIndInv, EzTypeOK, EzRecord, EzRulesOf, EzRuleSet
<1>2. new \in 1..EzMaxRules /\ new \in EzIDRange /\ new # 0
  BY <1>0, EzUsedCount, EzBounds DEF EzCreate
<1>3. /\ ezRules' = [ezRules EXCEPT ![z][new] = [desc |-> d, ips |-> EzChunk(j.ips, d)]]
      /\ ezIDs' = [ezIDs EXCEPT ![z][d] = new]
      /\ ezJob' = [ezJob EXCEPT ![p].todo = @ \ {d}, ![p].ids[d] = new]
      /\ UNCHANGED <<ezWant, ezFound, ezTimer, ezLast>>
  BY <1>0 DEF EzCreate
<1>4. new = Cardinality(EzTaken(ezRules[z])) + 1
  BY EzSameViews
<1> HIDE DEF new
<1>5. [desc |-> d, ips |-> EzChunk(j.ips, d)] \in EzRuleSet /\ EzChunk(j.ips, d) \in SUBSET EzIPs
  BY <1>1, EzChunkType, EzBounds DEF EzRuleSet
<1>6. /\ ezRules'[z] \in EzRulesOf /\ \A y \in EzZones \ {z} : ezRules'[y] = ezRules[y]
      /\ \A k \in 1..EzMaxRules : ezRules'[z][k] =
            IF k = new THEN [desc |-> d, ips |-> EzChunk(j.ips, d)] ELSE ezRules[z][k]
  <2> DEFINE r == [desc |-> d, ips |-> EzChunk(j.ips, d)]
  <2>1. EzTypeOK
    BY DEF EzIndInv
  <2>2. r \in EzRuleSet /\ ezRules' = [ezRules EXCEPT ![z][new] = r]
    BY <1>3, <1>5
  <2> HIDE DEF r
  <2>3. /\ ezRules' \in [EzZones -> [1..EzMaxRules -> EzRuleSet]]
        /\ \A y \in EzZones \ {z} : ezRules'[y] = ezRules[y]
        /\ \A k \in 1..EzMaxRules : ezRules'[z][k] = IF k = new THEN r ELSE ezRules[z][k]
    BY <1>0, <1>2, <2>1, <2>2, EzPutType
  <2> QED
    BY <1>0, <2>3 DEF r, EzRulesOf
<1>7. ezJob'[p].at = "write" /\ ezJob'[p].zone = z /\ ezJob'[p].ips = j.ips
      /\ ezJob'[p].ids = [j.ids EXCEPT ![d] = new] /\ ezJob'[p].todo = j.todo \ {d}
      /\ \A q \in EzPushers \ {p} : ezJob'[q] = ezJob[q]
  BY <1>0, <1>1, <1>3 DEF EzRecord
<1>8. ezIDs'[z] = [ezIDs[z] EXCEPT ![d] = new] /\ \A y \in EzZones \ {z} : ezIDs'[y] = ezIDs[y]
  BY <1>1, <1>3
<1>9. \A y \in EzZones \ {z} : EzZoneOK(y)'
  BY <1>0, <1>3, <1>6, <1>7, <1>8, EzOtherZones
<1>10. EzZoneOK(z)'
  <2>1. ezFound'[z]
    BY <1>0, <1>1, <1>3 DEF EzIndInv, EzJobOK
  <2>2. CASE ezLast[z] = "lost"
    BY <1>3, <1>7, <2>1, <2>2, EzThisZone
  <2>3. CASE ezLast[z] # "lost"
    <3>1. EzPushOK(p) /\ EzSlotsOK(ezRules[z]) /\ \A q \in EzPushers : q # p => ezJob[q].zone # z
      BY <1>0, <2>3, EzAlone DEF EzIndInv
    <3>2. /\ EzMirror(ezRules[z], j.ids) /\ j.ids = ezIDs[z] /\ (~ezTimer[z] => j.ips = ezWant[z])
          /\ EzWrote(ezRules[z], j.ids, j.ips, EzExprs(j.ips) \ j.todo)
      BY <1>0, <1>1, <3>1 DEF EzPushOK
    <3>3. EzChunk(j.ips, d) # {} /\ d \in EzExprs(j.ips) /\ EzExprs(j.ips) \subseteq EzDescs
      BY <1>1 DEF EzIndInv, EzJobOK, EzExprs
    <3>4. /\ EzSlotsOK(ezRules'[z]) /\ EzMirror(ezRules'[z], [j.ids EXCEPT ![d] = new])
          /\ \A e \in EzDescs \ {d} : j.ids[e] # 0 => ezRules'[z][j.ids[e]] = ezRules[z][j.ids[e]]
          /\ ezRules'[z][new].ips = EzChunk(j.ips, d)
      <4>1. EzAdds(ezRules[z], ezRules'[z], j.ids, [j.ids EXCEPT ![d] = new], d, EzChunk(j.ips, d), new)
        BY <1>1, <1>2, <1>4, <1>5, <1>6, <3>1, <3>2, <3>3 DEF EzAdds
      <4> QED
        BY <4>1, EzRuleAdded
    <3>5. EzWrote(ezRules'[z], [j.ids EXCEPT ![d] = new], j.ips, EzExprs(j.ips) \ (j.todo \ {d}))
      <4>1. ASSUME NEW e \in EzExprs(j.ips) \ (j.todo \ {d})
            PROVE  [j.ids EXCEPT ![d] = new][e] # 0
                   /\ ezRules'[z][[j.ids EXCEPT ![d] = new][e]].ips = EzChunk(j.ips, e)
        <5>1. CASE e = d
          <6>1. [j.ids EXCEPT ![d] = new][e] = new
            BY <1>1, <5>1
          <6> QED
            BY <1>2, <3>4, <5>1, <6>1
        <5>2. CASE e # d
          <6>1. e \in EzDescs \ {d} /\ [j.ids EXCEPT ![d] = new][e] = j.ids[e]
            BY <1>1, <3>3, <4>1, <5>2
          <6>2. j.ids[e] # 0 /\ ezRules[z][j.ids[e]].ips = EzChunk(j.ips, e)
            BY <3>2, <4>1, <5>2 DEF EzWrote
          <6> QED
            BY <3>4, <6>1, <6>2
        <5> QED
          BY <5>1, <5>2
      <4> QED
        BY <4>1 DEF EzWrote
    <3>6. EzPushOK(p)'
      BY <1>3, <1>7, <1>8, <3>2, <3>4, <3>5 DEF EzPushOK
    <3>7. EzSlotsOK(ezRules[z])'
      BY <3>4 DEF EzSlotsOK
    <3>8. \A q \in EzPushers \ {p} : ezJob'[q].zone # z
      BY <1>7, <3>1
    <3> QED
      BY <1>7, <2>1, <3>6, <3>7, <3>8, EzThisZone
  <2> QED
    BY <2>2, <2>3
<1> QED
  BY <1>9, <1>10

\* A rule patched holds its expression of the new blocklist.
LEMMA EzPatchZones ==
    ASSUME EzIndInv, NEW p \in EzPushers, NEW d \in EzDescs, EzPatch(p, d)
    PROVE  \A y \in EzZones : EzZoneOK(y)'
<1> DEFINE j == ezJob[p]
<1>0. PICK z \in EzZones : z = j.zone
  BY EzActing DEF EzPatch, EzIndInv
<1>1. j \in EzRecord /\ ezJob \in [EzPushers -> EzRecord]
      /\ j.at = "write" /\ d \in j.todo /\ j.ids[d] # 0 /\ j.ips \in SUBSET EzIPs
      /\ j.ids \in [EzDescs -> EzIDRange] /\ ezRules[z] \in EzRulesOf
  BY EzActing DEF EzPatch, EzIndInv, EzTypeOK, EzRecord, EzRulesOf, EzRuleSet
<1>2. j.ids[d] \in 1..EzMaxRules
  BY <1>1, EzBounds
<1>3. /\ ezRules' = [ezRules EXCEPT ![z][j.ids[d]].ips = EzChunk(j.ips, d)]
      /\ ezJob' = [ezJob EXCEPT ![p].todo = @ \ {d}]
      /\ UNCHANGED <<ezWant, ezIDs, ezFound, ezTimer, ezLast>>
  BY <1>0 DEF EzPatch, ezState
<1>5. EzChunk(j.ips, d) \in SUBSET EzIPs
  BY <1>1, EzChunkType
<1>6. /\ ezRules'[z] \in EzRulesOf /\ \A y \in EzZones \ {z} : ezRules'[y] = ezRules[y]
      /\ \A k \in 1..EzMaxRules : ezRules'[z][k] =
            IF k = j.ids[d] THEN [desc |-> ezRules[z][j.ids[d]].desc, ips |-> EzChunk(j.ips, d)] ELSE ezRules[z][k]
  <2>1. EzEdits(z, j.ids[d], EzChunk(j.ips, d))
    BY <1>0, <1>2, <1>3, <1>5 DEF EzEdits, EzIndInv
  <2> QED
    BY <1>0, <2>1, EzEditType DEF EzRulesOf
<1>7. ezJob'[p].at = "write" /\ ezJob'[p].zone = z /\ ezJob'[p].ips = j.ips
      /\ ezJob'[p].ids = j.ids /\ ezJob'[p].todo = j.todo \ {d}
      /\ \A q \in EzPushers \ {p} : ezJob'[q] = ezJob[q]
  BY <1>0, <1>1, <1>3 DEF EzRecord
<1>9. \A y \in EzZones \ {z} : EzZoneOK(y)'
  BY <1>0, <1>3, <1>6, <1>7, EzOtherZones
<1>10. EzZoneOK(z)'
  <2>1. ezFound'[z]
    BY <1>0, <1>1, <1>3 DEF EzIndInv, EzJobOK
  <2>2. CASE ezLast[z] = "lost"
    BY <1>3, <1>7, <2>1, <2>2, EzThisZone
  <2>3. CASE ezLast[z] # "lost"
    <3>1. EzPushOK(p) /\ EzSlotsOK(ezRules[z]) /\ \A q \in EzPushers : q # p => ezJob[q].zone # z
      BY <1>0, <2>3, EzAlone DEF EzIndInv
    <3>2. /\ EzMirror(ezRules[z], j.ids) /\ j.ids = ezIDs[z] /\ (~ezTimer[z] => j.ips = ezWant[z])
          /\ EzWrote(ezRules[z], j.ids, j.ips, EzExprs(j.ips) \ j.todo)
      BY <1>0, <1>1, <3>1 DEF EzPushOK
    <3>3. EzChunk(j.ips, d) # {} /\ d \in EzExprs(j.ips) /\ EzExprs(j.ips) \subseteq EzDescs
      BY <1>1 DEF EzIndInv, EzJobOK, EzExprs
    <3>4. /\ EzSlotsOK(ezRules'[z]) /\ EzMirror(ezRules'[z], j.ids)
          /\ \A e \in EzDescs \ {d} : j.ids[e] # 0 => ezRules'[z][j.ids[e]] = ezRules[z][j.ids[e]]
          /\ ezRules'[z][j.ids[d]].ips = EzChunk(j.ips, d)
      <4>1. EzRewrites(ezRules[z], ezRules'[z], j.ids, d, EzChunk(j.ips, d))
        BY <1>1, <1>5, <1>6, <3>1, <3>2, <3>3 DEF EzRewrites
      <4> QED
        BY <4>1, EzRulePatched
    <3>5. EzWrote(ezRules'[z], j.ids, j.ips, EzExprs(j.ips) \ (j.todo \ {d}))
      <4>1. ASSUME NEW e \in EzExprs(j.ips) \ (j.todo \ {d})
            PROVE  j.ids[e] # 0 /\ ezRules'[z][j.ids[e]].ips = EzChunk(j.ips, e)
        <5>1. CASE e = d
          BY <1>1, <3>4, <5>1
        <5>2. CASE e # d
          BY <3>2, <3>3, <3>4, <4>1, <5>2 DEF EzWrote
        <5> QED
          BY <5>1, <5>2
      <4> QED
        BY <4>1 DEF EzWrote
    <3>6. EzPushOK(p)'
      BY <1>3, <1>7, <3>2, <3>4, <3>5 DEF EzPushOK
    <3>7. EzSlotsOK(ezRules[z])'
      BY <3>4 DEF EzSlotsOK
    <3>8. \A q \in EzPushers \ {p} : ezJob'[q].zone # z
      BY <1>7, <3>1
    <3> QED
      BY <1>7, <2>1, <3>6, <3>7, <3>8, EzThisZone
  <2> QED
    BY <2>2, <2>3
<1> QED
  BY <1>9, <1>10

\* The invariant of a push that deletes, over its next record.
LEMMA EzDeletesOK ==
    ASSUME NEW p \in EzPushers, NEW z, ezJob'[p].zone = z, ezJob'[p].at = "delete",
           ~ezTimer'[z] => ezJob'[p].ips = ezWant'[z],
           EzMirror(ezRules'[z], EzLeft(ezJob'[p])),
           EzWrote(ezRules'[z], ezJob'[p].ids, ezJob'[p].ips, EzExprs(ezJob'[p].ips)),
           ezIDs'[z] = IF ezJob'[p].ips = {} THEN EzLeft(ezJob'[p]) ELSE ezJob'[p].ids
    PROVE  EzPushOK(p)'
  BY DEF EzPushOK, EzLeft, EzWrote, EzMirror

\* Every expression is written before the first rule is deleted.
LEMMA EzWrittenZones ==
    ASSUME EzIndInv, NEW p \in EzPushers, EzWritten(p)
    PROVE  \A y \in EzZones : EzZoneOK(y)'
<1> DEFINE j == ezJob[p]
<1>0. PICK z \in EzZones : z = j.zone
  BY EzActing DEF EzWritten, EzIndInv
<1>1. j \in EzRecord /\ ezJob \in [EzPushers -> EzRecord]
      /\ j.at = "write" /\ j.todo = {} /\ j.ids \in [EzDescs -> EzIDRange]
  BY EzActing DEF EzWritten, EzIndInv, EzTypeOK, EzRecord
<1>2. /\ ezJob' = [ezJob EXCEPT ![p].at = "delete", ![p].todo = {d \in EzDescs : j.ids[d] # 0} \ EzExprs(j.ips)]
      /\ UNCHANGED <<ezRules, ezWant, ezIDs, ezFound, ezTimer, ezLast>>
  BY DEF EzWritten, ezState
<1>3. ezJob'[p].at = "delete" /\ ezJob'[p].zone = z /\ ezJob'[p].ips = j.ips /\ ezJob'[p].ids = j.ids
      /\ ezJob'[p].todo = {d \in EzDescs : j.ids[d] # 0} \ EzExprs(j.ips)
      /\ \A q \in EzPushers \ {p} : ezJob'[q] = ezJob[q]
  BY <1>0, <1>1, <1>2 DEF EzRecord
<1>4. \A y \in EzZones \ {z} : EzZoneOK(y)'
  BY <1>0, <1>2, <1>3, EzOtherZones
<1>5. EzZoneOK(z)'
  <2>1. ezFound'[z]
    BY <1>0, <1>1, <1>2 DEF EzIndInv, EzJobOK
  <2>2. CASE ezLast[z] = "lost"
    BY <1>2, <1>3, <2>1, <2>2, EzThisZone
  <2>3. CASE ezLast[z] # "lost"
    <3>1. EzPushOK(p) /\ EzSlotsOK(ezRules[z]) /\ \A q \in EzPushers : q # p => ezJob[q].zone # z
      BY <1>0, <2>3, EzAlone DEF EzIndInv
    <3>2. /\ EzMirror(ezRules[z], j.ids) /\ j.ids = ezIDs[z] /\ (~ezTimer[z] => j.ips = ezWant[z])
          /\ EzWrote(ezRules[z], j.ids, j.ips, EzExprs(j.ips) \ j.todo)
      BY <1>0, <1>1, <3>1 DEF EzPushOK
    <3>3. EzLeft(ezJob'[p]) = j.ids
      <4>1. EzLeft(ezJob'[p]) = [d \in EzDescs |-> IF d \in EzExprs(j.ips) \cup ({e \in EzDescs : j.ids[e] # 0} \ EzExprs(j.ips)) THEN j.ids[d] ELSE 0]
        BY <1>3 DEF EzLeft
      <4> QED
        BY <1>1, <4>1
    <3>4. EzWrote(ezRules[z], j.ids, j.ips, EzExprs(j.ips))
      BY <1>1, <3>2 DEF EzWrote
    <3>5. /\ ezJob'[p].zone = z /\ (~ezTimer'[z] => ezJob'[p].ips = ezWant'[z])
          /\ EzMirror(ezRules'[z], EzLeft(ezJob'[p])) /\ EzWrote(ezRules'[z], ezJob'[p].ids, ezJob'[p].ips, EzExprs(ezJob'[p].ips))
          /\ ezIDs'[z] = IF ezJob'[p].ips = {} THEN EzLeft(ezJob'[p]) ELSE ezJob'[p].ids
      BY <1>2, <1>3, <3>2, <3>3, <3>4
    <3>6. EzPushOK(p)'
      BY <1>3, <3>5, EzDeletesOK
    <3>7. EzSlotsOK(ezRules[z])'
      BY <1>2, <3>1 DEF EzSlotsOK
    <3>8. \A q \in EzPushers \ {p} : ezJob'[q].zone # z
      BY <1>3, <3>1
    <3> QED
      BY <1>3, <2>1, <3>6, <3>7, <3>8, EzThisZone
  <2> QED
    BY <2>2, <2>3
<1> QED
  BY <1>4, <1>5

\* A rule deleted is one the new blocklist does not need.
LEMMA EzDeleteZones ==
    ASSUME EzIndInv, NEW p \in EzPushers, NEW d \in EzDescs, EzDelete(p, d)
    PROVE  \A y \in EzZones : EzZoneOK(y)'
<1> DEFINE j == ezJob[p]
<1>0. PICK z \in EzZones : z = j.zone
  BY EzActing DEF EzDelete, EzIndInv
<1>1. j \in EzRecord /\ ezJob \in [EzPushers -> EzRecord] /\ ezIDs \in [EzZones -> [EzDescs -> EzIDRange]]
      /\ j.at = "delete" /\ d \in j.todo /\ j.todo \in SUBSET EzDescs
      /\ j.ids \in [EzDescs -> EzIDRange] /\ ezRules[z] \in EzRulesOf
  BY EzActing DEF EzDelete, EzIndInv, EzTypeOK, EzRecord, EzRulesOf, EzRuleSet
<1>2. j.ids[d] # 0 /\ d \notin EzExprs(j.ips) /\ EzExprs(j.ips) \subseteq EzDescs
  BY <1>1 DEF EzIndInv, EzJobOK, EzExprs
<1>3. j.ids[d] \in 1..EzMaxRules
  BY <1>1, <1>2, EzBounds
<1>4. /\ ezRules' = [ezRules EXCEPT ![z][j.ids[d]].desc = 0]
      /\ ezIDs' = (IF j.ips = {} THEN [ezIDs EXCEPT ![z][d] = 0] ELSE ezIDs)
      /\ ezJob' = [ezJob EXCEPT ![p].todo = @ \ {d}]
      /\ UNCHANGED <<ezWant, ezFound, ezTimer, ezLast>>
  BY <1>0 DEF EzDelete
<1>5. /\ ezRules'[z] \in EzRulesOf /\ \A y \in EzZones \ {z} : ezRules'[y] = ezRules[y]
      /\ \A k \in 1..EzMaxRules : ezRules'[z][k] =
            IF k = j.ids[d] THEN [desc |-> 0, ips |-> ezRules[z][j.ids[d]].ips] ELSE ezRules[z][k]
  <2>1. EzClears(z, j.ids[d])
    BY <1>0, <1>3, <1>4 DEF EzClears, EzIndInv
  <2> QED
    BY <1>0, <2>1, EzEraseType DEF EzRulesOf
<1>6. ezJob'[p].at = "delete" /\ ezJob'[p].zone = z /\ ezJob'[p].ips = j.ips
      /\ ezJob'[p].ids = j.ids /\ ezJob'[p].todo = j.todo \ {d}
      /\ \A q \in EzPushers \ {p} : ezJob'[q] = ezJob[q]
  BY <1>0, <1>1, <1>4 DEF EzRecord
<1>7. \A y \in EzZones \ {z} : ezIDs'[y] = ezIDs[y]
  BY <1>1, <1>4
<1>8. \A y \in EzZones \ {z} : EzZoneOK(y)'
  BY <1>0, <1>4, <1>5, <1>6, <1>7, EzOtherZones
<1>9. EzZoneOK(z)'
  <2>1. ezFound'[z]
    BY <1>0, <1>1, <1>4 DEF EzIndInv, EzJobOK
  <2>2. CASE ezLast[z] = "lost"
    BY <1>4, <1>6, <2>1, <2>2, EzThisZone
  <2>3. CASE ezLast[z] # "lost"
    <3>1. EzPushOK(p) /\ EzSlotsOK(ezRules[z]) /\ \A q \in EzPushers : q # p => ezJob[q].zone # z
      BY <1>0, <2>3, EzAlone DEF EzIndInv
    <3>2. /\ EzMirror(ezRules[z], EzLeft(j)) /\ (~ezTimer[z] => j.ips = ezWant[z])
          /\ EzWrote(ezRules[z], j.ids, j.ips, EzExprs(j.ips))
          /\ ezIDs[z] = IF j.ips = {} THEN EzLeft(j) ELSE j.ids
      BY <1>0, <1>1, <3>1 DEF EzPushOK
    <3>3. EzLeft(j) \in [EzDescs -> EzIDRange] /\ EzLeft(j)[d] = j.ids[d]
          /\ \A e \in EzExprs(j.ips) : EzLeft(j)[e] = j.ids[e]
      BY <1>1, <1>2, EzBounds DEF EzLeft
    <3>4. EzLeft(ezJob'[p]) = [EzLeft(j) EXCEPT ![d] = 0]
      BY <1>1, <1>2, <1>6 DEF EzLeft
    <3>5. /\ EzSlotsOK(ezRules'[z]) /\ EzMirror(ezRules'[z], EzLeft(ezJob'[p]))
          /\ \A e \in EzDescs \ {d} : EzLeft(j)[e] # 0 => ezRules'[z][EzLeft(j)[e]] = ezRules[z][EzLeft(j)[e]]
      <4>1. EzErases(ezRules[z], ezRules'[z], EzLeft(j), EzLeft(ezJob'[p]), d)
        BY <1>1, <1>2, <1>5, <3>1, <3>2, <3>3, <3>4 DEF EzErases
      <4> QED
        BY <4>1, EzRuleErased
    <3>6. EzWrote(ezRules'[z], j.ids, j.ips, EzExprs(j.ips))
      <4>1. ASSUME NEW e \in EzExprs(j.ips)
            PROVE  j.ids[e] # 0 /\ ezRules'[z][j.ids[e]].ips = EzChunk(j.ips, e)
        <5>1. e \in EzDescs \ {d} /\ EzLeft(j)[e] = j.ids[e]
          BY <1>2, <3>3
        <5>2. j.ids[e] # 0 /\ ezRules[z][j.ids[e]].ips = EzChunk(j.ips, e)
          BY <3>2 DEF EzWrote
        <5> QED
          BY <3>5, <5>1, <5>2
      <4> QED
        BY <4>1 DEF EzWrote
    <3>7. ezIDs'[z] = IF j.ips = {} THEN EzLeft(ezJob'[p]) ELSE j.ids
      BY <1>1, <1>4, <3>2, <3>4
    <3>8. EzPushOK(p)'
      <4>1. /\ ~ezTimer'[z] => ezJob'[p].ips = ezWant'[z]
            /\ EzWrote(ezRules'[z], ezJob'[p].ids, ezJob'[p].ips, EzExprs(ezJob'[p].ips))
            /\ ezIDs'[z] = IF ezJob'[p].ips = {} THEN EzLeft(ezJob'[p]) ELSE ezJob'[p].ids
        BY <1>4, <1>6, <3>2, <3>6, <3>7
      <4> QED
        BY <1>6, <3>5, <4>1, EzDeletesOK
    <3>9. EzSlotsOK(ezRules[z])'
      BY <3>5 DEF EzSlotsOK
    <3>10. \A q \in EzPushers \ {p} : ezJob'[q].zone # z
      BY <1>6, <3>1
    <3> QED
      BY <1>6, <2>1, <3>8, <3>9, <3>10, EzThisZone
  <2> QED
    BY <2>2, <2>3
<1> QED
  BY <1>8, <1>9

\* The zone of a push that ends.
LEMMA EzEndZone ==
    ASSUME NEW p \in EzPushers, NEW z \in EzZones, EzZoneOK(z), ezJob[p].zone = z,
           ezJob'[p] = EzNoJob, \A q \in EzPushers \ {p} : ezJob'[q] = ezJob[q],
           ezFound'[z] <=> ezFound[z], ~ezFound[z] => EzThere(ezRules'[z]) = {},
           ezLast'[z] = "lost" \/ (ezLast[z] # "lost" /\ EzSlotsOK(ezRules'[z]) /\ EzRestOK(z)')
    PROVE  EzZoneOK(z)'
<1>1. ezJob'[p].zone # z
  BY EzNoJobIs, EzAssumption
<1>2. CASE ezLast'[z] = "lost"
  BY <1>2 DEF EzZoneOK
<1>3. CASE ezLast'[z] # "lost"
  <2>1. ezLast[z] # "lost" /\ EzSlotsOK(ezRules'[z]) /\ EzRestOK(z)'
    BY <1>3
  <2>2. \A q \in EzPushers : ezJob'[q].zone # z
    BY <1>1, <2>1, EzAlone
  <2>3. EzSlotsOK(ezRules[z])'
    BY <2>1 DEF EzSlotsOK
  <2> QED
    BY <2>1, <2>2, <2>3 DEF EzZoneOK
<1> QED
  BY <1>2, <1>3

\* The invariant of a zone at rest, over the next state.
LEMMA EzRestIs ==
    ASSUME NEW z, EzMirror(ezRules'[z], ezIDs'[z]),
           (~ezTimer'[z] /\ ezLast'[z] = "ok") =>
               /\ EzWrote(ezRules'[z], ezIDs'[z], ezWant'[z], EzExprs(ezWant'[z]))
               /\ \A d \in EzDescs : ezIDs'[z][d] # 0 => d \in EzExprs(ezWant'[z])
    PROVE  EzRestOK(z)'
  BY DEF EzRestOK, EzWrote, EzMirror

\* The end of the push forgets the IDs it deleted, and no other.
LEMMA EzPushedZones ==
    ASSUME EzIndInv, NEW p \in EzPushers, EzPushed(p)
    PROVE  \A y \in EzZones : EzZoneOK(y)'
<1> DEFINE j == ezJob[p]
<1>0. PICK z \in EzZones : z = j.zone
  BY EzActing DEF EzPushed, EzIndInv
<1>1. j \in EzRecord /\ ezJob \in [EzPushers -> EzRecord] /\ ezIDs \in [EzZones -> [EzDescs -> EzIDRange]]
      /\ j.at = "delete" /\ j.todo = {} /\ j.ids \in [EzDescs -> EzIDRange]
      /\ ezLast \in [EzZones -> {"ok", "retry", "lost"}] /\ EzExprs(j.ips) \subseteq EzDescs
  BY EzActing DEF EzPushed, EzIndInv, EzTypeOK, EzRecord, EzExprs
<1> DEFINE kept == [d \in EzDescs |-> IF d \in EzExprs(j.ips) THEN j.ids[d] ELSE 0]
<1>2. /\ ezIDs' = (IF j.ips = {} THEN ezIDs ELSE [ezIDs EXCEPT ![z] = kept])
      /\ ezJob' = [ezJob EXCEPT ![p] = EzNoJob]
      /\ ezLast' = [ezLast EXCEPT ![z] = IF @ = "lost" THEN @ ELSE "ok"]
      /\ UNCHANGED <<ezRules, ezWant, ezFound, ezTimer>>
  BY <1>0 DEF EzPushed
<1>3. EzLeft(j) = kept
  BY <1>1 DEF EzLeft
<1> HIDE DEF kept
<1>4. ezJob'[p] = EzNoJob /\ ezJob'[p].zone = 0 /\ \A q \in EzPushers \ {p} : ezJob'[q] = ezJob[q]
  BY <1>1, <1>2, EzNoJobIs
<1>5. \A y \in EzZones \ {z} : ezIDs'[y] = ezIDs[y] /\ ezLast'[y] = ezLast[y]
  BY <1>1, <1>2
<1>6. \A y \in EzZones \ {z} : EzZoneOK(y)'
  BY <1>0, <1>2, <1>4, <1>5, EzOtherZones
<1>7. EzZoneOK(z)'
  <2>1. EzZoneOK(z) /\ (~ezFound[z] => EzThere(ezRules'[z]) = {})
    BY <1>2 DEF EzIndInv, EzZoneOK
  <2>2. CASE ezLast[z] = "lost"
    <3>1. ezLast'[z] = "lost"
      BY <1>1, <1>2, <2>2
    <3> QED
      BY <1>0, <1>2, <1>4, <2>1, <3>1, EzEndZone
  <2>3. CASE ezLast[z] # "lost"
    <3>1. EzPushOK(p) /\ EzSlotsOK(ezRules[z])
      BY <1>0, <2>3, EzAlone DEF EzIndInv
    <3>2. /\ EzMirror(ezRules[z], kept) /\ (~ezTimer[z] => j.ips = ezWant[z])
          /\ EzWrote(ezRules[z], j.ids, j.ips, EzExprs(j.ips))
          /\ ezIDs[z] = IF j.ips = {} THEN kept ELSE j.ids
      BY <1>0, <1>1, <1>3, <3>1 DEF EzPushOK
    <3>3. ezIDs'[z] = kept
      BY <1>1, <1>2, <3>2
    <3>4. \A d \in EzDescs : kept[d] = IF d \in EzExprs(j.ips) THEN j.ids[d] ELSE 0
      BY DEF kept
    <3>5. EzWrote(ezRules[z], kept, j.ips, EzExprs(j.ips))
      BY <1>1, <3>2, <3>4 DEF EzWrote
    <3>6. EzMirror(ezRules'[z], ezIDs'[z])
      BY <1>2, <3>2, <3>3
    <3>7. ~ezTimer'[z] => /\ EzWrote(ezRules'[z], ezIDs'[z], ezWant'[z], EzExprs(ezWant'[z]))
                          /\ \A d \in EzDescs : ezIDs'[z][d] # 0 => d \in EzExprs(ezWant'[z])
      BY <1>2, <3>2, <3>3, <3>4, <3>5
    <3>8. EzRestOK(z)'
      BY <3>6, <3>7, EzRestIs
    <3> QED
      BY <1>0, <1>2, <1>4, <2>1, <2>3, <3>1, <3>8, EzEndZone
  <2> QED
    BY <2>2, <2>3
<1> QED
  BY <1>6, <1>7

\* A failed call leaves the IDs exact unless a reply was lost or a deletion
\* begun over a blocklist that is not empty; the next push finds them so.
LEMMA EzFailsZones ==
    ASSUME EzIndInv, NEW p \in EzPushers, EzFails(p)
    PROVE  \A y \in EzZones : EzZoneOK(y)'
<1> DEFINE j == ezJob[p]
<1>0. j.at # "none"
  BY DEF EzFails, EzIndInv, EzJobOK
<1>00. PICK z \in EzZones : z = j.zone
  BY <1>0, EzActing DEF EzIndInv
<1>1. j \in EzRecord /\ ezJob \in [EzPushers -> EzRecord] /\ ezRules \in [EzZones -> EzRulesOf]
      /\ j.at \in {"discover", "write", "delete"} /\ j.todo \in SUBSET EzDescs /\ j.ids \in [EzDescs -> EzIDRange]
      /\ j.ips \in SUBSET EzIPs /\ ezLast \in [EzZones -> {"ok", "retry", "lost"}]
  BY <1>0, EzActing DEF EzIndInv, EzTypeOK, EzRecord, EzRulesOf, EzRuleSet
<1> DEFINE forgotten == j.at = "delete" /\ j.ips # {} /\ j.todo # {d \in EzDescs : j.ids[d] # 0} \ EzExprs(j.ips)
           patched == j.at = "write" /\ \A d \in j.todo : j.ids[d] # 0
<1>2. /\ ezJob' = [ezJob EXCEPT ![p] = EzNoJob]
      /\ ezLast' = [ezLast EXCEPT ![z] = IF @ = "lost" \/ forgotten \/ (ezRules' # ezRules /\ ~patched)
                                         THEN "lost" ELSE "retry"]
      /\ UNCHANGED <<ezWant, ezIDs, ezFound, ezTimer>>
  BY <1>00 DEF EzFails, ezState
<1>3. \/ UNCHANGED ezRules
      \/ /\ j.at = "delete"
         /\ \E d \in j.todo : ezRules' = [ezRules EXCEPT ![z][j.ids[d]].desc = 0]
      \/ /\ j.at = "write" /\ \E d \in j.todo : ezRules' =
               IF j.ids[d] = 0
               THEN [ezRules EXCEPT ![z][Cardinality(EzUsed(z)) + 1] = [desc |-> d, ips |-> EzChunk(j.ips, d)]]
               ELSE [ezRules EXCEPT ![z][j.ids[d]].ips = EzChunk(j.ips, d)]
  BY <1>00 DEF EzFails
<1>4. ezJob'[p] = EzNoJob /\ ezJob'[p].zone = 0 /\ \A q \in EzPushers \ {p} : ezJob'[q] = ezJob[q]
  BY <1>1, <1>2, EzNoJobIs
<1>5. \A y \in EzZones \ {z} : ezRules'[y] = ezRules[y] /\ ezLast'[y] = ezLast[y]
  <2>1. \A y \in EzZones \ {z} : ezLast'[y] = ezLast[y]
    BY <1>1, <1>2
  <2>2. \A y \in EzZones \ {z} : ezRules'[y] = ezRules[y]
    <3>1. CASE UNCHANGED ezRules
      BY <3>1
    <3>2. CASE \E d \in j.todo : ezRules' = [ezRules EXCEPT ![z][j.ids[d]].desc = 0]
      BY <1>1, <3>2
    <3>3. CASE \E d \in j.todo : ezRules' =
               IF j.ids[d] = 0
               THEN [ezRules EXCEPT ![z][Cardinality(EzUsed(z)) + 1] = [desc |-> d, ips |-> EzChunk(j.ips, d)]]
               ELSE [ezRules EXCEPT ![z][j.ids[d]].ips = EzChunk(j.ips, d)]
      BY <1>1, <3>3
    <3> QED
      BY <1>3, <3>1, <3>2, <3>3
  <2> QED
    BY <2>1, <2>2
<1>6. \A y \in EzZones \ {z} : EzZoneOK(y)'
  BY <1>00, <1>2, <1>4, <1>5, EzOtherZones
<1>7. EzZoneOK(z)'
  <2>1. EzZoneOK(z) /\ (~ezFound[z] => EzThere(ezRules'[z]) = {})
    <3>1. EzZoneOK(z) /\ (~ezFound[z] => EzThere(ezRules[z]) = {})
      BY DEF EzIndInv, EzZoneOK
    <3>2. ~ezFound[z] => j.at = "discover"
      BY <1>00, <1>1 DEF EzIndInv, EzJobOK
    <3> QED
      BY <1>3, <3>1, <3>2
  <2>2. CASE ezLast'[z] = "lost"
    BY <1>00, <1>2, <1>4, <2>1, <2>2, EzEndZone
  <2>3. CASE ezLast'[z] # "lost"
    <3>1. /\ ezLast[z] # "lost" /\ ~forgotten /\ (ezRules' = ezRules \/ patched) /\ ezLast'[z] = "retry"
      BY <1>1, <1>2, <2>3
    <3>2. EzPushOK(p) /\ EzSlotsOK(ezRules[z])
      BY <1>00, <3>1, EzAlone DEF EzIndInv
    <3>3. EzMirror(ezRules[z], ezIDs[z])
      <4>1. CASE j.at \in {"discover", "write"}
        BY <1>00, <3>2, <4>1 DEF EzPushOK
      <4>2. CASE j.at = "delete"
        <5>1. /\ EzMirror(ezRules[z], EzLeft(j)) /\ ezIDs[z] = IF j.ips = {} THEN EzLeft(j) ELSE j.ids
          BY <1>00, <3>2, <4>2 DEF EzPushOK
        <5>2. CASE j.ips = {}
          BY <5>1, <5>2
        <5>3. CASE j.ips # {}
          <6>1. j.todo = {d \in EzDescs : j.ids[d] # 0} \ EzExprs(j.ips)
            BY <3>1, <4>2, <5>3
          <6>2. EzLeft(j) = j.ids
            BY <1>1, <6>1 DEF EzLeft
          <6> QED
            BY <5>1, <5>3, <6>2
        <5> QED
          BY <5>2, <5>3
      <4> QED
        BY <1>1, <4>1, <4>2
    <3>4. EzSlotsOK(ezRules'[z]) /\ EzMirror(ezRules'[z], ezIDs[z])
      <4>1. CASE ezRules' = ezRules
        BY <3>2, <3>3, <4>1
      <4>2. CASE ezRules' # ezRules
        <5>1. patched
          BY <3>1, <4>2
        <5>2. PICK d \in j.todo : ezRules' = [ezRules EXCEPT ![z][j.ids[d]].ips = EzChunk(j.ips, d)]
          BY <1>3, <4>2, <5>1
        <5>3. j.ids[d] # 0 /\ j.ids[d] \in 1..EzMaxRules /\ d \in EzDescs
          <6>1. d \in EzDescs /\ j.ids[d] # 0
            BY <1>1, <5>1
          <6>2. j.ids[d] \in EzIDRange
            BY <1>1, <6>1
          <6> QED
            BY <6>1, <6>2, EzBounds
        <5>4. EzChunk(j.ips, d) # {} /\ EzChunk(j.ips, d) \in SUBSET EzIPs
          <6>1. d \in EzExprs(j.ips)
            BY <5>1 DEF EzIndInv, EzJobOK
          <6> QED
            BY <1>1, <6>1, EzChunkType DEF EzExprs
        <5>5. EzEdits(z, j.ids[d], EzChunk(j.ips, d))
          BY <5>2, <5>3, <5>4 DEF EzEdits, EzIndInv
        <5>6. /\ ezRules'[z] \in EzRulesOf /\ ezRules[z] \in EzRulesOf
              /\ \A k \in 1..EzMaxRules : ezRules'[z][k] =
                    IF k = j.ids[d] THEN [desc |-> ezRules[z][j.ids[d]].desc, ips |-> EzChunk(j.ips, d)] ELSE ezRules[z][k]
          <6>1. ezRules' \in [EzZones -> EzRulesOf]
            BY <5>5, EzEditType DEF EzRulesOf
          <6>2. ezRules'[z] \in EzRulesOf /\ ezRules[z] \in EzRulesOf
            BY <1>1, <6>1
          <6>3. \A k \in 1..EzMaxRules : ezRules'[z][k] =
                    IF k = j.ids[d] THEN [desc |-> ezRules[z][j.ids[d]].desc, ips |-> EzChunk(j.ips, d)] ELSE ezRules[z][k]
            BY <5>5, EzEditType
          <6> QED
            BY <6>2, <6>3
        <5>7. ezIDs[z] = j.ids
          BY <1>00, <3>2, <5>1 DEF EzPushOK
        <5>8. EzRewrites(ezRules[z], ezRules'[z], j.ids, d, EzChunk(j.ips, d))
          BY <1>1, <3>2, <3>3, <5>3, <5>4, <5>6, <5>7 DEF EzRewrites
        <5> QED
          BY <5>7, <5>8, EzRulePatched
      <4> QED
        BY <4>1, <4>2
    <3>5. EzRestOK(z)'
      <4>1. EzMirror(ezRules'[z], ezIDs'[z]) /\ ezLast'[z] # "ok"
        BY <1>2, <3>1, <3>4
      <4> QED
        BY <4>1, EzRestIs
    <3> QED
      BY <1>00, <1>2, <1>4, <2>1, <3>1, <3>4, <3>5, EzEndZone
  <2> QED
    BY <2>2, <2>3
<1> QED
  BY <1>6, <1>7

\* Nothing pushed, nothing there.
LEMMA EzInitial == EzInit => EzIndInv
<1> USE EzAssumption, EzBounds
<1> SUFFICES ASSUME EzInit PROVE EzIndInv
  OBVIOUS
<1>1. EzTypeOK
  <2>1. ezRules \in [EzZones -> [1..EzMaxRules -> EzRuleSet]]
    BY DEF EzInit, EzRuleSet
  <2>2. ezJob \in [EzPushers -> EzRecord]
    BY EzNoJobIs DEF EzInit
  <2> QED
    BY <2>1, <2>2 DEF EzInit, EzTypeOK, EzRuleSet, EzRecord
<1>2. \A p \in EzPushers : EzJobOK(p) /\ ezJob[p].zone = 0
  BY EzNoJobIs DEF EzInit, EzJobOK
<1>3. ASSUME NEW z \in EzZones PROVE EzZoneOK(z)
  <2>1. \A i \in 1..EzMaxRules : ezRules[z][i] = [desc |-> 0, ips |-> {}]
    BY DEF EzInit
  <2>2. EzThere(ezRules[z]) = {} /\ EzTaken(ezRules[z]) = {}
    BY <2>1 DEF EzThere, EzTaken
  <2>3. EzSlotsOK(ezRules[z])
    <3>1. Cardinality({}) = 0
      BY FS_EmptySet
    <3> QED
      BY <2>2, <3>1 DEF EzSlotsOK
  <2>4. EzRestOK(z)
    BY <2>2 DEF EzInit, EzRestOK, EzMirror
  <2> QED
    BY <1>2, <2>2, <2>3, <2>4 DEF EzZoneOK
<1> QED
  BY <1>1, <1>2, <1>3 DEF EzIndInv

\* Every step keeps the inductive invariant.
LEMMA EzStep == EzIndInv /\ [EzNext]_ezVars => EzIndInv'
<1> SUFFICES ASSUME EzIndInv, [EzNext]_ezVars PROVE EzIndInv'
  OBVIOUS
<1>0. /\ EzTypeOK /\ (\A p \in EzPushers : EzJobOK(p)) /\ (\A z \in EzZones : EzZoneOK(z))
      /\ \A z \in EzZones : ~ezFound[z] => EzThere(ezRules[z]) = {}
  BY DEF EzIndInv, EzZoneOK
<1>1. CASE (\E ip \in EzIPs : EzBan(ip) \/ EzUnban(ip)) \/ (\E want \in SUBSET EzIPs : EzSync(want))
  BY <1>0, <1>1, EzCallType, EzCallZones DEF EzIndInv
<1>2. CASE EzSyncZone
  <2>1. ezTodo # {} /\ ezTodo \subseteq EzZones /\ ezTodo \in SUBSET Nat
    BY <1>0, <1>2, EzAssumption DEF EzSyncZone, EzTypeOK
  <2>2. PICK z \in EzZones : z = Min(ezTodo)
    BY <2>1, EzMinIs
  <2>3. /\ EzStart("sync", z, ezGoal) /\ ezTodo' = ezTodo \ {z} /\ ezTimer' = [ezTimer EXCEPT ![z] = FALSE]
        /\ ezWant' = [ezWant EXCEPT ![z] = ezGoal]
        /\ UNCHANGED <<ezRules, ezIDs, ezFound, ezGoal, ezChanges, ezFaults>>
    BY <1>2, <2>2 DEF EzSyncZone
  <2>4. ezGoal \in SUBSET EzIPs /\ "sync" \in EzPushers /\ ezWant \in [EzZones -> SUBSET EzIPs]
        /\ ezTimer \in [EzZones -> BOOLEAN]
    BY <1>0 DEF EzTypeOK, EzPushers
  <2>5. /\ ezJob' \in [EzPushers -> EzRecord] /\ ezLast' \in [EzZones -> {"ok", "retry", "lost"}]
        /\ \A q \in EzPushers : EzJobOK(q)'
    BY <1>0, <2>3, <2>4, EzStartType
  <2>6. ezWant' \in [EzZones -> SUBSET EzIPs] /\ ezTimer' \in [EzZones -> BOOLEAN] /\ ezTodo' \subseteq EzZones
    BY <2>1, <2>3, <2>4
  <2>7. EzTypeOK'
    BY <1>0, <2>3, <2>5, <2>6 DEF EzTypeOK, EzRecord
  <2>8. ezWant'[z] = ezGoal /\ \A y \in EzZones \ {z} : ezWant'[y] = ezWant[y]
    BY <2>3, <2>4
  <2>9. \A y \in EzZones : EzZoneOK(y)'
    BY <2>3, <2>4, <2>8, EzStartZones
  <2> QED
    BY <2>5, <2>7, <2>9 DEF EzIndInv
<1>3. CASE \E z \in EzZones : EzDebounce(z)
  <2>1. PICK z \in EzZones : EzDebounce(z)
    BY <1>3
  <2>2. /\ EzStart("timer", z, ezWant[z]) /\ ezTimer' = [ezTimer EXCEPT ![z] = FALSE]
        /\ UNCHANGED <<ezRules, ezWant, ezIDs, ezFound, ezTodo, ezGoal, ezChanges, ezFaults>>
    BY <2>1 DEF EzDebounce, ezCall
  <2>3. ezWant[z] \in SUBSET EzIPs /\ "timer" \in EzPushers /\ ezTimer \in [EzZones -> BOOLEAN]
    BY <1>0 DEF EzTypeOK, EzPushers
  <2>4. /\ ezJob' \in [EzPushers -> EzRecord] /\ ezLast' \in [EzZones -> {"ok", "retry", "lost"}]
        /\ \A q \in EzPushers : EzJobOK(q)'
    BY <1>0, <2>2, <2>3, EzStartType
  <2>5. ezTimer' \in [EzZones -> BOOLEAN]
    BY <2>2, <2>3
  <2>6. EzTypeOK'
    BY <1>0, <2>2, <2>4, <2>5 DEF EzTypeOK, EzRecord
  <2>7. \A y \in EzZones : EzZoneOK(y)'
    BY <2>2, <2>3, EzStartZones
  <2> QED
    BY <2>4, <2>6, <2>7 DEF EzIndInv
<1>4. ASSUME NEW p \in EzPushers, EzPush(p) PROVE EzIndInv'
  <2>1. CASE EzDiscover(p)
    BY <1>0, <2>1, EzDiscoverType, EzDiscoverZones DEF EzIndInv
  <2>2. CASE EzWritten(p)
    BY <1>0, <2>2, EzWrittenType, EzWrittenZones DEF EzIndInv
  <2>3. CASE EzPushed(p)
    BY <1>0, <2>3, EzPushedType, EzPushedZones DEF EzIndInv
  <2>4. CASE EzFails(p)
    BY <1>0, <2>4, EzFailsType, EzFailsZones DEF EzIndInv
  <2>5. ASSUME NEW d \in EzDescs, EzCreate(p, d) PROVE EzIndInv'
    BY <1>0, <2>5, EzCreateType, EzCreateZones DEF EzIndInv
  <2>6. ASSUME NEW d \in EzDescs, EzPatch(p, d) PROVE EzIndInv'
    BY <1>0, <2>6, EzPatchType, EzPatchZones DEF EzIndInv
  <2>7. ASSUME NEW d \in EzDescs, EzDelete(p, d) PROVE EzIndInv'
    BY <1>0, <2>7, EzDeleteType, EzDeleteZones DEF EzIndInv
  <2> QED
    BY <1>4, <2>1, <2>2, <2>3, <2>4, <2>5, <2>6, <2>7 DEF EzPush
<1>5. CASE UNCHANGED ezVars
  <2>1. UNCHANGED <<ezRules, ezWant, ezIDs, ezFound, ezTimer, ezJob, ezTodo, ezGoal, ezLast, ezChanges, ezFaults>>
    BY <1>5 DEF ezVars, ezState, ezCall
  <2>2. EzTypeOK' /\ \A p \in EzPushers : EzJobOK(p)'
    BY <1>0, <2>1 DEF EzTypeOK, EzJobOK
  <2>3. ASSUME NEW z \in EzZones PROVE EzZoneOK(z)'
    BY <1>0, <2>1, EzFrame
  <2> QED
    BY <2>2, <2>3 DEF EzIndInv
<1> QED
  BY <1>1, <1>2, <1>3, <1>4, <1>5 DEF EzNext

\* A zone at rest holds one rule of each description, with its addresses.
LEMMA EzExact == EzIndInv => EzZoneExact
<1> SUFFICES ASSUME EzIndInv, NEW z \in EzZones,
                    EzBusy(z) = {}, ~ezTimer[z], ezFound[z], ezLast[z] = "ok"
             PROVE  /\ EzBlocked(z) = ezWant[z]
                    /\ Cardinality(EzLive(z)) = Cardinality(EzExprs(ezWant[z]))
  BY DEF EzZoneExact
<1> DEFINE D == EzExprs(ezWant[z])  L == EzThere(ezRules[z])
<1>1. EzRestOK(z) /\ EzLive(z) = L /\ EzSlotsOK(ezRules[z])
  BY EzSameViews DEF EzIndInv, EzZoneOK, EzBusy
<1>2. /\ ezRules[z] \in [1..EzMaxRules -> EzRuleSet] /\ ezIDs[z] \in [EzDescs -> EzIDRange]
      /\ ezWant[z] \in SUBSET EzIPs /\ D \subseteq EzDescs
  BY DEF EzIndInv, EzTypeOK, EzRuleSet, EzExprs
<1>3. /\ \A d \in EzDescs : ezIDs[z][d] # 0 => ezRules[z][ezIDs[z][d]].desc = d
      /\ \A i \in L : ezIDs[z][ezRules[z][i].desc] = i
      /\ \A d \in D : ezIDs[z][d] # 0 /\ ezRules[z][ezIDs[z][d]].ips = EzChunk(ezWant[z], d)
      /\ \A d \in EzDescs : ezIDs[z][d] # 0 => d \in D
  BY <1>1 DEF EzRestOK, EzMirror, EzWrote
<1>4. \A d \in D : ezIDs[z][d] \in L
  <2>1. ASSUME NEW d \in D PROVE ezIDs[z][d] \in L
    <3>0. d \in EzDescs /\ ezIDs[z][d] # 0
      BY <1>2, <1>3
    <3>1. d # 0 /\ ezIDs[z][d] \in EzIDRange
      BY <1>2, <3>0, EzBounds
    <3>2. ezIDs[z][d] \in 1..EzMaxRules /\ ezRules[z][ezIDs[z][d]].desc # 0
      BY <1>3, <3>0, <3>1, EzBounds
    <3> QED
      BY <3>2 DEF EzThere
  <2> QED
    BY <2>1
<1>5. \A i \in L : ezRules[z][i].desc \in D /\ ezIDs[z][ezRules[z][i].desc] = i
  <2>1. ASSUME NEW i \in L PROVE ezRules[z][i].desc \in D
    <3>0. i \in 1..EzMaxRules /\ ezRules[z][i].desc # 0
      BY DEF EzThere
    <3>3. ezRules[z][i] \in EzRuleSet
      BY <1>2, <3>0
    <3>1. ezRules[z][i].desc \in 0..Cardinality(EzIPs) /\ i # 0
      BY <3>0, <3>3, EzBounds DEF EzRuleSet
    <3>2. ezRules[z][i].desc \in EzDescs
      BY <3>0, <3>1, EzBounds DEF EzDescs
    <3> QED
      BY <1>3, <3>1, <3>2
  <2> QED
    BY <1>3, <2>1
<1>6. EzBlocked(z) = ezWant[z]
  <2>1. UNION {EzChunk(ezWant[z], d) : d \in D} = ezWant[z]
    BY <1>2, EzChunksCover
  <2>2. {ezRules[z][i].ips : i \in L} = {EzChunk(ezWant[z], d) : d \in D}
    BY <1>3, <1>4, <1>5
  <2>3. EzBlocked(z) = UNION {ezRules[z][i].ips : i \in L}
    BY <1>1 DEF EzBlocked
  <2> QED
    BY <2>1, <2>2, <2>3
<1>7. Cardinality(L) = Cardinality(D)
  <2> DEFINE f == [d \in D |-> ezIDs[z][d]]
  <2>1. f \in Bijection(D, L)
    <3>1. f \in [D -> L]
      BY <1>4
    <3>2. \A a, b \in D : f[a] = f[b] => a = b
      BY <1>2, <1>3
    <3>3. \A i \in L : \E d \in D : f[d] = i
      BY <1>5
    <3> QED
      BY <3>1, <3>2, <3>3, Fun_IsBij
  <2>2. IsFiniteSet(D)
    <3>1. IsFiniteSet(EzDescs)
      BY EzBounds, FS_Interval DEF EzDescs
    <3> QED
      BY <1>2, <3>1, FS_Subset
  <2>3. ExistsBijection(D, L)
    BY <2>1 DEF ExistsBijection
  <2> QED
    BY <2>2, <2>3, FS_Bijection
<1> QED
  BY <1>1, <1>6, <1>7

\* The IDs mirror every zone whose pushes never overlapped and that lost no
\* reply, through splits, shrinking, emptying and failing calls
\* (CloudflareEnforcer.pushZone).
THEOREM EzInvariant == EzSpec => []EzIndInv
<1>1. EzInit => EzIndInv
  BY EzInitial
<1>2. EzIndInv /\ [EzNext]_ezVars => EzIndInv'
  BY EzStep
<1> QED
  BY <1>1, <1>2, PTL DEF EzSpec

\* A zone with no push to come and the last one successful blocks exactly the
\* addresses wanted there, one rule for each expression: EzInv, for any
\* addresses, zones, rule size and number of changes and failures.
THEOREM EzZonesAreExact == EzSpec => []EzInv
<1>1. EzIndInv => EzInv
  BY EzExact DEF EzInv, EzIndInv
<1> QED
  BY <1>1, EzInvariant, PTL

---------------------------------------------------------------------------
(* The edge wizard (EdgeSetup).                                            *)

\* An account the wizard can hold: a label and the variable of a token.
CdModes == {"lists", "rulesets"}
CdLabels == CdNames \cup {""}
CdAccts == [name : CdLabels, var : Range(CdVar), mode : CdModes, zones : SUBSET CdZones]

\* The record of a run.
CdHands == [name : CdLabels, var : Range(CdVar) \cup {"none"}, mode : CdModes \cup {"none"}, zones : SUBSET CdZones]
CdKinds == {"idle", "init", "config"}
CdDetections == SUBSET CdProviders
CdTodos == Seq(CdEdges)
CdAcctSeqs == Seq(CdAccts)
CdEdgeSets == SUBSET CdEdges
CdTellings == SUBSET (CdEdges \cup {"manual", "zones", "warning"})
CdRuns == [kind : CdKinds, at : CdAts, detected : CdDetections, todo : CdTodos, accts : CdAcctSeqs, acct : CdHands,
           all : BOOLEAN, redo : BOOLEAN, target : CdLabels, attempted : CdEdgeSets, enabled : CdEdgeSets,
           told : CdTellings]

\* The account of config.yaml stays when run r merges its first account: a
\* redone account is replaced.
CdStays(r, a) == r.redo => a.name # r.target

\* Labels differ, and variables too, within a run.
CdApart(accts) ==
    \A i, j \in DOMAIN accts : i # j => accts[i].name # accts[j].name /\ accts[i].var # accts[j].var

\* What is proven of an account: its list exists, or it has zones.
CdFit(a, list) ==
    /\ a.mode = "lists" => list
    /\ a.mode = "rulesets" => a.zones # {}

\* config.yaml and .env.
CdFileOK ==
    /\ cdCfg \in CdAcctSeqs /\ cdSaved \in CdEdgeSets /\ cdList \in BOOLEAN /\ cdRules \subseteq CdZones
    /\ cdCount \in 0 .. CdMaxRuns /\ DOMAIN cdTokens = Range(CdVar)
    /\ \A i \in DOMAIN cdCfg : CdFit(cdCfg[i], cdList) /\ cdTokens[cdCfg[i].var] # "none"
    /\ CdDistinct

\* An account without a label stands alone, as the first one ever, or is redone.
CdAlone(r) == IF r.redo THEN r.target = "" ELSE cdCfg = <<>>

\* The accounts kept in a run, against those config.yaml holds.
CdFresh(r, list) ==
    /\ CdApart(r.accts) /\ (r.redo => cdCfg # <<>>)
    /\ \A i \in DOMAIN r.accts :
         /\ CdFit(r.accts[i], list)
         /\ r.accts[i].name = "" => i = 1 /\ CdAlone(r)
         /\ \A j \in DOMAIN cdCfg : CdStays(r, cdCfg[j]) => r.accts[i].var # cdCfg[j].var
         /\ i = 1 /\ r.redo => r.accts[i].name = r.target
CdAdding == {"name", "fields", "token", "probe", "preflight", "rollout", "keep"}
CdKept(r, list) ==
    /\ Len(r.accts) <= CdMaxAccts
    /\ \A i \in DOMAIN r.accts : r.accts[i].mode = "lists" /\ r.accts[i].zones = {} => "manual" \in r.told
    /\ r.at # "done" => CdFresh(r, list)
    /\ r.at \in CdAdding => Len(r.accts) < CdMaxAccts /\ (~r.redo /\ r.accts # <<>> => r.accts[1].name # "")
    /\ r.at = "another" => r.accts # <<>> /\ (~r.redo /\ r.accts[1].name = "" => Len(r.accts) = 1)

\* The account in hand, step by step.
CdNamed(r) ==
    /\ r.acct.var \in Range(CdVar) /\ r.acct.name \notin CdNames1(r.accts)
    /\ r.acct.name = "" => r.accts = <<>> /\ CdAlone(r)
    /\ r.redo /\ r.accts = <<>> => r.acct.name = r.target
CdReserved(r) ==
    /\ r.acct.mode \in CdModes /\ r.acct.var \notin CdVars1(r.accts)
    /\ \A j \in DOMAIN cdCfg : CdStays(r, cdCfg[j]) => r.acct.var # cdCfg[j].var
CdHand(r, list) ==
    /\ r.at \in CdAdding \ {"name"} => CdNamed(r)
    /\ r.at \in CdAdding \ {"name", "fields"} => CdReserved(r)
    /\ r.at \in {"probe", "preflight", "rollout", "keep"} => (r.acct.mode = "rulesets" => r.acct.zones # {} /\ ~r.all)
    /\ r.at = "rollout" => r.acct.mode = "lists"
    /\ r.at \in {"rollout", "keep"} => (r.acct.mode = "lists" => list)
    /\ r.at = "keep" => (r.acct.mode = "lists" /\ r.acct.zones = {} => "manual" \in r.told)

\* What was asked for is enabled, told, or under way; Cloudflare is asked
\* first, and so never after an account was kept.
CdSubflow(at) == IF at \in {"bunny", "aws"} THEN {at}
                 ELSE IF at \in {"idle", "edges", "merge", "done"} THEN {} ELSE {"cloudflare"}
CdOnce(r) == \A i \in DOMAIN r.todo : r.todo[i] = "cloudflare" => i = 1 /\ r.at = "edges" /\ r.accts = <<>>
CdTrack(r) == r.attempted \subseteq r.enabled \cup r.told \cup CdSubflow(r.at) /\ CdOnce(r)

CdGood(r, list) == CdKept(r, list) /\ CdHand(r, list) /\ CdTrack(r)
CdIndInv == CdFileOK /\ cdRun \in CdRuns /\ CdGood(cdRun, cdList)

\* The bounds are numbers.
LEMMA CdBounds == CdMaxRuns \in Nat /\ CdMaxAccts \in Nat \ {0}
BY CdAssumption

\* No account kept, nothing to prove.
LEMMA CdEmptyKept ==
    ASSUME NEW r, NEW l, r.accts = <<>>, r.redo => cdCfg # <<>>, r.at # "another"
    PROVE  CdKept(r, l)
<1>1. DOMAIN r.accts = {} /\ Len(r.accts) = 0 OBVIOUS
<1>2. CdFresh(r, l) BY <1>1 DEF CdFresh, CdApart
<1>. DEFINE n == Len(r.accts)
<1>3. CdMaxAccts \in Nat \ {0} /\ n = 0 BY <1>1, CdBounds
<1>. HIDE DEF n
<1>4. n <= CdMaxAccts /\ n < CdMaxAccts BY <1>3
<1>. QED BY <1>1, <1>2, <1>4 DEF CdKept, n

\* No run in progress.
LEMMA CdIdleGood == ASSUME NEW l \in BOOLEAN PROVE CdIdle \in CdRuns /\ CdGood(CdIdle, l)
<1>1. CdNoAcct \in CdHands BY DEF CdNoAcct, CdHands, CdLabels
<1>2. <<>> \in CdTodos /\ <<>> \in CdAcctSeqs BY DEF CdTodos, CdAcctSeqs
<1>3. {} \in CdDetections /\ {} \in CdEdgeSets /\ {} \in CdTellings BY DEF CdDetections, CdEdgeSets, CdTellings
<1>4. "idle" \in CdKinds /\ "idle" \in CdAts /\ "" \in CdLabels BY DEF CdKinds, CdAts, CdLabels
<1>5. CdIdle \in CdRuns BY <1>1, <1>2, <1>3, <1>4 DEF CdRuns, CdIdle
<1>6. CdKept(CdIdle, l)
  <2>1. CdIdle.accts = <<>> /\ CdIdle.at = "idle" /\ ~CdIdle.redo BY DEF CdIdle
  <2>. QED BY <2>1, CdEmptyKept
<1>7. CdHand(CdIdle, l) BY DEF CdHand, CdAdding, CdIdle
<1>8. CdTrack(CdIdle)
  <2>1. CdIdle.todo = <<>> /\ CdIdle.attempted = {} BY DEF CdIdle
  <2>. QED BY <2>1 DEF CdTrack, CdOnce
<1>. QED BY <1>5, <1>6, <1>7, <1>8 DEF CdGood

\* A step that leaves config.yaml and .env alone.
LEMMA CdStep ==
    ASSUME CdIndInv, NEW r \in CdRuns, NEW l \in BOOLEAN, cdList => l, CdGood(r, l),
           cdRun' = r, cdList' = l, UNCHANGED cdFiles, cdRules' \subseteq CdZones, cdCount' \in 0 .. CdMaxRuns
    PROVE  CdIndInv'
<1>1. CdFileOK'
  <2>1. \A i \in DOMAIN cdCfg : CdFit(cdCfg[i], l) BY DEF CdIndInv, CdFileOK, CdFit
  <2>. QED BY <2>1 DEF CdIndInv, CdFileOK, cdFiles, CdDistinct, CdFit
<1>2. CdKept(r, l)' <=> CdKept(r, l)
  BY DEF cdFiles, CdKept, CdFresh, CdApart, CdAlone, CdStays, CdFit
<1>3. CdHand(r, l)' <=> CdHand(r, l)
  BY DEF cdFiles, CdHand, CdNamed, CdReserved, CdAlone, CdStays
<1>4. CdGood(cdRun, cdList)' BY <1>2, <1>3 DEF CdGood, CdTrack
<1>. QED BY <1>1, <1>4 DEF CdIndInv

\* As long as the accounts kept are the same ones, they stay as good.
LEMMA CdFreshFrame ==
    ASSUME NEW r, NEW s, NEW l \in BOOLEAN, NEW m \in BOOLEAN, l => m, CdFresh(r, l),
           s.accts = r.accts, s.redo = r.redo, s.target = r.target
    PROVE  CdFresh(s, m)
<1>1. CdAlone(s) <=> CdAlone(r) BY DEF CdAlone
<1>2. \A a : CdFit(a, l) => CdFit(a, m) BY DEF CdFit
<1>3. \A a : CdStays(s, a) <=> CdStays(r, a) BY DEF CdStays
<1>4. \A i \in DOMAIN s.accts :
         /\ CdFit(s.accts[i], m)
         /\ s.accts[i].name = "" => i = 1 /\ CdAlone(s)
         /\ \A j \in DOMAIN cdCfg : CdStays(s, cdCfg[j]) => s.accts[i].var # cdCfg[j].var
         /\ i = 1 /\ s.redo => s.accts[i].name = s.target
  BY <1>1, <1>2, <1>3 DEF CdFresh
<1>5. CdApart(s.accts) /\ (s.redo => cdCfg # <<>>) BY DEF CdFresh
<1>. QED BY <1>4, <1>5 DEF CdFresh

\* A step that keeps no account and loses none.
LEMMA CdKeptFrame ==
    ASSUME NEW r \in CdRuns, NEW s \in CdRuns, NEW l \in BOOLEAN, NEW m \in BOOLEAN, l => m, CdKept(r, l),
           r.at # "done", s.accts = r.accts, s.redo = r.redo, s.target = r.target, r.told \subseteq s.told,
           s.at # "another", s.at \in CdAdding => r.at \in CdAdding
    PROVE  CdKept(s, m)
<1>1. CdFresh(r, l) BY DEF CdKept
<1>2. CdFresh(s, m) BY <1>1, CdFreshFrame
<1>. QED BY <1>2 DEF CdKept

\* No account in hand, nothing to prove.
LEMMA CdQuietHand == ASSUME NEW r, NEW l, r.at \notin CdAdding \ {"name"} PROVE CdHand(r, l)
BY DEF CdHand, CdAdding

\* A subflow that ends says so, or has enabled its enforcer.
LEMMA CdLeft ==
    ASSUME NEW r \in CdRuns, NEW l \in BOOLEAN, CdKept(r, l), r.at # "done", NEW edge \in CdEdges,
           CdOnce(r), r.at # "edges", r.attempted \subseteq r.enabled \cup r.told \cup {edge}
    PROVE  CdLeave(r, edge) \in CdRuns /\ CdGood(CdLeave(r, edge), l)
<1>. DEFINE s == CdLeave(r, edge)
           at == IF r.kind = "config" THEN "merge" ELSE "edges"
           told == IF edge \in r.enabled THEN r.told ELSE r.told \cup {edge}
<1>1. CdNoAcct \in CdHands BY DEF CdNoAcct, CdHands, CdLabels
<1>2. at \in CdAts BY DEF CdAts
<1>3. told \in CdTellings BY DEF CdTellings, CdRuns
<1>4. s = [r EXCEPT !.at = at, !.acct = CdNoAcct, !.told = told] BY DEF CdLeave
<1>. HIDE DEF at, told, s
<1>5. s \in CdRuns BY <1>1, <1>2, <1>3, <1>4 DEF CdRuns
<1>6. /\ s.at = at /\ s.accts = r.accts /\ s.redo = r.redo /\ s.target = r.target /\ s.told = told
      /\ s.attempted = r.attempted /\ s.enabled = r.enabled /\ s.todo = r.todo
  BY <1>4 DEF CdRuns
<1>7. at \in {"merge", "edges"} BY DEF at
<1>8. r.told \subseteq told BY DEF told
<1>9. CdKept(s, l) BY <1>5, <1>6, <1>7, <1>8, CdKeptFrame DEF CdAdding
<1>10. CdHand(s, l) BY <1>6, <1>7, CdQuietHand DEF CdAdding
<1>11. CdTrack(s)
  <2>1. r.attempted \subseteq r.enabled \cup told BY DEF told
  <2>. QED BY <2>1, <1>6 DEF CdTrack, CdOnce
<1>. QED BY <1>5, <1>9, <1>10, <1>11 DEF CdGood, s

\* A run ends, or is interrupted.
LEMMA CdKilledStep == ASSUME CdIndInv, CdGo(CdIdle) PROVE CdIndInv'
BY CdStep, CdIdleGood DEF CdGo, cdCloud, CdIndInv, CdFileOK

\* runCDNStep.
LEMMA CdStartInitStep == ASSUME CdIndInv, NEW d \in SUBSET CdProviders, CdStartInit(d) PROVE CdIndInv'
<1>. DEFINE todo == CdOffered(d)
            r == [CdIdle EXCEPT !.kind = "init", !.at = "edges", !.detected = d, !.todo = todo]
<1>1. todo \in CdTodos /\ \A i \in DOMAIN todo : todo[i] = "cloudflare" => i = 1
  <2>. DEFINE one == IF "cloudflare" \in d THEN <<"cloudflare">> ELSE <<>>
              two == IF "bunny" \in d THEN <<"bunny">> ELSE <<>>
  <2>a. <<>> \in Seq(CdEdges) /\ <<"cloudflare">> \in Seq(CdEdges) /\ <<"bunny">> \in Seq(CdEdges) BY DEF CdEdges
  <2>1. one \in Seq(CdEdges) /\ two \in Seq(CdEdges) BY <2>a
  <2>2. Len(one) <= 1 /\ Len(two) <= 1 /\ \A i \in 1 .. Len(two) : two[i] = "bunny" OBVIOUS
  <2>. HIDE DEF one, two
  <2>3. one \o two \in Seq(CdEdges) /\ \A i \in DOMAIN (one \o two) : (one \o two)[i] = "cloudflare" => i = 1
    BY <2>1, <2>2
  <2>4. CASE d = {}
    <3>1. todo = <<"cloudflare", "bunny", "aws">> BY <2>4 DEF CdOffered
    <3>. QED BY <3>1 DEF CdTodos, CdEdges
  <2>5. CASE d # {}
    <3>1. todo = one \o two BY <2>5 DEF CdOffered, one, two
    <3>. QED BY <3>1, <2>3 DEF CdTodos
  <2>. QED BY <2>4, <2>5
<1>2. "init" \in CdKinds /\ "edges" \in CdAts /\ d \in CdDetections BY DEF CdKinds, CdAts, CdDetections
<1>. HIDE DEF todo
<1>3. CdIdle \in CdRuns BY CdIdleGood
<1>4. r \in CdRuns BY <1>1, <1>2, <1>3 DEF CdRuns
<1>5. r.accts = <<>> /\ ~r.redo /\ r.at = "edges" /\ r.attempted = {} /\ r.todo = todo BY DEF CdIdle
<1>. HIDE DEF r
<1>6. CdKept(r, cdList) BY <1>5, CdEmptyKept
<1>7. CdHand(r, cdList) BY <1>5, CdQuietHand DEF CdAdding
<1>8. CdTrack(r) BY <1>1, <1>5 DEF CdTrack, CdOnce
<1>9. cdRun' = r /\ UNCHANGED <<cdFiles, cdCloud>> /\ cdCount' = cdCount + 1 /\ cdCount < CdMaxRuns
  BY DEF CdStartInit, CdStart, r, todo
<1>10. cdCount' \in 0 .. CdMaxRuns BY <1>9, CdBounds DEF CdIndInv, CdFileOK
<1>. QED BY <1>4, <1>6, <1>7, <1>8, <1>9, <1>10, CdStep DEF cdCloud, CdGood, CdIndInv, CdFileOK

\* pickCFReconfigureTarget: the account to redo is one of config.yaml.
LEMMA CdStartConfigStep ==
    ASSUME CdIndInv, NEW redo \in BOOLEAN, NEW t \in CdLabels, CdStartConfig(redo, t) PROVE CdIndInv'
<1>. DEFINE r == [CdIdle EXCEPT !.kind = "config", !.at = "name", !.attempted = {"cloudflare"},
                                !.redo = redo, !.target = t]
<1>2. "config" \in CdKinds /\ "name" \in CdAts /\ {"cloudflare"} \in CdEdgeSets BY DEF CdKinds, CdAts, CdEdgeSets, CdEdges
<1>3. CdIdle \in CdRuns BY CdIdleGood
<1>4. r \in CdRuns BY <1>2, <1>3 DEF CdRuns
<1>5. r.accts = <<>> /\ r.redo = redo /\ r.at = "name" /\ r.attempted = {"cloudflare"} /\ r.todo = <<>> BY DEF CdIdle
<1>. HIDE DEF r
<1>a. redo => cdCfg # <<>> BY DEF CdStartConfig, CdNames1
<1>6. CdKept(r, cdList) BY <1>5, <1>a, CdEmptyKept
<1>7. CdHand(r, cdList) BY <1>5, CdQuietHand DEF CdAdding
<1>8. CdTrack(r) BY <1>5 DEF CdTrack, CdSubflow, CdOnce
<1>9. cdRun' = r /\ UNCHANGED <<cdFiles, cdCloud>> /\ cdCount' = cdCount + 1 /\ cdCount < CdMaxRuns
  BY DEF CdStartConfig, CdStart, r
<1>10. cdCount' \in 0 .. CdMaxRuns BY <1>9, CdBounds DEF CdIndInv, CdFileOK
<1>. QED BY <1>4, <1>6, <1>7, <1>8, <1>9, <1>10, CdStep DEF cdCloud, CdGood, CdIndInv, CdFileOK

\* A step of the run alone.
LEMMA CdGoStep == ASSUME CdIndInv, NEW r \in CdRuns, CdGood(r, cdList), CdGo(r) PROVE CdIndInv'
BY CdStep DEF CdGo, cdCloud, CdIndInv, CdFileOK

\* runGenericEdgeSubflows: Cloudflare is asked before any account is kept.
LEMMA CdAskEdgeStep == ASSUME CdIndInv, NEW yes \in BOOLEAN, CdAskEdge(yes) PROVE CdIndInv'
<1>. DEFINE e == Head(cdRun.todo)
            todo == Tail(cdRun.todo)
            r == [cdRun EXCEPT !.todo = todo]
            att == cdRun.attempted \cup {e}
            at == IF e = "cloudflare" THEN "name" ELSE e
            s == [r EXCEPT !.attempted = att, !.at = at]
<1>1. cdRun.at = "edges" /\ cdRun.todo # <<>> /\ cdRun \in CdRuns /\ CdKept(cdRun, cdList) /\ CdTrack(cdRun)
  BY DEF CdAskEdge, CdIndInv, CdGood
<1>2. /\ e \in CdEdges /\ todo \in CdTodos /\ e = cdRun.todo[1] /\ 1 \in DOMAIN cdRun.todo
      /\ \A i \in DOMAIN todo : todo[i] = cdRun.todo[i + 1] /\ i + 1 \in DOMAIN cdRun.todo /\ i \in Nat \ {0}
  <2>1. cdRun.todo \in Seq(CdEdges) BY <1>1 DEF CdRuns, CdTodos
  <2>. QED BY <2>1, <1>1 DEF CdTodos
<1>e. \A i \in DOMAIN todo : todo[i] # "cloudflare" BY <1>1, <1>2 DEF CdTrack, CdOnce
<1>3. att \in CdEdgeSets BY <1>1, <1>2 DEF CdRuns, CdEdgeSets
<1>4. at \in {"name", "bunny", "aws"} BY <1>2 DEF CdEdges
<1>5. at \in CdAts BY <1>4 DEF CdAts
<1>6. CdSubflow(at) = {e} BY <1>2 DEF CdEdges, CdSubflow
<1>7. CdGo(IF yes THEN s ELSE r) BY DEF CdAskEdge
<1>. HIDE DEF e, todo, att, at
<1>8. r \in CdRuns BY <1>1, <1>2 DEF CdRuns
<1>9. s \in CdRuns BY <1>8, <1>3, <1>5 DEF CdRuns
<1>10. /\ r.at = "edges" /\ r.accts = cdRun.accts /\ r.redo = cdRun.redo /\ r.target = cdRun.target
       /\ r.told = cdRun.told /\ r.attempted = cdRun.attempted /\ r.enabled = cdRun.enabled
       /\ r.todo = todo
  BY <1>1 DEF CdRuns
<1>11. /\ s.at = at /\ s.accts = r.accts /\ s.redo = r.redo /\ s.target = r.target
       /\ s.told = r.told /\ s.attempted = att /\ s.enabled = r.enabled /\ s.todo = todo
  BY <1>8 DEF CdRuns
<1>. HIDE DEF r, s
<1>a. CdTrack(r) BY <1>1, <1>e, <1>10 DEF CdTrack, CdOnce
<1>b. CdHand(r, cdList) /\ CdHand(s, cdList) BY <1>10, <1>11, <1>4, CdQuietHand DEF CdAdding
<1>c. CdKept(r, cdList) BY <1>1, <1>8, <1>10, CdKeptFrame DEF CdAdding, CdIndInv, CdFileOK
<1>d. CdTrack(s)
  <2>1. CdOnce(s) BY <1>e, <1>11 DEF CdOnce
  <2>2. r.attempted \subseteq r.enabled \cup r.told BY <1>a, <1>10 DEF CdTrack, CdSubflow
  <2>. QED BY <2>1, <2>2, <1>6, <1>11, <1>10 DEF CdTrack, att
<1>12. CASE ~yes BY <1>12, <1>7, <1>8, <1>a, <1>b, <1>c, CdGoStep DEF CdGood
<1>13. CASE yes
  <2>1. CdKept(s, cdList)
    <3>1. CASE e = "cloudflare"
      <4>1. s.accts = <<>> /\ (s.redo => cdCfg # <<>>)
        BY <3>1, <1>1, <1>2, <1>10, <1>11 DEF CdTrack, CdOnce, CdKept, CdFresh
      <4>. QED BY <4>1, <1>4, <1>11, CdEmptyKept
    <3>2. CASE e # "cloudflare"
      <4>1. s.at \in {"bunny", "aws"} BY <3>2, <1>2, <1>11 DEF at, CdEdges
      <4>. QED BY <4>1, <1>c, <1>8, <1>9, <1>10, <1>11, CdKeptFrame DEF CdAdding, CdIndInv, CdFileOK
    <3>. QED BY <3>1, <3>2
  <2>. QED BY <2>1, <1>13, <1>7, <1>9, <1>b, <1>d, CdGoStep DEF CdGood
<1>. QED BY <1>12, <1>13

\* An account that fails ends the subflow.
LEMMA CdFailedGood ==
    ASSUME NEW r \in CdRuns, NEW l \in BOOLEAN, NEW m \in BOOLEAN, l => m, CdGood(r, l), r.at \in CdAdding
    PROVE  CdFailed(r) \in CdRuns /\ CdGood(CdFailed(r), m)
<1>. DEFINE enabled == IF r.accts = <<>> THEN r.enabled ELSE r.enabled \cup {"cloudflare"}
            s == [r EXCEPT !.enabled = enabled]
<1>1. enabled \in CdEdgeSets /\ r.enabled \subseteq enabled BY DEF CdRuns, CdEdgeSets, CdEdges
<1>2. CdFailed(r) = CdLeave(s, "cloudflare") BY DEF CdFailed
<1>. HIDE DEF enabled
<1>3. s \in CdRuns BY <1>1 DEF CdRuns
<1>4. /\ s.at = r.at /\ s.accts = r.accts /\ s.redo = r.redo /\ s.target = r.target /\ s.told = r.told
      /\ s.attempted = r.attempted /\ s.enabled = enabled /\ s.todo = r.todo
  BY DEF CdRuns
<1>. HIDE DEF s
<1>5. r.at \notin {"done", "another", "edges"} BY DEF CdAdding
<1>6. CdKept(r, l) /\ CdTrack(r) BY DEF CdGood
<1>7. CdKept(s, m) BY <1>3, <1>4, <1>5, <1>6, CdKeptFrame
<1>8. CdSubflow(r.at) = {"cloudflare"} BY DEF CdSubflow, CdAdding
<1>9. s.attempted \subseteq s.enabled \cup s.told \cup {"cloudflare"} BY <1>1, <1>4, <1>6, <1>8 DEF CdTrack
<1>10. CdOnce(s) BY <1>4, <1>6 DEF CdTrack, CdOnce
<1>11. "cloudflare" \in CdEdges BY DEF CdEdges
<1>. QED BY <1>2, <1>3, <1>4, <1>5, <1>7, <1>9, <1>10, <1>11, CdLeft

\* A step with the account in hand leaves the rest of the run alone.
CdSameRun(r, s) ==
    /\ s.accts = r.accts /\ s.redo = r.redo /\ s.target = r.target /\ r.told \subseteq s.told /\ s.todo = r.todo
    /\ s.attempted = r.attempted /\ s.enabled = r.enabled
\* Then what is kept stays good, and the subflow is still under way.
LEMMA CdAddingFrame ==
    ASSUME NEW r \in CdRuns, NEW s \in CdRuns, NEW l \in BOOLEAN, NEW m \in BOOLEAN, l => m, CdGood(r, l),
           r.at \in CdAdding, s.at \in CdAdding, CdSameRun(r, s)
    PROVE  CdKept(s, m) /\ CdTrack(s)
<1>1. r.at \notin {"done", "another", "edges"} /\ s.at \notin {"done", "another", "edges"} BY DEF CdAdding
<1>2. CdKept(s, m) BY <1>1, CdKeptFrame DEF CdGood, CdSameRun
<1>3. CdSubflow(r.at) = {"cloudflare"} /\ CdSubflow(s.at) = {"cloudflare"} BY DEF CdSubflow, CdAdding
<1>4. CdOnce(s) BY <1>1 DEF CdGood, CdTrack, CdOnce, CdSameRun
<1>. QED BY <1>2, <1>3, <1>4 DEF CdGood, CdTrack, CdSameRun

\* The account in hand keeps its name and what is reserved for it.
LEMMA CdHandFrame ==
    ASSUME NEW r, NEW s, CdSameRun(r, s), s.acct.name = r.acct.name, s.acct.var = r.acct.var
    PROVE  /\ CdNamed(r) => CdNamed(s)
           /\ CdReserved(r) /\ s.acct.mode = r.acct.mode => CdReserved(s)
BY DEF CdSameRun, CdNamed, CdReserved, CdAlone, CdStays

\* An account that fails before its preflight.
LEMMA CdFailStep == ASSUME CdIndInv, NEW at \in CdAdding, CdFail(at) PROVE CdIndInv'
BY CdFailedGood, CdGoStep DEF CdFail, CdIndInv, CdFileOK

\* promptCFAccountName: the label is free in this run.
LEMMA CdNameStep == ASSUME CdIndInv, NEW n \in CdLabels, CdName(n) PROVE CdIndInv'
<1>. DEFINE acct == [cdRun.acct EXCEPT !.name = n, !.var = CdVar[n]]
            s == [cdRun EXCEPT !.acct = acct, !.at = "fields"]
<1>1. cdRun.at = "name" /\ cdRun \in CdRuns /\ CdGood(cdRun, cdList) /\ CdNameFits(n) /\ CdGo(s)
  BY DEF CdName, CdIndInv, cfEnvVarForName
<1>2. CdVar[n] \in Range(CdVar) BY CdAssumption DEF CdLabels, Range
<1>3. cdRun.acct \in CdHands BY <1>1 DEF CdRuns
<1>4. acct \in CdHands /\ acct.name = n /\ acct.var = CdVar[n] BY <1>2, <1>3 DEF CdHands
<1>5. "fields" \in CdAts BY DEF CdAts
<1>. HIDE DEF acct
<1>6. s \in CdRuns BY <1>1, <1>4, <1>5 DEF CdRuns
<1>7. CdSameRun(cdRun, s) /\ s.at = "fields" /\ s.acct = acct BY <1>1 DEF CdRuns, CdSameRun
<1>. HIDE DEF s
<1>8. CdKept(s, cdList) /\ CdTrack(s) BY <1>1, <1>6, <1>7, CdAddingFrame DEF CdAdding, CdIndInv, CdFileOK
<1>9. CdNamed(s)
  <2>1. n \notin CdNames1(cdRun.accts) /\ (n = "" => cdRun.accts = <<>> /\ CdAlone(cdRun))
        /\ (cdRun.redo /\ cdRun.accts = <<>> => n = cdRun.target)
    <3>1. "" \notin CdNames BY CdAssumption
    <3>2. cdRun.accts = <<>> => n \notin CdNames1(cdRun.accts) BY DEF CdNames1
    <3>. QED BY <1>1, <3>1, <3>2 DEF CdNameFits, CdAlone
  <2>. QED BY <2>1, <1>2, <1>4, <1>7 DEF CdNamed, CdSameRun, CdAlone
<1>10. CdHand(s, cdList) BY <1>7, <1>9 DEF CdHand, CdAdding
<1>. QED BY <1>1, <1>6, <1>8, <1>10, CdGoStep DEF CdGood

\* promptOneCFAccount: the variable of the label is not taken.
LEMMA CdFieldsStep == ASSUME CdIndInv, NEW mode \in CdModes, CdFields(mode) PROVE CdIndInv'
<1>. DEFINE acct == [cdRun.acct EXCEPT !.mode = mode]
            s == [cdRun EXCEPT !.acct = acct, !.at = "token"]
<1>1. cdRun.at = "fields" /\ cdRun \in CdRuns /\ CdGood(cdRun, cdList) /\ cdRun.acct.var \notin CdTaken /\ CdGo(s)
  BY DEF CdFields, CdIndInv
<1>3. cdRun.acct \in CdHands BY <1>1 DEF CdRuns
<1>4. acct \in CdHands /\ acct.name = cdRun.acct.name /\ acct.var = cdRun.acct.var /\ acct.mode = mode
  BY <1>3 DEF CdHands
<1>5. "token" \in CdAts BY DEF CdAts
<1>. HIDE DEF acct
<1>6. s \in CdRuns BY <1>1, <1>4, <1>5 DEF CdRuns
<1>7. CdSameRun(cdRun, s) /\ s.at = "token" /\ s.acct = acct BY <1>1 DEF CdRuns, CdSameRun
<1>. HIDE DEF s
<1>8. CdKept(s, cdList) /\ CdTrack(s) BY <1>1, <1>6, <1>7, CdAddingFrame DEF CdAdding, CdIndInv, CdFileOK
<1>9. CdNamed(s) BY <1>1, <1>4, <1>7, CdHandFrame DEF CdGood, CdHand, CdAdding
<1>10. CdReserved(s) BY <1>1, <1>4, <1>7 DEF CdReserved, CdTaken, CdStays, CdSameRun
<1>11. CdHand(s, cdList) BY <1>7, <1>9, <1>10 DEF CdHand, CdAdding
<1>. QED BY <1>1, <1>6, <1>8, <1>11, CdGoStep DEF CdGood

\* promptOneCFAccount: the token and the identifiers.
LEMMA CdTokenGivenStep ==
    ASSUME CdIndInv, NEW z \in SUBSET CdZones, NEW all \in BOOLEAN, CdTokenGiven(z, all) PROVE CdIndInv'
<1>. DEFINE acct == [cdRun.acct EXCEPT !.zones = z]
            s == [cdRun EXCEPT !.acct = acct, !.all = all, !.at = "probe"]
<1>1. /\ cdRun.at = "token" /\ cdRun \in CdRuns /\ CdGood(cdRun, cdList) /\ CdGo(s)
      /\ cdRun.acct.mode = "rulesets" => z # {} /\ ~all
  BY DEF CdTokenGiven, CdIndInv
<1>3. cdRun.acct \in CdHands BY <1>1 DEF CdRuns
<1>4. /\ acct \in CdHands /\ acct.name = cdRun.acct.name /\ acct.var = cdRun.acct.var
      /\ acct.mode = cdRun.acct.mode /\ acct.zones = z
  BY <1>3 DEF CdHands
<1>5. "probe" \in CdAts BY DEF CdAts
<1>. HIDE DEF acct
<1>6. s \in CdRuns BY <1>1, <1>4, <1>5 DEF CdRuns
<1>7. CdSameRun(cdRun, s) /\ s.at = "probe" /\ s.acct = acct /\ s.all = all BY <1>1 DEF CdRuns, CdSameRun
<1>. HIDE DEF s
<1>8. CdKept(s, cdList) /\ CdTrack(s) BY <1>1, <1>6, <1>7, CdAddingFrame DEF CdAdding, CdIndInv, CdFileOK
<1>9. CdNamed(s) /\ CdReserved(s) BY <1>1, <1>4, <1>7, CdHandFrame DEF CdGood, CdHand, CdAdding
<1>10. CdHand(s, cdList) BY <1>1, <1>4, <1>7, <1>9 DEF CdHand, CdAdding
<1>. QED BY <1>1, <1>6, <1>8, <1>10, CdGoStep DEF CdGood

\* dryValidateCFToken.
LEMMA CdProbeStep == ASSUME CdIndInv, CdProbe PROVE CdIndInv'
<1>. DEFINE s == [cdRun EXCEPT !.at = "preflight"]
<1>1. cdRun.at = "probe" /\ cdRun \in CdRuns /\ CdGood(cdRun, cdList) /\ CdGo(s) BY DEF CdProbe, CdIndInv
<1>5. "preflight" \in CdAts BY DEF CdAts
<1>6. s \in CdRuns BY <1>1, <1>5 DEF CdRuns
<1>7. CdSameRun(cdRun, s) /\ s.at = "preflight" /\ s.acct = cdRun.acct /\ s.all = cdRun.all BY <1>1 DEF CdRuns, CdSameRun
<1>. HIDE DEF s
<1>8. CdKept(s, cdList) /\ CdTrack(s) BY <1>1, <1>6, <1>7, CdAddingFrame DEF CdAdding, CdIndInv, CdFileOK
<1>9. CdNamed(s) /\ CdReserved(s) BY <1>1, <1>7, CdHandFrame DEF CdGood, CdHand, CdAdding
<1>10. CdHand(s, cdList) BY <1>1, <1>7, <1>9 DEF CdHand, CdAdding, CdGood
<1>. QED BY <1>1, <1>6, <1>8, <1>10, CdGoStep DEF CdGood

\* runCFCapabilityPreflight: past it, the list of a lists account exists.
LEMMA CdPreflightStep == ASSUME CdIndInv, NEW ok \in BOOLEAN, CdPreflight(ok) PROVE CdIndInv'
<1>. DEFINE at == IF cdRun.acct.mode = "lists" THEN "rollout" ELSE "keep"
            s == [cdRun EXCEPT !.at = at]
            m == cdList'
<1>1. /\ cdRun.at = "preflight" /\ cdRun \in CdRuns /\ CdGood(cdRun, cdList)
      /\ cdRun' = (IF ok THEN s ELSE CdFailed(cdRun)) /\ UNCHANGED <<cdFiles, cdRules, cdCount>>
      /\ cdList \in BOOLEAN
  BY DEF CdPreflight, CdIndInv, CdFileOK
<1>2. m \in BOOLEAN /\ (cdList => m) /\ (ok /\ cdRun.acct.mode = "lists" => m)
  BY <1>1 DEF CdPreflight, cfEnsureList
<1>3. at \in CdAts /\ at \in {"rollout", "keep"} /\ (at = "rollout" <=> cdRun.acct.mode = "lists") BY DEF CdAts
<1>4. cdRules' \subseteq CdZones /\ cdCount' \in 0 .. CdMaxRuns BY <1>1 DEF CdIndInv, CdFileOK
<1>5. s \in CdRuns BY <1>1, <1>3 DEF CdRuns
<1>6. CdSameRun(cdRun, s) /\ s.at = at /\ s.acct = cdRun.acct /\ s.all = cdRun.all BY <1>1 DEF CdRuns, CdSameRun
<1>. HIDE DEF s, m, at
<1>7. CASE ok
  <2>1. CdKept(s, m) /\ CdTrack(s) BY <1>1, <1>2, <1>3, <1>5, <1>6, CdAddingFrame DEF CdAdding
  <2>2. CdNamed(s) /\ CdReserved(s) BY <1>1, <1>6, CdHandFrame DEF CdGood, CdHand, CdAdding
  <2>3. CdHand(s, m) BY <1>1, <1>2, <1>3, <1>6, <1>7, <2>2 DEF CdHand, CdAdding, CdGood
  <2>. QED BY <2>1, <2>3, <1>1, <1>2, <1>4, <1>5, <1>7, CdStep DEF CdGood, m, cdFiles
<1>8. CASE ~ok
  <2>1. CdFailed(cdRun) \in CdRuns /\ CdGood(CdFailed(cdRun), m) BY <1>1, <1>2, CdFailedGood DEF CdAdding
  <2>. QED BY <2>1, <1>1, <1>2, <1>4, <1>8, CdStep DEF m, cdFiles
<1>. QED BY <1>7, <1>8

\* cfConfigureZoneCoverage: no zone, then the manual instructions.
LEMMA CdRolloutStep ==
    ASSUME CdIndInv, NEW found \in SUBSET CdZones, NEW done \in SUBSET CdZones, CdRollout(found, done)
    PROVE  CdIndInv'
<1>. DEFINE zones == IF cdRun.all THEN found ELSE cdRun.acct.zones
            acct == [cdRun.acct EXCEPT !.zones = zones]
            told == cdRun.told \cup (IF zones = {} THEN {"manual"} ELSE {})
                              \cup (IF zones \subseteq done THEN {} ELSE {"zones"})
            s == [cdRun EXCEPT !.acct = acct, !.all = FALSE, !.at = "keep", !.told = told]
<1>1. /\ cdRun.at = "rollout" /\ cdRun \in CdRuns /\ CdGood(cdRun, cdList)
      /\ cdRun' = s /\ UNCHANGED <<cdFiles, cdList, cdCount>> /\ cdList \in BOOLEAN
  BY DEF CdRollout, CdIndInv, CdFileOK
<1>2. cdRun.acct \in CdHands BY <1>1 DEF CdRuns
<1>3. zones \in SUBSET CdZones BY <1>2 DEF CdHands
<1>4. cdRules' \subseteq CdZones
  <2>1. PICK lost \in SUBSET (zones \ done) : cdRules' = cdRules \cup done \cup lost
    BY DEF CdRollout, cfEnsureZoneRules
  <2>. QED BY <2>1, <1>3 DEF CdIndInv, CdFileOK
<1>5. cdCount' \in 0 .. CdMaxRuns BY <1>1 DEF CdIndInv, CdFileOK
<1>6. told \in CdTellings /\ cdRun.told \subseteq told /\ (zones = {} => "manual" \in told)
  BY <1>1 DEF CdRuns, CdTellings
<1>. HIDE DEF zones, told
<1>7. /\ acct \in CdHands /\ acct.name = cdRun.acct.name /\ acct.var = cdRun.acct.var
      /\ acct.mode = cdRun.acct.mode /\ acct.zones = zones
  BY <1>2, <1>3 DEF CdHands
<1>8. "keep" \in CdAts BY DEF CdAts
<1>. HIDE DEF acct
<1>9. s \in CdRuns BY <1>1, <1>6, <1>7, <1>8 DEF CdRuns
<1>10. CdSameRun(cdRun, s) /\ s.at = "keep" /\ s.acct = acct /\ s.told = told BY <1>1, <1>6 DEF CdRuns, CdSameRun
<1>. HIDE DEF s
<1>11. CdKept(s, cdList) /\ CdTrack(s) BY <1>1, <1>9, <1>10, CdAddingFrame DEF CdAdding
<1>12. CdNamed(s) /\ CdReserved(s) BY <1>1, <1>7, <1>10, CdHandFrame DEF CdGood, CdHand, CdAdding
<1>13. cdRun.acct.mode = "lists" /\ cdList BY <1>1 DEF CdGood, CdHand
<1>14. CdHand(s, cdList) BY <1>6, <1>7, <1>10, <1>12, <1>13 DEF CdHand, CdAdding
<1>. QED BY <1>1, <1>4, <1>5, <1>9, <1>11, <1>14, CdStep DEF CdGood, cdFiles

\* The account is kept: it differs from those before it.
LEMMA CdKeepStep == ASSUME CdIndInv, CdKeep PROVE CdIndInv'
<1>. DEFINE a == cdRun.acct
            accts == Append(cdRun.accts, a)
            s == [cdRun EXCEPT !.accts = accts, !.acct = CdNoAcct, !.at = "another"]
            n == Len(cdRun.accts)
<1>1. cdRun.at = "keep" /\ cdRun \in CdRuns /\ CdGood(cdRun, cdList) /\ CdGo(s) BY DEF CdKeep, CdIndInv
<1>2. CdNamed(cdRun) /\ CdReserved(cdRun) BY <1>1 DEF CdGood, CdHand, CdAdding
<1>3. a \in CdAccts
  <2>1. a \in CdHands BY <1>1 DEF CdRuns
  <2>. QED BY <2>1, <1>2 DEF CdHands, CdAccts, CdNamed, CdReserved
<1>4. cdRun.accts \in Seq(CdAccts) BY <1>1 DEF CdRuns, CdAcctSeqs
<1>5. n < CdMaxAccts /\ n \in Nat /\ CdMaxAccts \in Nat
  <2>1. n \in Nat BY <1>4
  <2>2. n < CdMaxAccts BY <1>1 DEF CdGood, CdKept, CdAdding
  <2>. QED BY <2>1, <2>2, CdBounds
<1>6. /\ accts \in CdAcctSeqs /\ DOMAIN accts = 1 .. (n + 1) /\ DOMAIN cdRun.accts = 1 .. n /\ Len(accts) = n + 1
      /\ accts[n + 1] = a /\ \A i \in 1 .. n : accts[i] = cdRun.accts[i]
  BY <1>3, <1>4 DEF CdAcctSeqs
<1>7. CdNoAcct \in CdHands /\ "another" \in CdAts BY DEF CdNoAcct, CdHands, CdLabels, CdAts
<1>. HIDE DEF accts
<1>8. s \in CdRuns BY <1>1, <1>6, <1>7 DEF CdRuns
<1>9. /\ s.accts = accts /\ s.at = "another" /\ s.redo = cdRun.redo /\ s.target = cdRun.target
      /\ s.told = cdRun.told /\ s.todo = cdRun.todo /\ s.attempted = cdRun.attempted /\ s.enabled = cdRun.enabled
  BY <1>1 DEF CdRuns
<1>. HIDE DEF s
<1>10. CdFresh(cdRun, cdList) BY <1>1 DEF CdGood, CdKept
<1>11. (a.mode = "lists" => cdList) /\ (a.mode = "rulesets" => a.zones # {})
       /\ (a.mode = "lists" /\ a.zones = {} => "manual" \in cdRun.told)
  BY <1>1 DEF CdGood, CdHand
<1>. HIDE DEF a, n
<1>12. CdApart(accts)
  <2>1. \A i \in 1 .. n : a.name # cdRun.accts[i].name /\ a.var # cdRun.accts[i].var
    BY <1>2, <1>6 DEF CdNamed, CdReserved, CdNames1, CdVars1, a
  <2>2. CdApart(cdRun.accts) BY <1>10 DEF CdFresh
  <2>3. SUFFICES ASSUME NEW i \in 1 .. (n + 1), NEW j \in 1 .. (n + 1), i # j
                 PROVE  accts[i].name # accts[j].name /\ accts[i].var # accts[j].var
    BY <1>6 DEF CdApart
  <2>4. CASE i \in 1 .. n /\ j \in 1 .. n BY <2>2, <2>3, <2>4, <1>6 DEF CdApart
  <2>5. CASE i = n + 1 /\ j \in 1 .. n BY <2>1, <2>5, <1>6
  <2>6. CASE i \in 1 .. n /\ j = n + 1 BY <2>1, <2>6, <1>6
  <2>. QED BY <2>3, <2>4, <2>5, <2>6, <1>5
<1>13. CdAlone(s) <=> CdAlone(cdRun) BY <1>9 DEF CdAlone
<1>14. \A x : CdStays(s, x) <=> CdStays(cdRun, x) BY <1>9 DEF CdStays
<1>15. ASSUME NEW i \in DOMAIN accts
       PROVE  /\ CdFit(accts[i], cdList)
              /\ accts[i].name = "" => i = 1 /\ CdAlone(s)
              /\ \A j \in DOMAIN cdCfg : CdStays(s, cdCfg[j]) => accts[i].var # cdCfg[j].var
              /\ i = 1 /\ s.redo => accts[i].name = s.target
  <2>1. CASE i \in 1 .. n
    <3>1. accts[i] = cdRun.accts[i] /\ i \in DOMAIN cdRun.accts BY <2>1, <1>6
    <3>. QED BY <3>1, <1>9, <1>10, <1>13, <1>14 DEF CdFresh
  <2>2. CASE i = n + 1
    <3>1. accts[i] = a BY <2>2, <1>6
    <3>2. cdRun.accts = <<>> <=> n = 0 BY <1>4 DEF n
    <3>3. a.name = "" => n = 0 /\ CdAlone(s) BY <1>2, <3>2, <1>13 DEF CdNamed, a
    <3>4. cdRun.redo /\ n = 0 => a.name = cdRun.target BY <1>2, <3>2 DEF CdNamed, a
    <3>5. \A j \in DOMAIN cdCfg : CdStays(s, cdCfg[j]) => a.var # cdCfg[j].var BY <1>2, <1>14 DEF CdReserved, a
    <3>6. CdFit(a, cdList) BY <1>11 DEF CdFit
    <3>7. i = 1 <=> n = 0 BY <2>2, <1>5
    <3>. QED BY <3>1, <3>3, <3>4, <3>5, <3>6, <3>7, <1>9
  <2>3. i \in 1 .. n \/ i = n + 1 BY <1>5, <1>6
  <2>. QED BY <2>1, <2>2, <2>3
<1>16. CdFresh(s, cdList) BY <1>12, <1>15, <1>9, <1>10 DEF CdFresh
<1>17. CdKept(s, cdList)
  <2>1. Len(accts) <= CdMaxAccts BY <1>5, <1>6
  <2>2. ASSUME NEW i \in DOMAIN accts, accts[i].mode = "lists", accts[i].zones = {} PROVE "manual" \in s.told
    <3>1. CASE i \in 1 .. n
      <4>1. accts[i] = cdRun.accts[i] /\ i \in DOMAIN cdRun.accts BY <3>1, <1>6
      <4>. QED BY <4>1, <2>2, <1>1, <1>9 DEF CdGood, CdKept
    <3>2. CASE i = n + 1 BY <3>2, <2>2, <1>6, <1>9, <1>11
    <3>. QED BY <3>1, <3>2, <1>5, <1>6
  <2>3. accts # <<>> BY <1>5, <1>6
  <2>4. ~s.redo /\ accts[1].name = "" => Len(accts) = 1
    <3>1. SUFFICES ASSUME ~s.redo, accts[1].name = "" PROVE Len(accts) = 1 OBVIOUS
    <3>2. CASE cdRun.accts = <<>> BY <3>2, <1>6 DEF n
    <3>3. CASE cdRun.accts # <<>>
      <4>1. cdRun.accts[1].name # "" BY <3>1, <3>3, <1>1, <1>9 DEF CdGood, CdKept, CdAdding
      <4>2. 1 \in 1 .. n BY <3>3, <1>4 DEF n
      <4>. QED BY <4>1, <4>2, <3>1, <1>6
    <3>4. n = 0 => Len(accts) = 1 BY <1>6
    <3>. QED BY <3>2, <3>3, <3>4
  <2>. QED BY <2>1, <2>2, <2>3, <2>4, <1>9, <1>16 DEF CdKept, CdAdding
<1>18. CdHand(s, cdList) BY <1>9, CdQuietHand DEF CdAdding
<1>19. CdTrack(s)
  <2>1. CdSubflow(s.at) = CdSubflow(cdRun.at) BY <1>1, <1>9 DEF CdSubflow
  <2>2. \A i \in DOMAIN cdRun.todo : cdRun.todo[i] # "cloudflare" BY <1>1 DEF CdGood, CdTrack, CdOnce
  <2>. QED BY <2>1, <2>2, <1>1, <1>9 DEF CdGood, CdTrack, CdOnce
<1>. QED BY <1>1, <1>8, <1>17, <1>18, <1>19, CdGoStep DEF CdGood

\* "Add another account": the one without a label gets one while it is alone.
LEMMA CdAnotherStep ==
    ASSUME CdIndInv, NEW more \in BOOLEAN, NEW label \in CdLabels, CdAnother(more, label) PROVE CdIndInv'
<1>. DEFINE enabled == cdRun.enabled \cup {"cloudflare"}
            r == [cdRun EXCEPT !.enabled = enabled]
            unnamed == cdCfg = <<>> /\ cdRun.accts[1].name = ""
            accts == IF unnamed THEN CdRelabelled(cdRun.accts, label) ELSE cdRun.accts
            s == [cdRun EXCEPT !.at = "name", !.accts = accts]
            ends == ~more \/ (unnamed /\ label = "")
<1>1. /\ cdRun.at = "another" /\ cdRun \in CdRuns /\ CdGood(cdRun, cdList) /\ cdList \in BOOLEAN
      /\ more => Len(cdRun.accts) < CdMaxAccts
      /\ CdGo(IF ends THEN CdLeave(r, "cloudflare") ELSE s)
  BY DEF CdAnother, CdIndInv, CdFileOK
<1>2. CASE ends
  <2>1. enabled \in CdEdgeSets /\ "cloudflare" \in CdEdges BY <1>1 DEF CdRuns, CdEdgeSets, CdEdges
  <2>2. cdRun.enabled \subseteq enabled OBVIOUS
  <2>. HIDE DEF enabled
  <2>3. r \in CdRuns BY <1>1, <2>1 DEF CdRuns
  <2>4. /\ r.at = cdRun.at /\ r.accts = cdRun.accts /\ r.redo = cdRun.redo /\ r.target = cdRun.target
        /\ r.told = cdRun.told /\ r.attempted = cdRun.attempted /\ r.enabled = enabled /\ r.todo = cdRun.todo
    BY <1>1 DEF CdRuns
  <2>. HIDE DEF r, ends
  <2>5. CdOnce(r) BY <1>1, <2>4 DEF CdGood, CdTrack, CdOnce
  <2>6. r.attempted \subseteq r.enabled \cup r.told \cup {"cloudflare"}
    BY <1>1, <2>2, <2>4 DEF CdGood, CdTrack, CdSubflow
  <2>7. CdKept(r, cdList)
    <3>1. CdFresh(cdRun, cdList) BY <1>1 DEF CdGood, CdKept
    <3>2. CdFresh(r, cdList) BY <1>1, <3>1, <2>4, CdFreshFrame
    <3>. QED BY <3>2, <2>4, <1>1 DEF CdGood, CdKept, CdAdding
  <2>8. CdLeave(r, "cloudflare") \in CdRuns /\ CdGood(CdLeave(r, "cloudflare"), cdList)
    BY <1>1, <2>1, <2>3, <2>4, <2>5, <2>6, <2>7, CdLeft
  <2>. QED BY <2>8, <1>1, <1>2, CdGoStep
<1>3. CASE ~ends
  <2>1. more /\ (unnamed => label \in CdNames /\ label # "") /\ CdGo(s)
    BY <1>1, <1>3, CdAssumption DEF CdLabels
  <2>. HIDE DEF ends
  <2>2. cdRun.accts \in Seq(CdAccts) /\ cdRun.accts # <<>> BY <1>1 DEF CdRuns, CdAcctSeqs, CdGood, CdKept
  <2>3. 1 \in DOMAIN cdRun.accts /\ cdRun.accts[1] \in CdAccts BY <2>2
  <2>4. CdFresh(cdRun, cdList) BY <1>1 DEF CdGood, CdKept
  <2>5. unnamed => ~cdRun.redo /\ Len(cdRun.accts) = 1 BY <2>4, <1>1 DEF CdFresh, CdGood, CdKept
  <2>6. CASE unnamed
    <3>. DEFINE a == [cdRun.accts[1] EXCEPT !.name = label]
    <3>1. /\ a \in CdAccts /\ a.name = label /\ a.var = cdRun.accts[1].var /\ a.mode = cdRun.accts[1].mode
          /\ a.zones = cdRun.accts[1].zones
      BY <2>3 DEF CdAccts
    <3>2. accts = [cdRun.accts EXCEPT ![1] = a] BY <2>6 DEF CdRelabelled
    <3>. HIDE DEF a, unnamed
    <3>3. /\ accts \in CdAcctSeqs /\ DOMAIN accts = {1} /\ DOMAIN cdRun.accts = {1} /\ Len(accts) = 1 /\ accts[1] = a
          /\ Len(cdRun.accts) = 1
      BY <3>1, <3>2, <2>2, <2>5, <2>6 DEF CdAcctSeqs
    <3>4. "name" \in CdAts BY DEF CdAts
    <3>. HIDE DEF accts
    <3>5. s \in CdRuns BY <1>1, <3>3, <3>4 DEF CdRuns
    <3>6. /\ s.accts = accts /\ s.at = "name" /\ s.redo = cdRun.redo /\ s.target = cdRun.target
          /\ s.told = cdRun.told /\ s.todo = cdRun.todo /\ s.attempted = cdRun.attempted /\ s.enabled = cdRun.enabled
      BY <1>1 DEF CdRuns
    <3>. HIDE DEF s
    <3>7. CdFresh(s, cdList)
      <4>1. CdApart(accts) BY <3>3 DEF CdApart
      <4>2. CdFit(a, cdList) BY <2>4, <3>1, <3>3 DEF CdFresh, CdFit
      <4>3. \A j \in DOMAIN cdCfg : CdStays(s, cdCfg[j]) => a.var # cdCfg[j].var
        BY <2>4, <3>1, <3>3, <3>6 DEF CdFresh, CdStays
      <4>4. a.name # "" /\ ~s.redo BY <2>1, <2>5, <2>6, <3>1, <3>6
      <4>. QED BY <4>1, <4>2, <4>3, <4>4, <3>3, <3>6 DEF CdFresh
    <3>8. CdKept(s, cdList)
      <4>1. Len(accts) <= CdMaxAccts /\ Len(accts) < CdMaxAccts
        <5>1. Len(accts) < CdMaxAccts BY <1>1, <2>1, <3>3
        <5>. QED BY <5>1, <3>3, CdBounds
      <4>2. a.mode = "lists" /\ a.zones = {} => "manual" \in s.told BY <1>1, <3>1, <3>3, <3>6 DEF CdGood, CdKept
      <4>3. a.name # "" BY <2>1, <2>6, <3>1
      <4>. QED BY <4>1, <4>2, <4>3, <3>3, <3>6, <3>7 DEF CdKept
    <3>9. CdHand(s, cdList) BY <3>6, CdQuietHand DEF CdAdding
    <3>10. CdTrack(s) BY <1>1, <3>6 DEF CdGood, CdTrack, CdOnce, CdSubflow
    <3>. QED BY <2>1, <3>5, <3>8, <3>9, <3>10, CdGoStep DEF CdGood
  <2>7. CASE ~unnamed
    <3>1. accts = cdRun.accts BY <2>7
    <3>4. "name" \in CdAts /\ cdRun.accts \in CdAcctSeqs BY <1>1 DEF CdAts, CdRuns
    <3>. HIDE DEF accts, unnamed
    <3>5. s \in CdRuns BY <1>1, <3>1, <3>4 DEF CdRuns
    <3>6. /\ s.accts = cdRun.accts /\ s.at = "name" /\ s.redo = cdRun.redo /\ s.target = cdRun.target
          /\ s.told = cdRun.told /\ s.todo = cdRun.todo /\ s.attempted = cdRun.attempted /\ s.enabled = cdRun.enabled
      BY <1>1, <3>1 DEF CdRuns
    <3>. HIDE DEF s
    <3>7. CdFresh(s, cdList) BY <1>1, <2>4, <3>6, CdFreshFrame
    <3>8. ~s.redo => s.accts[1].name # ""
      BY <2>7, <2>3, <2>4, <3>6 DEF unnamed, CdFresh, CdAlone
    <3>9. CdKept(s, cdList) BY <1>1, <2>1, <3>6, <3>7, <3>8 DEF CdGood, CdKept
    <3>10. CdHand(s, cdList) BY <3>6, CdQuietHand DEF CdAdding
    <3>11. CdTrack(s) BY <1>1, <3>6 DEF CdGood, CdTrack, CdOnce, CdSubflow
    <3>. QED BY <2>1, <3>5, <3>9, <3>10, <3>11, CdGoStep DEF CdGood
  <2>. QED BY <2>6, <2>7
<1>. QED BY <1>2, <1>3

\* Bunny's subflow and AWS's: one question each, one enforcer or a banner.
LEMMA CdOtherStep ==
    ASSUME CdIndInv, NEW e \in {"bunny", "aws"}, cdRun.at = e, NEW yes \in BOOLEAN,
           CdGo(CdLeave([cdRun EXCEPT !.enabled = IF yes THEN @ \cup {e} ELSE @], e))
    PROVE  CdIndInv'
<1>. DEFINE enabled == IF yes THEN cdRun.enabled \cup {e} ELSE cdRun.enabled
            r == [cdRun EXCEPT !.enabled = enabled]
<1>1. /\ cdRun \in CdRuns /\ CdGood(cdRun, cdList) /\ cdList \in BOOLEAN /\ CdGo(CdLeave(r, e))
  BY DEF CdIndInv, CdFileOK
<1>2. enabled \in CdEdgeSets /\ e \in CdEdges /\ cdRun.enabled \subseteq enabled
  BY <1>1 DEF CdRuns, CdEdgeSets, CdEdges
<1>. HIDE DEF enabled
<1>3. r \in CdRuns BY <1>1, <1>2 DEF CdRuns
<1>4. /\ r.at = cdRun.at /\ r.accts = cdRun.accts /\ r.redo = cdRun.redo /\ r.target = cdRun.target
      /\ r.told = cdRun.told /\ r.attempted = cdRun.attempted /\ r.enabled = enabled /\ r.todo = cdRun.todo
  BY <1>1 DEF CdRuns
<1>. HIDE DEF r
<1>5. CdOnce(r) BY <1>1, <1>4 DEF CdGood, CdTrack, CdOnce
<1>6. r.attempted \subseteq r.enabled \cup r.told \cup {e}
  <2>1. CdSubflow(cdRun.at) = {e} BY DEF CdSubflow
  <2>. QED BY <1>1, <1>2, <1>4, <2>1 DEF CdGood, CdTrack
<1>7. CdKept(r, cdList) BY <1>1, <1>3, <1>4, CdKeptFrame DEF CdAdding, CdGood
<1>8. CdLeave(r, e) \in CdRuns /\ CdGood(CdLeave(r, e), cdList)
  BY <1>1, <1>2, <1>3, <1>4, <1>5, <1>6, <1>7, CdLeft
<1>. QED BY <1>8, <1>1, CdGoStep

\* runBunnySubflow.
LEMMA CdBunnyStep == ASSUME CdIndInv, NEW ok \in BOOLEAN, CdBunny(ok) PROVE CdIndInv'
BY CdOtherStep DEF CdBunny
\* runAWSWAFSubflow.
LEMMA CdAwsStep == ASSUME CdIndInv, NEW scope, NEW sets, NEW ok \in BOOLEAN, CdAws(scope, sets, ok) PROVE CdIndInv'
<1>. DEFINE yes == scope \in {"regional", "cloudfront"} /\ sets # {} /\ ok
<1>1. cdRun.at = "aws" /\ CdGo(CdLeave([cdRun EXCEPT !.enabled = IF yes THEN @ \cup {"aws"} ELSE @], "aws"))
  BY DEF CdAws
<1>2. yes \in BOOLEAN OBVIOUS
<1>. HIDE DEF yes
<1>. QED BY <1>1, <1>2, CdOtherStep

\* The run goes on to another step without touching what it holds.
LEMMA CdMoved ==
    ASSUME CdIndInv, NEW at \in {"merge", "done"}, NEW told \in CdTellings, cdRun.told \subseteq told,
           cdRun.at \in {"edges", "merge"}, cdRun.at = "edges" => cdRun.todo = <<>>,
           CdGo([cdRun EXCEPT !.at = at, !.told = told])
    PROVE  CdIndInv'
<1>. DEFINE s == [cdRun EXCEPT !.at = at, !.told = told]
<1>1. cdRun \in CdRuns /\ CdGood(cdRun, cdList) /\ cdList \in BOOLEAN /\ CdGo(s) BY DEF CdIndInv, CdFileOK
<1>2. at \in CdAts BY DEF CdAts
<1>3. s \in CdRuns BY <1>1, <1>2 DEF CdRuns
<1>4. /\ s.at = at /\ s.accts = cdRun.accts /\ s.redo = cdRun.redo /\ s.target = cdRun.target
      /\ s.told = told /\ s.todo = cdRun.todo /\ s.attempted = cdRun.attempted /\ s.enabled = cdRun.enabled
  BY <1>1 DEF CdRuns
<1>. HIDE DEF s
<1>5. CdKept(s, cdList) BY <1>1, <1>3, <1>4, CdKeptFrame DEF CdAdding, CdGood
<1>6. CdHand(s, cdList) BY <1>4, CdQuietHand DEF CdAdding
<1>7. CdTrack(s)
  <2>1. CdOnce(s)
    <3>1. CASE cdRun.at = "edges" BY <3>1, <1>4 DEF CdOnce
    <3>2. CASE cdRun.at = "merge" BY <3>2, <1>1, <1>4 DEF CdGood, CdTrack, CdOnce
    <3>. QED BY <3>1, <3>2
  <2>2. cdRun.attempted \subseteq cdRun.enabled \cup cdRun.told BY <1>1 DEF CdGood, CdTrack, CdSubflow
  <2>. QED BY <2>1, <2>2, <1>4 DEF CdTrack
<1>. QED BY <1>1, <1>3, <1>5, <1>6, <1>7, CdGoStep DEF CdGood

\* The loud-skip warning.
LEMMA CdStepEndsStep == ASSUME CdIndInv, CdStepEnds PROVE CdIndInv'
<1>. DEFINE silent == cdRun.detected = {} \/ cdRun.enabled \cap {"cloudflare", "bunny"} # {}
            told == IF silent THEN cdRun.told ELSE cdRun.told \cup {"warning"}
<1>1. cdRun.at = "edges" /\ cdRun.todo = <<>> /\ CdGo([cdRun EXCEPT !.at = "merge", !.told = told]) BY DEF CdStepEnds
<1>2. told \in CdTellings /\ cdRun.told \subseteq told BY DEF CdIndInv, CdRuns, CdTellings
<1>. HIDE DEF told
<1>. QED BY <1>1, <1>2, CdMoved

\* Merging account by account.
CdMerges(merged, cfg, accts) ==
    merged = [n \in 0 .. Len(accts) |-> IF n = 0 THEN cfg ELSE CdMerged(merged[n - 1], accts[n])]

\* The recursion of the merge has a solution.
LEMMA CdMergesExist ==
    ASSUME NEW cfg, NEW accts, Len(accts) \in Nat
    PROVE  \E merged : CdMerges(merged, cfg, accts)
<1>. DEFINE P(k) == \E g : /\ g = [n \in 0 .. k |-> g[n]]
                          /\ \A n \in 0 .. k : g[n] = IF n = 0 THEN cfg ELSE CdMerged(g[n - 1], accts[n])
            T == {k \in Nat : ~P(k)}
<1>1. P(0)
  <2>. DEFINE g == [n \in 0 .. 0 |-> cfg]
  <2>1. g = [n \in 0 .. 0 |-> g[n]] /\ \A n \in 0 .. 0 : n = 0 /\ g[n] = cfg OBVIOUS
  <2>. HIDE DEF g
  <2>2. \A n \in 0 .. 0 : g[n] = IF n = 0 THEN cfg ELSE CdMerged(g[n - 1], accts[n]) BY <2>1
  <2>. QED BY <2>1, <2>2
<1>2. ASSUME NEW k \in Nat, P(k) PROVE P(k + 1)
  <2>1. PICK g : /\ g = [n \in 0 .. k |-> g[n]]
                 /\ \A n \in 0 .. k : g[n] = IF n = 0 THEN cfg ELSE CdMerged(g[n - 1], accts[n])
    BY <1>2
  <2>. DEFINE last == CdMerged(g[k], accts[k + 1])
              h == [n \in 0 .. k + 1 |-> IF n = k + 1 THEN last ELSE g[n]]
  <2>2. h = [n \in 0 .. k + 1 |-> h[n]] /\ h[k + 1] = last /\ \A n \in 0 .. k : h[n] = g[n] OBVIOUS
  <2>. HIDE DEF h
  <2>3. ASSUME NEW n \in 0 .. k + 1 PROVE h[n] = IF n = 0 THEN cfg ELSE CdMerged(h[n - 1], accts[n])
    <3>1. CASE n = k + 1
      <4>2. n - 1 = k /\ n # 0 BY <3>1
      <4>3. k \in 0 .. k OBVIOUS
      <4>1. n - 1 = k /\ h[n - 1] = g[k] /\ n # 0 BY <2>2, <4>2, <4>3
      <4>. QED BY <2>2, <3>1, <4>1
    <3>2. CASE n # k + 1
      <4>1. n \in 0 .. k /\ h[n] = g[n] BY <2>2, <3>2
      <4>2. CASE n = 0 BY <2>1, <4>1, <4>2
      <4>3. CASE n # 0
        <5>1. n - 1 \in 0 .. k BY <4>1, <4>3
        <5>2. h[n - 1] = g[n - 1] BY <2>2, <5>1
        <5>. QED BY <2>1, <4>1, <5>2
      <4>. QED BY <4>2, <4>3
    <3>. QED BY <3>1, <3>2
  <2>. QED BY <2>2, <2>3
<1>. HIDE DEF P
<1>3. T = {}
  <2>. SUFFICES ASSUME T # {} PROVE FALSE OBVIOUS
  <2>1. PICK k \in T : \A m \in T : k <= m BY LeastNatural
  <2>2. k # 0 BY <1>1, <2>1
  <2>3. k - 1 \in Nat /\ k - 1 \notin T BY <2>1, <2>2
  <2>4. P(k - 1) BY <2>3
  <2>5. P((k - 1) + 1) BY <1>2, <2>3, <2>4
  <2>6. (k - 1) + 1 = k BY <2>1
  <2>. QED BY <2>1, <2>5, <2>6
<1>4. P(Len(accts)) BY <1>3
<1>5. PICK g : /\ g = [n \in 0 .. Len(accts) |-> g[n]]
               /\ \A n \in 0 .. Len(accts) : g[n] = IF n = 0 THEN cfg ELSE CdMerged(g[n - 1], accts[n])
  BY <1>4 DEF P
<1>6. g = [n \in 0 .. Len(accts) |-> IF n = 0 THEN cfg ELSE CdMerged(g[n - 1], accts[n])] BY <1>5
<1>. QED BY <1>6 DEF CdMerges

\* CdMergedAll is such a solution.
LEMMA CdMergedAllIs ==
    ASSUME Len(cdRun.accts) \in Nat
    PROVE  \E merged : CdMerges(merged, cdCfg, cdRun.accts) /\ CdMergedAll = merged[Len(cdRun.accts)]
<1>. DEFINE A == cdRun.accts
            merged == CHOOSE m : m = [n \in 0 .. Len(A) |-> IF n = 0 THEN cdCfg ELSE CdMerged(m[n - 1], A[n])]
<1>1. \E m : m = [n \in 0 .. Len(A) |-> IF n = 0 THEN cdCfg ELSE CdMerged(m[n - 1], A[n])]
  <2>. HIDE DEF merged
  <2>1. PICK m : CdMerges(m, cdCfg, A) BY CdMergesExist
  <2>. QED BY <2>1 DEF CdMerges
<1>2. merged = [n \in 0 .. Len(A) |-> IF n = 0 THEN cdCfg ELSE CdMerged(merged[n - 1], A[n])] BY <1>1
<1>3. CdMergedAll = merged[Len(A)] BY DEF CdMergedAll
<1>. QED BY <1>2, <1>3 DEF CdMerges

\* What the first n accounts make of config.yaml: each entry is one of them,
\* or an old one whose label none of them has; labels differ.
CdFrom(c, cfg, accts, n) ==
    /\ c \in CdAcctSeqs /\ \A i, j \in DOMAIN c : i # j => c[i].name # c[j].name
    /\ \A i \in DOMAIN c : \/ \E j \in DOMAIN cfg : c[i] = cfg[j] /\ \A k \in 1 .. n : accts[k].name # c[i].name
                           \/ \E k \in 1 .. n : c[i] = accts[k]

\* Merging one more account: it replaces the one of its label, or joins.
LEMMA CdMergedOne ==
    ASSUME NEW cfg, NEW accts, NEW n \in Nat, NEW c, CdFrom(c, cfg, accts, n), accts[n + 1] \in CdAccts
    PROVE  CdFrom(CdMerged(c, accts[n + 1]), cfg, accts, n + 1)
<1>. DEFINE a == accts[n + 1]
            d == CdMerged(c, a)
<1>1. c \in Seq(CdAccts) BY DEF CdFrom, CdAcctSeqs
<1>2. ASSUME NEW x, (\E j \in DOMAIN cfg : x = cfg[j] /\ \A k \in 1 .. n : accts[k].name # x.name)
                    \/ (\E k \in 1 .. n : x = accts[k]), x.name # a.name
      PROVE  (\E j \in DOMAIN cfg : x = cfg[j] /\ \A k \in 1 .. n + 1 : accts[k].name # x.name)
             \/ (\E k \in 1 .. n + 1 : x = accts[k])
  <2>1. \A k \in 1 .. n + 1 : k \in 1 .. n \/ k = n + 1 OBVIOUS
  <2>2. 1 .. n \subseteq 1 .. n + 1 OBVIOUS
  <2>. QED BY <1>2, <2>1, <2>2
<1>3. \E k \in 1 .. n + 1 : a = accts[k] OBVIOUS
<1>. HIDE DEF a
<1>4. CASE a.name \in CdNames1(c)
  <2>1. d = [i \in DOMAIN c |-> IF c[i].name = a.name THEN a ELSE c[i]] BY <1>4 DEF CdMerged
  <2>. HIDE DEF d
  <2>2. DOMAIN d = DOMAIN c /\ \A i \in DOMAIN c : d[i] = IF c[i].name = a.name THEN a ELSE c[i] BY <2>1
  <2>3. d \in CdAcctSeqs
    <3>1. \A i \in DOMAIN c : c[i] \in CdAccts /\ DOMAIN c = 1 .. Len(c) /\ Len(c) \in Nat BY <1>1
    <3>2. a \in CdAccts BY DEF a
    <3>. QED BY <1>1, <2>1, <3>1, <3>2 DEF CdAcctSeqs
  <2>4. \A i \in DOMAIN c : d[i].name = c[i].name BY <2>2
  <2>5. \A i, j \in DOMAIN d : i # j => d[i].name # d[j].name BY <2>2, <2>4 DEF CdFrom
  <2>6. ASSUME NEW i \in DOMAIN d
        PROVE  (\E j \in DOMAIN cfg : d[i] = cfg[j] /\ \A k \in 1 .. n + 1 : accts[k].name # d[i].name)
               \/ (\E k \in 1 .. n + 1 : d[i] = accts[k])
    <3>1. CASE c[i].name = a.name BY <3>1, <2>2, <1>3
    <3>2. CASE c[i].name # a.name
      <4>1. d[i] = c[i] /\ i \in DOMAIN c BY <3>2, <2>2
      <4>. QED BY <4>1, <3>2, <1>2 DEF CdFrom
    <3>. QED BY <3>1, <3>2
  <2>. QED BY <2>3, <2>5, <2>6 DEF CdFrom, d, a
<1>5. CASE a.name \notin CdNames1(c)
  <2>1. d = Append(c, a) BY <1>5 DEF CdMerged
  <2>. HIDE DEF d
  <2>. DEFINE m == Len(c)
  <2>2. /\ d \in CdAcctSeqs /\ m \in Nat /\ DOMAIN d = 1 .. m + 1 /\ DOMAIN c = 1 .. m /\ d[m + 1] = a
        /\ \A i \in 1 .. m : d[i] = c[i]
    <3>1. a \in CdAccts BY DEF a
    <3>. QED BY <1>1, <2>1, <3>1 DEF CdAcctSeqs
  <2>. HIDE DEF m
  <2>3. \A i \in 1 .. m : c[i].name # a.name BY <1>5, <2>2 DEF CdNames1
  <2>a. \A i \in DOMAIN d : i \in 1 .. m \/ i = m + 1 BY <2>2
  <2>5. ASSUME NEW i \in DOMAIN d, NEW j \in DOMAIN d, i # j PROVE d[i].name # d[j].name
    <3>1. CASE i \in 1 .. m /\ j \in 1 .. m BY <3>1, <2>2, <2>5 DEF CdFrom
    <3>2. CASE i = m + 1 /\ j \in 1 .. m BY <3>2, <2>2, <2>3
    <3>3. CASE i \in 1 .. m /\ j = m + 1 BY <3>3, <2>2, <2>3
    <3>. QED BY <3>1, <3>2, <3>3, <2>5, <2>a
  <2>6. ASSUME NEW i \in DOMAIN d
        PROVE  (\E j \in DOMAIN cfg : d[i] = cfg[j] /\ \A k \in 1 .. n + 1 : accts[k].name # d[i].name)
               \/ (\E k \in 1 .. n + 1 : d[i] = accts[k])
    <3>1. CASE i = m + 1 BY <3>1, <2>2, <1>3
    <3>2. CASE i \in 1 .. m
      <4>1. d[i] = c[i] /\ i \in DOMAIN c /\ c[i].name # a.name BY <3>2, <2>2, <2>3
      <4>. QED BY <4>1, <1>2 DEF CdFrom
    <3>. QED BY <3>1, <3>2, <2>a
  <2>. QED BY <2>2, <2>5, <2>6 DEF CdFrom, d, a
<1>. QED BY <1>4, <1>5

\* Merging all of them.
LEMMA CdMergedFrom ==
    ASSUME NEW cfg, NEW accts \in Seq(CdAccts), NEW merged, CdMerges(merged, cfg, accts), CdFrom(cfg, cfg, accts, 0)
    PROVE  CdFrom(merged[Len(accts)], cfg, accts, Len(accts))
<1>. DEFINE N == Len(accts)
            T == {k \in 0 .. N : ~CdFrom(merged[k], cfg, accts, k)}
<1>1. N \in Nat /\ \A k \in 1 .. N : accts[k] \in CdAccts OBVIOUS
<1>2. merged[0] = cfg /\ \A k \in 1 .. N : merged[k] = CdMerged(merged[k - 1], accts[k]) BY <1>1 DEF CdMerges
<1>. HIDE DEF N
<1>3. T = {}
  <2>. SUFFICES ASSUME T # {} PROVE FALSE OBVIOUS
  <2>0. T \in SUBSET Nat OBVIOUS
  <2>1. PICK k \in T : \A m \in T : k <= m BY <2>0, LeastNatural
  <2>2. k # 0 BY <1>2, <2>1
  <2>3. k - 1 \in 0 .. N /\ k - 1 \notin T /\ k \in 1 .. N /\ k - 1 \in Nat /\ (k - 1) + 1 = k BY <1>1, <2>1, <2>2
  <2>. DEFINE p == k - 1
  <2>4. CdFrom(merged[p], cfg, accts, p) BY <2>3
  <2>5. CdFrom(CdMerged(merged[p], accts[p + 1]), cfg, accts, p + 1) BY <1>1, <2>3, <2>4, CdMergedOne
  <2>6. CdFrom(merged[k], cfg, accts, k) BY <1>2, <2>3, <2>5
  <2>. QED BY <2>1, <2>6
<1>. QED BY <1>1, <1>3 DEF N

\* A configuration the wizard may save after this run.
CdClean(c) ==
    /\ c \in CdAcctSeqs
    /\ \A i, j \in DOMAIN c : i # j => c[i].name # c[j].name /\ c[i].var # c[j].var
    /\ \A i \in DOMAIN c : CdFit(c[i], cdList) /\ CdTokensOf(cdRun.accts)[c[i].var] # "none"

\* The tokens of the accounts merged are in .env, those of the others stay.
LEMMA CdTokensKept ==
    ASSUME NEW accts \in Seq(CdAccts), NEW v \in Range(CdVar), v \in CdVars1(accts) \/ cdTokens[v] # "none"
    PROVE  CdTokensOf(accts)[v] # "none"
<1>1. CASE v \in CdVars1(accts)
  <2>1. PICK i \in DOMAIN accts : accts[i].var = v BY <1>1 DEF CdVars1
  <2>. DEFINE a == CHOOSE a \in Range(accts) : a.var = v
  <2>2. accts[i] \in Range(accts) BY <2>1 DEF Range
  <2>3. a \in Range(accts) /\ a.var = v BY <2>1, <2>2
  <2>4. CdTokensOf(accts)[v] = a.name BY <2>1 DEF CdTokensOf
  <2>. HIDE DEF a
  <2>5. a \in CdAccts BY <2>3 DEF Range
  <2>6. a.name \in CdNames \cup {""} BY <2>5 DEF CdAccts, CdLabels
  <2>. QED BY <2>4, <2>6, CdAssumption
<1>2. CASE v \notin CdVars1(accts)
  <2>1. CdTokensOf(accts)[v] = cdTokens[v] BY <1>2 DEF CdTokensOf, CdVars1
  <2>. QED BY <2>1, <1>2
<1>. QED BY <1>1, <1>2

\* What the merge leaves: an old account that stays has a label and a variable no
\* account of this run has, since the redone one, if any, was replaced.
LEMMA CdMergedClean ==
    ASSUME CdIndInv, cdRun.at = "merge"
    PROVE  CdClean(CdMergedAll)
<1>. DEFINE A == cdRun.accts
            N == Len(A)
            C == CdMergedAll
<1>1. A \in Seq(CdAccts) /\ CdGood(cdRun, cdList) /\ cdCfg \in CdAcctSeqs /\ CdDistinct
  BY DEF CdIndInv, CdRuns, CdAcctSeqs, CdFileOK
<1>2. CdFresh(cdRun, cdList) BY <1>1 DEF CdGood, CdKept
<1>3. CdFrom(cdCfg, cdCfg, A, 0)
  <2>1. 1 .. 0 = {} OBVIOUS
  <2>. QED BY <1>1, <2>1 DEF CdFrom, CdDistinct
<1>4. CdFrom(C, cdCfg, A, N)
  <2>1. PICK merged : CdMerges(merged, cdCfg, A) /\ C = merged[N] BY <1>1, CdMergedAllIs
  <2>. QED BY <2>1, <1>1, <1>3, CdMergedFrom
<1>5. DOMAIN A = 1 .. N /\ N \in Nat BY <1>1
<1>. HIDE DEF C, N
<1>6. C \in CdAcctSeqs BY <1>4 DEF CdFrom
<1>. DEFINE Old(x, j) == j \in DOMAIN cdCfg /\ x = cdCfg[j] /\ \A k \in 1 .. N : A[k].name # x.name
            New(x, k) == k \in 1 .. N /\ x = A[k]
<1>7. \A i \in DOMAIN C : (\E j : Old(C[i], j)) \/ (\E k : New(C[i], k)) BY <1>4 DEF CdFrom
<1>8. ASSUME NEW j, NEW k, NEW x, NEW y, Old(x, j), New(y, k) PROVE x.var # y.var
  <2>1. CdStays(cdRun, cdCfg[j])
    <3>1. CASE cdRun.redo
      <4>1. 1 \in 1 .. N BY <1>5, <1>8
      <4>2. A[1].name = cdRun.target BY <1>2, <1>5, <3>1, <4>1 DEF CdFresh
      <4>. QED BY <4>1, <4>2, <1>8 DEF CdStays
    <3>2. CASE ~cdRun.redo BY <3>2 DEF CdStays
    <3>. QED BY <3>1, <3>2
  <2>. QED BY <2>1, <1>2, <1>5, <1>8 DEF CdFresh
<1>9. ASSUME NEW i \in DOMAIN C, NEW j \in DOMAIN C, i # j PROVE C[i].name # C[j].name /\ C[i].var # C[j].var
  <2>1. C[i].name # C[j].name BY <1>4, <1>9 DEF CdFrom
  <2>2. CASE \E p, q : Old(C[i], p) /\ Old(C[j], q)
    <3>1. PICK p, q : Old(C[i], p) /\ Old(C[j], q) BY <2>2
    <3>2. p # q BY <2>1, <3>1
    <3>. QED BY <2>1, <3>1, <3>2, <1>1 DEF CdDistinct
  <2>3. CASE \E p, q : Old(C[i], p) /\ New(C[j], q)
    <3>1. PICK p, q : Old(C[i], p) /\ New(C[j], q) BY <2>3
    <3>. HIDE DEF Old, New
    <3>2. C[i].var # C[j].var BY <3>1, <1>8
    <3>. QED BY <2>1, <3>2
  <2>4. CASE \E p, q : New(C[i], p) /\ Old(C[j], q)
    <3>1. PICK p, q : New(C[i], p) /\ Old(C[j], q) BY <2>4
    <3>. HIDE DEF Old, New
    <3>2. C[j].var # C[i].var BY <3>1, <1>8
    <3>. QED BY <2>1, <3>2
  <2>5. CASE \E p, q : New(C[i], p) /\ New(C[j], q)
    <3>1. PICK p, q : New(C[i], p) /\ New(C[j], q) BY <2>5
    <3>2. p # q BY <2>1, <3>1
    <3>3. CdApart(A) BY <1>2 DEF CdFresh
    <3>4. A[p].var # A[q].var BY <3>1, <3>2, <3>3, <1>5 DEF CdApart
    <3>. QED BY <2>1, <3>1, <3>4
  <2>6. (\E p : Old(C[i], p)) \/ (\E p : New(C[i], p)) BY <1>7
  <2>7. (\E p : Old(C[j], p)) \/ (\E p : New(C[j], p)) BY <1>7
  <2>. HIDE DEF Old, New
  <2>. QED BY <2>2, <2>3, <2>4, <2>5, <2>6, <2>7
<1>10. ASSUME NEW i \in DOMAIN C PROVE CdFit(C[i], cdList) /\ CdTokensOf(A)[C[i].var] # "none"
  <2>1. C[i].var \in Range(CdVar)
    <3>1. C \in Seq(CdAccts) BY <1>6 DEF CdAcctSeqs
    <3>2. C[i] \in CdAccts BY <3>1
    <3>. QED BY <3>2 DEF CdAccts
  <2>2. CASE \E j : Old(C[i], j)
    <3>1. PICK j : Old(C[i], j) BY <2>2
    <3>2. CdFit(cdCfg[j], cdList) /\ cdTokens[cdCfg[j].var] # "none" BY <3>1 DEF CdIndInv, CdFileOK
    <3>. QED BY <3>1, <3>2, <2>1, <1>1, CdTokensKept
  <2>3. CASE \E k : New(C[i], k)
    <3>1. PICK k : New(C[i], k) BY <2>3
    <3>2. CdFit(A[k], cdList) /\ A[k].var \in CdVars1(A) BY <3>1, <1>2, <1>5 DEF CdFresh, CdVars1
    <3>. QED BY <3>1, <3>2, <2>1, <1>1, CdTokensKept
  <2>. QED BY <2>2, <2>3, <1>7
<1>. QED BY <1>6, <1>9, <1>10 DEF CdClean, C

\* Naming the account without a label leaves the configuration clean.
LEMMA CdLabelledClean ==
    ASSUME NEW c, CdClean(c), NEW label \in CdNames \ CdNames1(c)
    PROVE  CdClean(CdLabelled(c, label)) /\ "" \notin CdNames1(CdLabelled(c, label))
<1>. DEFINE d == CdLabelled(c, label)
            named(i) == [c[i] EXCEPT !.name = label]
<1>1. c \in Seq(CdAccts) BY DEF CdClean, CdAcctSeqs
<1>2. label # "" /\ label \in CdLabels BY CdAssumption DEF CdLabels
<1>3. d = [i \in DOMAIN c |-> IF c[i].name = "" THEN named(i) ELSE c[i]] BY DEF CdLabelled
<1>4. ASSUME NEW i \in DOMAIN c
      PROVE  /\ c[i] \in CdAccts /\ named(i) \in CdAccts /\ named(i).name = label /\ named(i).var = c[i].var
             /\ named(i).mode = c[i].mode /\ named(i).zones = c[i].zones
  <2>1. c[i] \in CdAccts BY <1>1
  <2>. QED BY <2>1, <1>2 DEF CdAccts
<1>. HIDE DEF d, named
<1>5. DOMAIN d = DOMAIN c /\ \A i \in DOMAIN c : d[i] = IF c[i].name = "" THEN named(i) ELSE c[i] BY <1>3
<1>6. d \in CdAcctSeqs
  <2>1. DOMAIN c = 1 .. Len(c) /\ Len(c) \in Nat BY <1>1
  <2>2. \A i \in DOMAIN c : (IF c[i].name = "" THEN named(i) ELSE c[i]) \in CdAccts BY <1>4
  <2>3. d \in [DOMAIN c -> CdAccts] BY <1>3, <2>2
  <2>. QED BY <2>1, <2>3 DEF CdAcctSeqs
<1>7. \A i \in DOMAIN c : /\ d[i].name = IF c[i].name = "" THEN label ELSE c[i].name
                          /\ d[i].var = c[i].var /\ d[i].mode = c[i].mode /\ d[i].zones = c[i].zones
  BY <1>4, <1>5
<1>8. \A i \in DOMAIN c : c[i].name # label BY DEF CdNames1
<1>9. ASSUME NEW i \in DOMAIN d, NEW j \in DOMAIN d, i # j PROVE d[i].name # d[j].name /\ d[i].var # d[j].var
  <2>1. i \in DOMAIN c /\ j \in DOMAIN c BY <1>5
  <2>2. c[i].name # c[j].name /\ c[i].var # c[j].var BY <2>1, <1>9 DEF CdClean
  <2>3. d[i].var # d[j].var BY <2>1, <2>2, <1>7
  <2>4. c[i].name # label /\ c[j].name # label BY <2>1, <1>8
  <2>5. d[i].name # d[j].name BY <2>1, <2>2, <2>4, <1>7
  <2>. QED BY <2>3, <2>5
<1>10. \A i \in DOMAIN d : CdFit(d[i], cdList) /\ CdTokensOf(cdRun.accts)[d[i].var] # "none"
  BY <1>5, <1>7 DEF CdClean, CdFit
<1>11. "" \notin CdNames1(d) BY <1>2, <1>5, <1>7 DEF CdNames1
<1>. QED BY <1>6, <1>9, <1>10, <1>11 DEF CdClean, d

\* Two places, two entries.
LEMMA CdTwo == ASSUME NEW c \in Seq(CdAccts), NEW i \in DOMAIN c, NEW j \in DOMAIN c, i # j PROVE Len(c) > 1
OBVIOUS

\* config.yaml, then .env.
LEMMA CdSaveStep ==
    ASSUME CdIndInv, cdRun.at = "merge", NEW c, CdClean(c), Len(c) > 1 => "" \notin CdNames1(c), CdSave(c)
    PROVE  CdIndInv'
<1>. DEFINE s == [cdRun EXCEPT !.at = "done"]
            tokens == CdTokensOf(cdRun.accts)
<1>1. /\ cdCfg' = c /\ cdSaved' = cdSaved \cup cdRun.enabled /\ cdTokens' = tokens /\ cdRun' = s
      /\ UNCHANGED <<cdCloud, cdCount>> /\ cdRun \in CdRuns /\ CdGood(cdRun, cdList)
  BY DEF CdSave, CdIndInv
<1>2. "done" \in CdAts BY DEF CdAts
<1>3. s \in CdRuns BY <1>1, <1>2 DEF CdRuns
<1>4. /\ s.at = "done" /\ s.accts = cdRun.accts /\ s.redo = cdRun.redo /\ s.target = cdRun.target
      /\ s.told = cdRun.told /\ s.todo = cdRun.todo /\ s.attempted = cdRun.attempted /\ s.enabled = cdRun.enabled
  BY <1>1 DEF CdRuns
<1>5. DOMAIN tokens = Range(CdVar) BY DEF CdTokensOf
<1>. HIDE DEF s, tokens
<1>6. CdFileOK'
  <2>1. c \in CdAcctSeqs /\ \A i \in DOMAIN c : CdFit(c[i], cdList) /\ tokens[c[i].var] # "none"
    BY DEF CdClean, tokens
  <2>2. cdSaved' \in CdEdgeSets BY <1>1 DEF CdIndInv, CdFileOK, CdRuns, CdEdgeSets
  <2>3. CdDistinct'
    <3>1. c \in Seq(CdAccts) BY DEF CdClean, CdAcctSeqs
    <3>2. ASSUME NEW i \in DOMAIN c, NEW j \in DOMAIN c, i # j PROVE c[i].name # ""
      <4>1. Len(c) > 1 BY <3>1, <3>2, CdTwo
      <4>2. "" \notin CdNames1(c) BY <4>1
      <4>. QED BY <4>2 DEF CdNames1
    <3>. QED BY <1>1, <3>2 DEF CdDistinct, CdClean
  <2>4. cdList' \in BOOLEAN /\ cdRules' \subseteq CdZones /\ cdCount' \in 0 .. CdMaxRuns
    BY <1>1 DEF cdCloud, CdIndInv, CdFileOK
  <2>5. (\A i \in DOMAIN cdCfg : CdFit(cdCfg[i], cdList) /\ cdTokens[cdCfg[i].var] # "none")'
    BY <2>1, <1>1 DEF CdFit, cdCloud
  <2>. QED BY <2>1, <2>2, <2>3, <2>4, <2>5, <1>1, <1>5 DEF CdFileOK
<1>7. /\ cdRun'.at = "done" /\ cdRun'.accts = cdRun.accts /\ cdRun'.told = cdRun.told /\ cdRun'.todo = cdRun.todo
      /\ cdRun'.attempted = cdRun.attempted /\ cdRun'.enabled = cdRun.enabled
  BY <1>1, <1>4
<1>8. CdKept(cdRun, cdList)'
  <2>1. /\ Len(cdRun.accts) <= CdMaxAccts
        /\ \A i \in DOMAIN cdRun.accts :
             cdRun.accts[i].mode = "lists" /\ cdRun.accts[i].zones = {} => "manual" \in cdRun.told
    BY <1>1 DEF CdGood, CdKept
  <2>. QED BY <2>1, <1>7 DEF CdKept, CdAdding
<1>9. CdHand(cdRun, cdList)' BY <1>7 DEF CdHand, CdAdding
<1>10. CdTrack(cdRun)'
  <2>1. \A i \in DOMAIN cdRun.todo : cdRun.todo[i] # "cloudflare" BY <1>1 DEF CdGood, CdTrack, CdOnce
  <2>2. cdRun.attempted \subseteq cdRun.enabled \cup cdRun.told BY <1>1 DEF CdGood, CdTrack, CdSubflow
  <2>. QED BY <2>1, <2>2, <1>7 DEF CdTrack, CdOnce
<1>. QED BY <1>1, <1>3, <1>6, <1>8, <1>9, <1>10 DEF CdIndInv, CdGood

\* wizardEnforcerCloudflare and nameUnnamedCFAccounts.
LEMMA CdMergeStep == ASSUME CdIndInv, NEW label \in CdLabels, CdMerge(label) PROVE CdIndInv'
<1>. DEFINE C == CdMergedAll
<1>1. cdRun.at = "merge" /\ CdClean(C) BY CdMergedClean DEF CdMerge
<1>2. cdRun.told \in CdTellings BY DEF CdIndInv, CdRuns
<1>3. CASE CdGo([cdRun EXCEPT !.at = "done"])
  <2>1. cdRun \in CdRuns BY DEF CdIndInv
  <2>2. [cdRun EXCEPT !.at = "done"] = [cdRun EXCEPT !.at = "done", !.told = cdRun.told] BY <2>1 DEF CdRuns
  <2>. QED BY <2>2, <1>1, <1>2, <1>3, CdMoved
<1>4. CASE CdSave(C) /\ (Len(C) > 1 => "" \notin CdNames1(C)) BY <1>1, <1>4, CdSaveStep
<1>5. CASE label \in CdNames \ CdNames1(C) /\ CdSave(CdLabelled(C, label))
  <2>1. CdClean(CdLabelled(C, label)) /\ "" \notin CdNames1(CdLabelled(C, label)) BY <1>1, <1>5, CdLabelledClean
  <2>. QED BY <1>1, <1>5, <2>1, CdSaveStep
<1>. HIDE DEF C
<1>. QED BY <1>3, <1>4, <1>5 DEF CdMerge, C

\* Every step.
LEMMA CdNextStep == ASSUME CdIndInv, [CdNext]_cdVars PROVE CdIndInv'
<1>1. CASE UNCHANGED cdVars BY <1>1, CdStep DEF cdVars, cdFiles, CdIndInv, CdFileOK
<1>2. CASE \E d \in SUBSET CdProviders : CdStartInit(d) BY <1>2, CdStartInitStep
<1>3. CASE \E redo \in BOOLEAN, t \in CdNames \cup {""} : CdStartConfig(redo, t)
  BY <1>3, CdStartConfigStep DEF CdLabels
<1>4. CASE \E yes \in BOOLEAN : CdAskEdge(yes) BY <1>4, CdAskEdgeStep
<1>5. CASE CdCloudflareStep
  <2>1. CASE \E n \in CdNames \cup {""} : CdName(n) BY <2>1, CdNameStep DEF CdLabels
  <2>2. CASE \E m \in {"lists", "rulesets"} : CdFields(m) BY <2>2, CdFieldsStep DEF CdModes
  <2>3. CASE \E z \in SUBSET CdZones, all \in BOOLEAN : CdTokenGiven(z, all) BY <2>3, CdTokenGivenStep
  <2>4. CASE CdProbe BY <2>4, CdProbeStep
  <2>5. CASE \E ok \in BOOLEAN : CdPreflight(ok) BY <2>5, CdPreflightStep
  <2>6. CASE \E f, d \in SUBSET CdZones : CdRollout(f, d) BY <2>6, CdRolloutStep
  <2>7. CASE CdKeep BY <2>7, CdKeepStep
  <2>8. CASE \E more \in BOOLEAN, l \in CdNames \cup {""} : CdAnother(more, l) BY <2>8, CdAnotherStep DEF CdLabels
  <2>9. CASE \E s \in {"name", "fields", "token", "probe"} : CdFail(s) BY <2>9, CdFailStep DEF CdAdding
  <2>. QED BY <1>5, <2>1, <2>2, <2>3, <2>4, <2>5, <2>6, <2>7, <2>8, <2>9 DEF CdCloudflareStep
<1>6. CASE \E ok \in BOOLEAN : CdBunny(ok) BY <1>6, CdBunnyStep
<1>7. CASE \E s \in {"regional", "cloudfront", "bad"}, sets \in SUBSET {"v4"}, ok \in BOOLEAN : CdAws(s, sets, ok)
  BY <1>7, CdAwsStep
<1>8. CASE CdStepEnds BY <1>8, CdStepEndsStep
<1>9. CASE \E l \in CdNames \cup {""} : CdMerge(l) BY <1>9, CdMergeStep DEF CdLabels
<1>10. CASE CdEnd BY <1>10, CdKilledStep DEF CdEnd
<1>11. CASE CdKilled BY <1>11, CdKilledStep DEF CdKilled
<1>. QED BY <1>1, <1>2, <1>3, <1>4, <1>5, <1>6, <1>7, <1>8, <1>9, <1>10, <1>11 DEF CdNext

\* The first state.
LEMMA CdInitHolds == ASSUME CdInit PROVE CdIndInv
<1>1. cdCfg = <<>> /\ DOMAIN cdCfg = {} /\ cdCfg \in CdAcctSeqs BY DEF CdInit, CdAcctSeqs
<1>2. cdList \in BOOLEAN /\ cdRun = CdIdle BY DEF CdInit
<1>3. cdCount \in 0 .. CdMaxRuns BY CdBounds DEF CdInit
<1>4. cdSaved \in CdEdgeSets /\ cdRules \subseteq CdZones /\ DOMAIN cdTokens = Range(CdVar) BY DEF CdInit, CdEdgeSets
<1>5. CdFileOK BY <1>1, <1>2, <1>3, <1>4 DEF CdFileOK, CdDistinct
<1>. QED BY <1>2, <1>5, CdIdleGood DEF CdIndInv

\* From the first prompt to the merge, the accounts of a run differ from one
\* another and from those of config.yaml that stay, and each is as far proven as
\* the step it is at says (runCloudflareSubflow, promptOneCFAccount).
THEOREM CdInvariant == CdSpec => []CdIndInv
<1>1. CdInit => CdIndInv BY CdInitHolds
<1>2. CdIndInv /\ [CdNext]_cdVars => CdIndInv' BY CdNextStep
<1>. QED BY <1>1, <1>2, PTL DEF CdSpec

\* However many runs add, redo, rename or abort accounts, those of config.yaml
\* have labels and variables of their own, each was proven at the provider and
\* has its token in .env, and nothing asked for failed in silence: CdInv, for any
\* labels, zones, number of runs and accounts (wizardEnforcerCloudflare).
THEOREM CdKeepsApart == CdSpec => []CdInv
<1>1. CdIndInv => CdInv
  <2>. SUFFICES ASSUME CdIndInv PROVE CdInv OBVIOUS
  <2>1. cdRun \in CdRuns /\ CdGood(cdRun, cdList) /\ CdFileOK BY DEF CdIndInv
  <2>2. CdDistinct BY <2>1 DEF CdFileOK
  <2>3. CdProven BY <2>1 DEF CdFileOK, CdFit, CdProven
  <2>4. CdNothingSilent BY <2>1 DEF CdGood, CdKept, CdTrack, CdSubflow, CdNothingSilent
  <2>5. \A i \in DOMAIN cdCfg : cdCfg[i].name \in CdNames \cup {""} /\ cdCfg[i].mode \in {"lists", "rulesets"}
    <3>1. cdCfg \in Seq(CdAccts) BY <2>1 DEF CdFileOK, CdAcctSeqs
    <3>2. \A i \in DOMAIN cdCfg : cdCfg[i] \in CdAccts BY <3>1
    <3>. QED BY <3>2 DEF CdAccts, CdLabels, CdModes
  <2>6. cdRun.at \in CdAts /\ Len(cdRun.accts) <= CdMaxAccts /\ cdRun.detected \subseteq CdProviders
    BY <2>1 DEF CdGood, CdKept, CdRuns, CdDetections
  <2>7. CdTypeOK BY <2>1, <2>5, <2>6 DEF CdTypeOK, CdFileOK, CdEdgeSets
  <2>. QED BY <2>2, <2>3, <2>4, <2>7 DEF CdInv
<1>. QED BY <1>1, CdInvariant, PTL

(***************************************************************************)
(* The address sets of AWS WAF and Bunny.                                  *)
(***************************************************************************)

\* An address list without repetition.
EsList(s) == s \in Seq(EsIPs) /\ IsInjective(s)

\* Dropping an address takes out one place of the list or nothing.
LEMMA EsDropGone ==
  ASSUME NEW s \in Seq(EsIPs), NEW ip
  PROVE  \/ EsDrop(s, ip) = s
         \/ \E n \in 1..Len(s) : EsDrop(s, ip) = RemoveAt(s, n)
<1> DEFINE n == SelectInSeq(s, LAMBDA v : v = ip)
           I == {i \in 1..Len(s) : s[i] = ip}
<1>1. CASE \E i \in 1..Len(s) : s[i] = ip
  <2>1. n = IF I # {} THEN Min(I) ELSE 0 BY DEF SelectInSeq
  <2>2. I # {} /\ I \subseteq Nat BY <1>1
  <2>3. \E x \in I : \A y \in I : x <= y BY <2>2, LeastNatural
  <2>4. Min(I) \in I BY <2>3 DEF Min
  <2>5. n \in 1..Len(s) BY <2>1, <2>2, <2>4
  <2>6. EsDrop(s, ip) = RemoveAt(s, n) BY <1>1 DEF EsDrop, RemoveFirst
  <2> QED BY <2>5, <2>6
<1>2. CASE ~\E i \in 1..Len(s) : s[i] = ip BY <1>2 DEF EsDrop, RemoveFirst
<1> QED BY <1>1, <1>2

\* What RemoveAt leaves.
LEMMA EsRemovedShape ==
  ASSUME NEW s \in Seq(EsIPs), NEW n \in 1..Len(s)
  PROVE  /\ RemoveAt(s, n) \in Seq(EsIPs) /\ Len(RemoveAt(s, n)) = Len(s) - 1
         /\ \A i \in 1..(Len(s) - 1) : RemoveAt(s, n)[i] = IF i < n THEN s[i] ELSE s[i + 1]
<1> DEFINE a == SubSeq(s, 1, n - 1)
           z == SubSeq(s, n + 1, Len(s))
<1>1. Len(s) \in Nat OBVIOUS
<1>2. a \in Seq(EsIPs) /\ Len(a) = n - 1 /\ \A i \in 1..(n - 1) : a[i] = s[i]
  BY <1>1, SubSeqProperties
<1>3. z \in Seq(EsIPs) /\ Len(z) = Len(s) - n /\ \A i \in 1..(Len(s) - n) : z[i] = s[n + i]
  <2>1. \A i \in (n + 1)..Len(s) : s[i] \in EsIPs BY <1>1
  <2> HIDE DEF z
  <2>2. /\ z \in Seq(EsIPs) /\ Len(z) = IF n + 1 <= Len(s) THEN Len(s) - (n + 1) + 1 ELSE 0
        /\ \A i \in 1..(Len(s) - (n + 1) + 1) : z[i] = s[(n + 1) + i - 1]
    BY <1>1, <2>1, SubSeqProperties DEF z
  <2>3. \A i \in 1..(Len(s) - n) : z[i] = s[n + i]
    <3> SUFFICES ASSUME NEW i \in 1..(Len(s) - n) PROVE z[i] = s[n + i] OBVIOUS
    <3>1. i \in 1..(Len(s) - (n + 1) + 1) /\ (n + 1) + i - 1 = n + i BY <1>1
    <3>2. z[i] = s[(n + 1) + i - 1] BY <2>2, <3>1
    <3> QED BY <3>1, <3>2
  <2> QED BY <1>1, <2>2, <2>3
<1>4. RemoveAt(s, n) = a \o z BY DEF RemoveAt
<1> HIDE DEF a, z
<1>5. /\ a \o z \in Seq(EsIPs) /\ Len(a \o z) = Len(a) + Len(z)
      /\ \A i \in 1 .. Len(a) + Len(z) : (a \o z)[i] = IF i <= Len(a) THEN a[i] ELSE z[i - Len(a)]
  BY <1>2, <1>3, ConcatProperties
<1>6. Len(a) + Len(z) = Len(s) - 1 BY <1>1, <1>2, <1>3
<1>7. \A i \in 1..(Len(s) - 1) : (a \o z)[i] = IF i < n THEN s[i] ELSE s[i + 1]
  <2> SUFFICES ASSUME NEW i \in 1..(Len(s) - 1) PROVE (a \o z)[i] = IF i < n THEN s[i] ELSE s[i + 1] OBVIOUS
  <2>1. (a \o z)[i] = IF i <= n - 1 THEN a[i] ELSE z[i - (n - 1)] BY <1>2, <1>5, <1>6
  <2>2. CASE i < n
    <3>1. i <= n - 1 /\ i \in 1..(n - 1) BY <1>1, <2>2
    <3> QED BY <1>2, <2>1, <2>2, <3>1
  <2>3. CASE ~(i < n)
    <3>1. ~(i <= n - 1) /\ i - (n - 1) \in 1..(Len(s) - n) /\ n + (i - (n - 1)) = i + 1 BY <1>1, <2>3
    <3>2. z[i - (n - 1)] = s[n + (i - (n - 1))] BY <1>3, <3>1
    <3> QED BY <2>1, <2>3, <3>1, <3>2
  <2> QED BY <2>2, <2>3
<1> QED BY <1>4, <1>5, <1>6, <1>7

\* Lists without repetition stay so when an address is dropped, the head goes, or
\* a new address comes.
LEMMA EsDropList ==
  ASSUME NEW s, EsList(s), NEW ip
  PROVE  EsList(EsDrop(s, ip)) /\ Len(EsDrop(s, ip)) <= Len(s) /\ ToSet(EsDrop(s, ip)) \subseteq ToSet(s)
<1>1. s \in Seq(EsIPs) /\ Len(s) \in Nat /\ IsInjective(s) BY DEF EsList
<1>2. CASE EsDrop(s, ip) = s BY <1>1, <1>2 DEF EsList
<1>3. ASSUME NEW n \in 1..Len(s), EsDrop(s, ip) = RemoveAt(s, n)
      PROVE  EsList(EsDrop(s, ip)) /\ Len(EsDrop(s, ip)) <= Len(s) /\ ToSet(EsDrop(s, ip)) \subseteq ToSet(s)
  <2> DEFINE d == RemoveAt(s, n)
  <2>1. /\ d \in Seq(EsIPs) /\ Len(d) = Len(s) - 1
        /\ \A i \in 1..(Len(s) - 1) : d[i] = IF i < n THEN s[i] ELSE s[i + 1]
    BY <1>1, EsRemovedShape
  <2> HIDE DEF d
  <2>2. DOMAIN d = 1..(Len(s) - 1) /\ DOMAIN s = 1..Len(s) BY <1>1, <2>1
  <2>3. IsInjective(d)
    <3> SUFFICES ASSUME NEW i \in 1..(Len(s) - 1), NEW k \in 1..(Len(s) - 1), d[i] = d[k] PROVE i = k
      BY <2>2 DEF IsInjective
    <3> DEFINE at(m) == IF m < n THEN m ELSE m + 1
    <3>1. at(i) \in 1..Len(s) /\ at(k) \in 1..Len(s) BY <1>1
    <3>2. d[i] = s[at(i)] /\ d[k] = s[at(k)] BY <2>1
    <3>3. at(i) = at(k) BY <1>1, <2>2, <3>1, <3>2 DEF IsInjective
    <3> QED BY <1>1, <3>3
  <2>4. ToSet(d) \subseteq ToSet(s)
    <3> SUFFICES ASSUME NEW i \in 1..(Len(s) - 1) PROVE \E k \in 1..Len(s) : d[i] = s[k]
      BY <2>2 DEF ToSet
    <3>1. i \in 1..Len(s) /\ i + 1 \in 1..Len(s) BY <1>1
    <3> QED BY <2>1, <3>1
  <2>5. EsDrop(s, ip) = d BY <1>3 DEF d
  <2> QED BY <1>1, <2>1, <2>3, <2>4, <2>5 DEF EsList
<1> QED BY <1>1, <1>2, <1>3, EsDropGone

LEMMA EsTailList ==
  ASSUME NEW s, EsList(s), s # <<>>
  PROVE  /\ EsList(Tail(s)) /\ Len(Tail(s)) = Len(s) - 1 /\ Head(s) \in EsIPs
         /\ ToSet(s) = ToSet(Tail(s)) \cup {Head(s)} /\ Head(s) \notin ToSet(Tail(s))
<1>1. s \in Seq(EsIPs) /\ Len(s) \in Nat /\ IsInjective(s) /\ DOMAIN s = 1..Len(s) BY DEF EsList
<1> DEFINE d == Tail(s)
<1>2. d \in Seq(EsIPs) /\ Len(d) = Len(s) - 1 /\ (\A i \in 1..Len(d) : d[i] = s[i + 1])
  BY <1>1, HeadTailProperties
<1>3. Head(s) = s[1] /\ Len(s) >= 1 BY <1>1
<1> HIDE DEF d
<1>4. DOMAIN d = 1..(Len(s) - 1) BY <1>2
<1>5. \A i \in 1..(Len(s) - 1) : d[i] = s[i + 1] /\ i + 1 \in 1..Len(s) BY <1>1, <1>2
<1>6. IsInjective(d) BY <1>1, <1>4, <1>5 DEF IsInjective
<1>7. Head(s) \notin ToSet(d)
  <2>1. \A i \in 1..(Len(s) - 1) : s[i + 1] # s[1] BY <1>1, <1>3, <1>5 DEF IsInjective
  <2> QED BY <1>3, <1>4, <1>5, <2>1 DEF ToSet
<1>8. ToSet(s) = ToSet(d) \cup {Head(s)}
  <2>1. \A i \in 1..Len(s) : i = 1 \/ (i - 1 \in 1..(Len(s) - 1) /\ (i - 1) + 1 = i) BY <1>1
  <2>2. \A i \in 1..Len(s) : s[i] \in ToSet(d) \cup {Head(s)}
    <3> SUFFICES ASSUME NEW i \in 1..Len(s) PROVE s[i] \in ToSet(d) \cup {Head(s)} OBVIOUS
    <3>1. CASE i = 1 BY <1>3, <3>1
    <3>2. CASE i # 1
      <4>1. i - 1 \in DOMAIN d /\ d[i - 1] = s[i] BY <1>4, <1>5, <2>1, <3>2
      <4> QED BY <4>1 DEF ToSet
    <3> QED BY <3>1, <3>2
  <2>3. \A i \in 1..(Len(s) - 1) : d[i] \in ToSet(s) BY <1>1, <1>5 DEF ToSet
  <2>4. Head(s) \in ToSet(s) BY <1>1, <1>3 DEF ToSet
  <2> QED BY <1>1, <1>4, <2>2, <2>3, <2>4 DEF ToSet
<1> QED BY <1>1, <1>2, <1>3, <1>6, <1>7, <1>8 DEF EsList, d

LEMMA EsAppendList ==
  ASSUME NEW s, EsList(s), NEW ip \in EsIPs, ip \notin ToSet(s)
  PROVE  EsList(Append(s, ip)) /\ Len(Append(s, ip)) = Len(s) + 1 /\ ToSet(Append(s, ip)) = ToSet(s) \cup {ip}
<1>1. s \in Seq(EsIPs) /\ Len(s) \in Nat /\ IsInjective(s) /\ DOMAIN s = 1..Len(s) BY DEF EsList
<1> DEFINE d == Append(s, ip)
<1>2. /\ d \in Seq(EsIPs) /\ Len(d) = Len(s) + 1 /\ (\A i \in 1..Len(s) : d[i] = s[i])
      /\ d[Len(s) + 1] = ip
  BY <1>1, AppendProperties
<1> HIDE DEF d
<1>3. DOMAIN d = 1..(Len(s) + 1) BY <1>2
<1>4. \A i \in 1..(Len(s) + 1) : i \in 1..Len(s) \/ i = Len(s) + 1 BY <1>1
<1>5. \A i \in 1..Len(s) : s[i] # ip BY <1>1 DEF ToSet
<1>6. IsInjective(d) BY <1>1, <1>2, <1>3, <1>4, <1>5 DEF IsInjective
<1>7. ToSet(d) = ToSet(s) \cup {ip}
  <2>1. \A i \in 1..(Len(s) + 1) : d[i] \in ToSet(s) \cup {ip} BY <1>1, <1>2, <1>4 DEF ToSet
  <2>2. \A i \in 1..Len(s) : s[i] \in ToSet(d)
    <3>1. \A i \in 1..Len(s) : i \in 1..(Len(s) + 1) BY <1>1
    <3> QED BY <1>2, <1>3, <3>1 DEF ToSet
  <2>3. Len(s) + 1 \in 1..(Len(s) + 1) BY <1>1
  <2>4. ip \in ToSet(d) BY <1>2, <1>3, <2>3 DEF ToSet
  <2> QED BY <1>1, <1>3, <2>1, <2>2, <2>4 DEF ToSet
<1> QED BY <1>2, <1>6, <1>7 DEF EsList, d

LEMMA EsEmptyList == EsList(<<>>) /\ Len(<<>>) = 0 /\ ToSet(<<>>) = {}
BY DEF EsList, IsInjective, ToSet

\* The newest targets of a list fit into the cap.
LEMMA EsKeptList ==
  ASSUME NEW s, EsList(s)
  PROVE  EsList(EsKept(s)) /\ Len(EsKept(s)) <= EsCap
<1>0. EsCap \in Nat \ {0} BY EsAssumption
<1>1. s \in Seq(EsIPs) /\ Len(s) \in Nat /\ IsInjective(s) /\ DOMAIN s = 1..Len(s) BY DEF EsList
<1> DEFINE m == IF Len(s) > EsCap THEN Len(s) - EsCap + 1 ELSE 1
           d == SubSeq(s, m, Len(s))
<1>2. m \in Nat /\ m >= 1 /\ Len(s) - m + 1 <= EsCap /\ (Len(s) = 0 => m = 1) /\ m <= Len(s) + 1 BY <1>0, <1>1
<1> HIDE DEF m
<1>3. /\ d \in Seq(EsIPs) /\ Len(d) = IF m <= Len(s) THEN Len(s) - m + 1 ELSE 0
      /\ \A i \in 1..(Len(s) - m + 1) : d[i] = s[m + i - 1]
  <2>1. \A i \in m..Len(s) : s[i] \in EsIPs BY <1>1, <1>2
  <2> QED BY <1>1, <1>2, <2>1, SubSeqProperties
<1> HIDE DEF d
<1>4. DOMAIN d = 1..(Len(s) - m + 1) BY <1>1, <1>2, <1>3
<1>5. \A i \in 1..(Len(s) - m + 1) : m + i - 1 \in 1..Len(s) BY <1>1, <1>2
<1>6. IsInjective(d)
  <2> SUFFICES ASSUME NEW i \in 1..(Len(s) - m + 1), NEW k \in 1..(Len(s) - m + 1), d[i] = d[k] PROVE i = k
    BY <1>4 DEF IsInjective
  <2>1. m + i - 1 = m + k - 1 BY <1>1, <1>3, <1>5 DEF IsInjective
  <2> QED BY <1>1, <1>2, <2>1
<1>7. Len(d) <= EsCap BY <1>0, <1>1, <1>2, <1>3
<1>8. EsKept(s) = d BY DEF EsKept, d, m
<1> QED BY <1>3, <1>6, <1>7, <1>8 DEF EsList


\* What an enforcer may be working on.
EsJobs == [op : {"none", "ban", "unban", "fetch", "sync"}, ip : EsIPs \cup {"none"}, del : SUBSET EsIPs,
           add : Seq(EsIPs), got : Seq(EsIPs), tries : 0..EsLockTries, read : BOOLEAN]

\* A call under way and the cache s it will change: a ban's address is not in the
\* cache and finds room in it, a reconcile's list and what it has filled are apart
\* and fit together, and a read leaves a try for the next one.
EsCallOK(j, s) ==
    /\ j.op \in {"ban", "unban"} => j.ip \in EsIPs
    /\ j.op = "unban" => j.del = {j.ip}
    /\ j.op = "ban" => /\ j.ip \notin ToSet(s)
                       /\ IF j.del = {} THEN Len(s) < EsCap ELSE s # <<>> /\ j.del = {Head(s)}
    /\ j.op \in {"fetch", "sync"} => /\ EsList(j.add) /\ EsList(j.got) /\ ToSet(j.add) \cap ToSet(j.got) = {}
                                     /\ Len(j.add) + Len(j.got) <= EsCap
    /\ ~j.read => j.tries < EsLockTries

\* A well-formed job over a well-formed cache.
EsGood(j, s) == j \in EsJobs /\ EsList(s) /\ Len(s) <= EsCap /\ EsCallOK(j, s)

LEMMA EsGoodFacts ==
  ASSUME NEW j, NEW s, EsGood(j, s)
  PROVE  j \in EsJobs /\ EsList(s) /\ Len(s) <= EsCap /\ Len(s) \in Nat
BY DEF EsGood, EsList

\* The job of a ban or unban, and the job of a reconcile.
EsAsked(o, i, d) == [EsNoJob EXCEPT !.op = o, !.ip = i, !.del = d]
EsSyncing(o, a) == [EsNoJob EXCEPT !.op = o, !.add = a]

\* The fields of the jobs a call starts with.
LEMMA EsNoJobShape ==
  /\ EsNoJob \in EsJobs /\ EsNoJob.op = "none" /\ EsNoJob.add = <<>> /\ EsNoJob.got = <<>>
  /\ EsNoJob.tries = 0 /\ EsNoJob.read = FALSE
<1>0. 0 \in 0..EsLockTries BY EsAssumption
<1>1. <<>> \in Seq(EsIPs) OBVIOUS
<1>2. EsNoJob \in EsJobs BY <1>0, <1>1 DEF EsNoJob, EsJobs
<1> QED BY <1>2 DEF EsNoJob

LEMMA EsAskedShape ==
  ASSUME NEW o, o \in {"ban", "unban"}, NEW i \in EsIPs, NEW d \in SUBSET EsIPs
  PROVE  LET j == EsAsked(o, i, d)
         IN  j.op = o /\ j.ip = i /\ j.del = d /\ j.tries = 0 /\ j.read = FALSE /\ j \in EsJobs
BY EsNoJobShape DEF EsJobs, EsAsked

LEMMA EsSyncingShape ==
  ASSUME NEW o \in {"fetch", "sync"}, NEW a \in Seq(EsIPs)
  PROVE  /\ EsSyncing(o, a) \in EsJobs /\ EsSyncing(o, a).op = o /\ EsSyncing(o, a).add = a
         /\ EsSyncing(o, a).got = <<>> /\ EsSyncing(o, a).tries = 0 /\ EsSyncing(o, a).read = FALSE
BY EsNoJobShape DEF EsJobs, EsSyncing

\* Arithmetic on lengths.
LEMMA EsLengths ==
  ASSUME NEW a \in Nat, NEW g \in Nat, NEW c \in Nat, a + g <= c
  PROVE  a <= c /\ g <= c /\ \A x, y : x = a - 1 /\ (y = g \/ y = g + 1) => x + y <= c
OBVIOUS

\* Each step of a call takes a good job and cache to good ones.
LEMMA EsGoodEnd ==
  ASSUME NEW s, EsList(s), Len(s) <= EsCap
  PROVE  EsGood(EsNoJob, s)
<1>1. EsNoJob \in EsJobs BY EsAssumption DEF EsNoJob, EsJobs
<1>2. EsCallOK(EsNoJob, s) BY EsAssumption DEF EsNoJob, EsCallOK
<1> QED BY <1>1, <1>2 DEF EsGood

LEMMA EsGoodBan ==
  ASSUME NEW s, EsList(s), Len(s) <= EsCap, NEW ip \in EsIPs, ip \notin ToSet(s)
  PROVE  EsGood(EsAsked("ban", ip, IF Len(s) >= EsCap THEN {Head(s)} ELSE {}), s)
<1> DEFINE d == IF Len(s) >= EsCap THEN {Head(s)} ELSE {}
           j == EsAsked("ban", ip, d)
<1>0. EsCap \in Nat \ {0} /\ EsLockTries \in Nat \ {0} BY EsAssumption
<1>1. s \in Seq(EsIPs) /\ Len(s) \in Nat BY DEF EsList
<1>2. Len(s) >= EsCap => s # <<>> /\ Head(s) \in EsIPs BY <1>0, <1>1
<1>3. d \in SUBSET EsIPs BY <1>2
<1>4. IF d = {} THEN Len(s) < EsCap ELSE s # <<>> /\ d = {Head(s)} BY <1>0, <1>1, <1>2
<1> HIDE DEF d
<1>5. /\ j.op = "ban" /\ j.ip = ip /\ j.del = d /\ j.tries = 0 /\ j.read = FALSE /\ j \in EsJobs
  <2>1. "ban" \in {"ban", "unban"} OBVIOUS
  <2> QED BY <1>3, <2>1, EsAskedShape
<1> HIDE DEF j
<1>6. EsCallOK(j, s) BY <1>0, <1>4, <1>5 DEF EsCallOK
<1> QED BY <1>5, <1>6 DEF EsGood, j, d

LEMMA EsGoodUnban ==
  ASSUME NEW s, EsList(s), Len(s) <= EsCap, NEW ip \in EsIPs
  PROVE  EsGood(EsAsked("unban", ip, {ip}), s)
<1> DEFINE j == EsAsked("unban", ip, {ip})
<1>0. EsLockTries \in Nat \ {0} BY EsAssumption
<1>1. {ip} \in SUBSET EsIPs OBVIOUS
<1>2. /\ j.op = "unban" /\ j.ip = ip /\ j.del = {ip} /\ j.tries = 0 /\ j.read = FALSE /\ j \in EsJobs
  <2>1. "unban" \in {"ban", "unban"} OBVIOUS
  <2> QED BY <1>1, <2>1, EsAskedShape
<1> HIDE DEF j
<1>3. EsCallOK(j, s) BY <1>0, <1>2 DEF EsCallOK
<1> QED BY <1>2, <1>3 DEF EsGood, j

LEMMA EsGoodSync ==
  ASSUME NEW s, EsList(s), Len(s) <= EsCap, NEW o \in {"fetch", "sync"}, NEW k, EsList(k), Len(k) <= EsCap
  PROVE  EsGood(EsSyncing(o, k), s)
<1> DEFINE j == EsSyncing(o, k)
<1>0. EsLockTries \in Nat \ {0} BY EsAssumption
<1>1. k \in Seq(EsIPs) BY DEF EsList
<1>2. /\ j.op = o /\ j.add = k /\ j.got = <<>> /\ j.tries = 0 /\ j.read = FALSE /\ j \in EsJobs
  BY <1>1, EsSyncingShape
<1> HIDE DEF j
<1>3. Len(k) \in Nat BY <1>1
<1>4. Len(k) + 0 <= EsCap BY <1>3
<1>5. EsCallOK(j, s) BY <1>0, <1>2, <1>4, EsEmptyList DEF EsCallOK
<1> QED BY <1>2, <1>5 DEF EsGood, j

LEMMA EsGoodEvict ==
  ASSUME NEW s, NEW j, EsGood(j, s), j.op = "ban", j.del # {}
  PROVE  EsGood([j EXCEPT !.del = {}], Tail(s)) /\ Head(s) \in EsIPs
<1> DEFINE k == [j EXCEPT !.del = {}]
<1>0. EsCap \in Nat \ {0} BY EsAssumption
<1>1. j \in EsJobs /\ EsList(s) /\ Len(s) <= EsCap /\ Len(s) \in Nat BY EsGoodFacts
<1>2. /\ j.ip \in EsIPs /\ j.ip \notin ToSet(s) /\ s # <<>> /\ (~j.read => j.tries < EsLockTries)
  BY DEF EsGood, EsCallOK
<1>3. k \in EsJobs /\ k.op = "ban" /\ k.ip = j.ip /\ k.del = {} /\ k.tries = j.tries /\ k.read = j.read
  BY <1>1 DEF EsJobs
<1>4. /\ EsList(Tail(s)) /\ Len(Tail(s)) = Len(s) - 1 /\ Head(s) \in EsIPs
      /\ ToSet(s) = ToSet(Tail(s)) \cup {Head(s)}
  BY <1>1, <1>2, EsTailList
<1>5. Len(Tail(s)) < EsCap BY <1>0, <1>1, <1>4
<1> HIDE DEF k
<1>6. EsCallOK(k, Tail(s)) BY <1>2, <1>3, <1>4, <1>5 DEF EsCallOK
<1>7. Len(Tail(s)) <= EsCap BY <1>0, <1>1, <1>4
<1> QED BY <1>3, <1>4, <1>6, <1>7 DEF EsGood, k

LEMMA EsGoodAdd ==
  ASSUME NEW s, NEW j, EsGood(j, s), j.op = "ban", j.del = {}
  PROVE  EsGood(EsNoJob, Append(s, j.ip)) /\ j.ip \in EsIPs
<1>0. EsCap \in Nat \ {0} BY EsAssumption
<1>1. EsList(s) /\ Len(s) \in Nat BY EsGoodFacts
<1>2. j.ip \in EsIPs /\ j.ip \notin ToSet(s) /\ Len(s) < EsCap BY DEF EsGood, EsCallOK
<1>3. EsList(Append(s, j.ip)) /\ Len(Append(s, j.ip)) = Len(s) + 1 BY <1>1, <1>2, EsAppendList
<1>4. Len(Append(s, j.ip)) <= EsCap BY <1>0, <1>1, <1>2, <1>3
<1> QED BY <1>2, <1>3, <1>4, EsGoodEnd

LEMMA EsGoodDrop ==
  ASSUME NEW s, NEW j, EsGood(j, s), NEW ip
  PROVE  EsGood(EsNoJob, EsDrop(s, ip))
<1>0. EsCap \in Nat \ {0} BY EsAssumption
<1>1. EsList(s) /\ Len(s) \in Nat /\ Len(s) <= EsCap BY EsGoodFacts
<1>2. EsList(EsDrop(s, ip)) /\ Len(EsDrop(s, ip)) <= Len(s) BY <1>1, EsDropList
<1>3. Len(EsDrop(s, ip)) \in Nat BY <1>2 DEF EsList
<1>4. Len(EsDrop(s, ip)) <= EsCap BY <1>0, <1>1, <1>2, <1>3
<1> QED BY <1>2, <1>4, EsGoodEnd

LEMMA EsGoodFetch ==
  ASSUME NEW s, NEW j, EsGood(j, s), j.op = "fetch", NEW d \in SUBSET EsIPs
  PROVE  EsGood([j EXCEPT !.op = "sync", !.del = d], s)
<1> DEFINE k == [j EXCEPT !.op = "sync", !.del = d]
<1>1. j \in EsJobs /\ EsList(s) /\ Len(s) <= EsCap BY EsGoodFacts
<1>2. /\ k \in EsJobs /\ k.op = "sync" /\ k.add = j.add /\ k.got = j.got /\ k.tries = j.tries /\ k.read = j.read
  BY <1>1 DEF EsJobs
<1> HIDE DEF k
<1>3. EsCallOK(k, s) BY <1>2 DEF EsGood, EsCallOK
<1> QED BY <1>1, <1>2, <1>3 DEF EsGood, k

LEMMA EsGoodPrune ==
  ASSUME NEW s, NEW j, EsGood(j, s), j.op = "sync", NEW ip
  PROVE  EsGood([j EXCEPT !.del = @ \ {ip}], s)
<1> DEFINE k == [j EXCEPT !.del = @ \ {ip}]
<1>1. j \in EsJobs /\ EsList(s) /\ Len(s) <= EsCap BY EsGoodFacts
<1>2. /\ k \in EsJobs /\ k.op = "sync" /\ k.add = j.add /\ k.got = j.got /\ k.tries = j.tries /\ k.read = j.read
  BY <1>1 DEF EsJobs
<1> HIDE DEF k
<1>3. EsCallOK(k, s) BY <1>2 DEF EsGood, EsCallOK
<1> QED BY <1>1, <1>2, <1>3 DEF EsGood, k

LEMMA EsGoodFill ==
  ASSUME NEW s, NEW j, EsGood(j, s), j.op = "sync", j.add # <<>>,
         NEW g, g = j.got \/ g = Append(j.got, Head(j.add))
  PROVE  EsGood([j EXCEPT !.add = Tail(@), !.got = g], s) /\ Head(j.add) \in EsIPs
<1> DEFINE k == [j EXCEPT !.add = Tail(@), !.got = g]
           a == j.add
<1>0. EsCap \in Nat \ {0} BY EsAssumption
<1>1. j \in EsJobs /\ EsList(s) /\ Len(s) <= EsCap BY EsGoodFacts
<1>2. /\ EsList(a) /\ EsList(j.got) /\ ToSet(a) \cap ToSet(j.got) = {} /\ Len(a) + Len(j.got) <= EsCap
      /\ (~j.read => j.tries < EsLockTries)
  BY DEF EsGood, EsCallOK
<1>3. Len(a) \in Nat /\ Len(j.got) \in Nat BY <1>2 DEF EsList
<1>4. /\ EsList(Tail(a)) /\ Len(Tail(a)) = Len(a) - 1 /\ Head(a) \in EsIPs
      /\ ToSet(a) = ToSet(Tail(a)) \cup {Head(a)} /\ Head(a) \notin ToSet(Tail(a))
  BY <1>2, EsTailList
<1>5. Head(a) \notin ToSet(j.got) BY <1>2, <1>4
<1>6. /\ EsList(Append(j.got, Head(a))) /\ Len(Append(j.got, Head(a))) = Len(j.got) + 1
      /\ ToSet(Append(j.got, Head(a))) = ToSet(j.got) \cup {Head(a)}
  BY <1>2, <1>4, <1>5, EsAppendList
<1>7. EsList(g) /\ ToSet(g) \subseteq ToSet(j.got) \cup {Head(a)} BY <1>2, <1>6
<1>8. Len(g) = Len(j.got) \/ Len(g) = Len(j.got) + 1 BY <1>6
<1>9. Len(Tail(a)) + Len(g) <= EsCap
  <2>1. Len(a) + Len(j.got) <= EsCap BY <1>2
  <2>2. \A x, y : x = Len(a) - 1 /\ (y = Len(j.got) \/ y = Len(j.got) + 1) => x + y <= EsCap
    BY <1>0, <1>3, <2>1, EsLengths
  <2> QED BY <1>4, <1>8, <2>2
<1>10. ToSet(Tail(a)) \cap ToSet(g) = {} BY <1>2, <1>4, <1>7
<1>11. Tail(a) \in Seq(EsIPs) /\ g \in Seq(EsIPs) BY <1>4, <1>7 DEF EsList
<1>12. /\ k \in EsJobs /\ k.op = "sync" /\ k.add = Tail(a) /\ k.got = g /\ k.tries = j.tries /\ k.read = j.read
  BY <1>1, <1>11 DEF EsJobs
<1> HIDE DEF k
<1>13. EsCallOK(k, s) BY <1>2, <1>4, <1>7, <1>9, <1>10, <1>12 DEF EsCallOK
<1> QED BY <1>1, <1>4, <1>12, <1>13 DEF EsGood, k

LEMMA EsGoodSynced ==
  ASSUME NEW s, NEW j, EsGood(j, s), j.op = "sync", NEW g, g = j.got \/ g = j.add
  PROVE  EsGood(EsNoJob, g) /\ ToSet(g) \subseteq EsIPs
<1>0. EsCap \in Nat \ {0} BY EsAssumption
<1>1. EsList(j.add) /\ EsList(j.got) /\ Len(j.add) + Len(j.got) <= EsCap BY DEF EsGood, EsCallOK
<1>2. Len(j.add) \in Nat /\ Len(j.got) \in Nat BY <1>1 DEF EsList
<1>3. Len(j.add) <= EsCap /\ Len(j.got) <= EsCap
  <2>1. Len(j.add) + Len(j.got) <= EsCap BY <1>1
  <2> QED BY <1>0, <1>2, <2>1, EsLengths
<1>4. EsList(g) /\ Len(g) <= EsCap BY <1>1, <1>3
<1>5. ToSet(g) \subseteq EsIPs BY <1>4 DEF EsList, ToSet
<1> QED BY <1>4, <1>5, EsGoodEnd

LEMMA EsGoodRead ==
  ASSUME NEW s, NEW j, EsGood(j, s), ~j.read
  PROVE  EsGood([j EXCEPT !.read = TRUE, !.tries = @ + 1], s)
<1> DEFINE k == [j EXCEPT !.read = TRUE, !.tries = @ + 1]
<1>0. EsLockTries \in Nat \ {0} BY EsAssumption
<1>1. j \in EsJobs /\ EsList(s) /\ Len(s) <= EsCap BY EsGoodFacts
<1>2. j.tries < EsLockTries BY DEF EsGood, EsCallOK
<1>3. j.tries + 1 \in 0..EsLockTries BY <1>0, <1>1, <1>2 DEF EsJobs
<1>4. /\ k \in EsJobs /\ k.op = j.op /\ k.ip = j.ip /\ k.del = j.del /\ k.add = j.add /\ k.got = j.got /\ k.read = TRUE
  BY <1>1, <1>3 DEF EsJobs
<1> HIDE DEF k
<1>5. EsCallOK(k, s) BY <1>4 DEF EsGood, EsCallOK
<1> QED BY <1>1, <1>4, <1>5 DEF EsGood, k

LEMMA EsGoodAgain ==
  ASSUME NEW s, NEW j, EsGood(j, s), j.tries < EsLockTries
  PROVE  EsGood([j EXCEPT !.read = FALSE], s)
<1> DEFINE k == [j EXCEPT !.read = FALSE]
<1>1. j \in EsJobs /\ EsList(s) /\ Len(s) <= EsCap BY EsGoodFacts
<1>2. /\ k \in EsJobs /\ k.op = j.op /\ k.ip = j.ip /\ k.del = j.del /\ k.add = j.add /\ k.got = j.got
      /\ k.tries = j.tries
  BY <1>1 DEF EsJobs
<1> HIDE DEF k
<1>3. EsCallOK(k, s) BY <1>2 DEF EsGood, EsCallOK
<1> QED BY <1>1, <1>2, <1>3 DEF EsGood, k

\* Both branches of a full cache: the oldest entry goes, the new one comes.
LEMMA EsGoodPut ==
  ASSUME NEW s, NEW j, EsGood(j, s), j.op = "ban"
  PROVE  EsGood(EsNoJob, Append(IF j.del = {} THEN s ELSE Tail(s), j.ip)) /\ j.ip \in EsIPs
<1>1. CASE j.del = {} BY <1>1, EsGoodAdd
<1>2. CASE j.del # {}
  <2> DEFINE k == [j EXCEPT !.del = {}]
  <2>1. EsGood(k, Tail(s)) BY <1>2, EsGoodEvict
  <2>2. k.op = "ban" /\ k.del = {} /\ k.ip = j.ip BY EsGoodFacts DEF EsJobs
  <2> HIDE DEF k
  <2>3. EsGood(EsNoJob, Append(Tail(s), k.ip)) /\ k.ip \in EsIPs BY <2>1, <2>2, EsGoodAdd
  <2> QED BY <1>2, <2>2, <2>3
<1> QED BY <1>1, <1>2

---------------------------------------------------------------------------

\* What is true of the edges and the bounds, whatever the jobs do.
EsEdgesOK ==
    /\ esRemote \in [EsBackends -> SUBSET EsIPs] /\ esToken \in BOOLEAN /\ esRead \subseteq EsIPs
    /\ esToken => esRead = esRemote["aws"]
    /\ EsList(esWant) /\ esCalls \in 0..EsMaxCalls /\ esFaults \in 0..EsMaxFaults

\* Each backend's job and cache; AWS has no separate fetch.
EsCachesOK ==
    /\ DOMAIN esJob = EsBackends /\ DOMAIN esOrder = EsBackends
    /\ \A b \in EsBackends : EsGood(esJob[b], esOrder[b])
    /\ esJob["aws"].op # "fetch"

LEMMA EsCachesInit == EsInit => EsCachesOK /\ EsEdgesOK
<1> SUFFICES ASSUME EsInit PROVE EsCachesOK /\ EsEdgesOK OBVIOUS
<1> USE DEF EsInit
<1>1. EsGood(EsNoJob, <<>>)
  <2>1. Len(<<>>) <= EsCap BY EsAssumption, EsEmptyList
  <2> QED BY <2>1, EsEmptyList, EsGoodEnd
<1>2. \A b \in EsBackends : esJob[b] = EsNoJob /\ esOrder[b] = <<>> OBVIOUS
<1>3. EsCachesOK BY <1>1, <1>2, EsNoJobShape DEF EsCachesOK, EsBackends
<1>4. EsList(esWant) BY EsEmptyList
<1>5. 0 \in 0..EsMaxCalls /\ 0 \in 0..EsMaxFaults BY EsAssumption
<1>6. EsEdgesOK BY <1>4, <1>5 DEF EsEdgesOK
<1> QED BY <1>3, <1>6

\* One backend worked on its job, the other is as it was.
LEMMA EsOneWorked ==
  ASSUME EsCachesOK, NEW b \in EsBackends, NEW j, NEW s,
         esJob' = [esJob EXCEPT ![b] = j], esOrder' = [esOrder EXCEPT ![b] = s] \/ (s = esOrder[b] /\ esOrder' = esOrder),
         EsGood(j, s), b = "aws" => j.op # "fetch"
  PROVE  EsCachesOK'
<1>1. /\ DOMAIN esJob = EsBackends /\ DOMAIN esOrder = EsBackends
      /\ (\A c \in EsBackends : EsGood(esJob[c], esOrder[c])) /\ esJob["aws"].op # "fetch"
  BY DEF EsCachesOK
<1>2. /\ DOMAIN esJob' = EsBackends /\ DOMAIN esOrder' = EsBackends BY <1>1
<1>3. \A c \in EsBackends : EsGood(esJob'[c], esOrder'[c])
  <2> SUFFICES ASSUME NEW c \in EsBackends PROVE EsGood(esJob'[c], esOrder'[c]) OBVIOUS
  <2>1. CASE c = b
    <3>1. esJob'[c] = j /\ esOrder'[c] = s BY <1>1, <2>1
    <3> QED BY <3>1
  <2>2. CASE c # b
    <3>1. esJob'[c] = esJob[c] /\ esOrder'[c] = esOrder[c] BY <1>1, <2>2
    <3> QED BY <1>1, <3>1
  <2> QED BY <2>1, <2>2
<1>4. esJob'["aws"].op # "fetch"
  <2>1. "aws" \in EsBackends BY DEF EsBackends
  <2>2. CASE b = "aws"
    <3>1. esJob'["aws"] = j BY <1>1, <2>1, <2>2
    <3> QED BY <2>2, <3>1
  <2>3. CASE b # "aws"
    <3>1. esJob'["aws"] = esJob["aws"] BY <1>1, <2>1, <2>3
    <3> QED BY <1>1, <3>1
  <2> QED BY <2>2, <2>3
<1>5. (\A c \in EsBackends : EsGood(esJob[c], esOrder[c]))' BY <1>3
<1> QED BY <1>2, <1>4, <1>5 DEF EsCachesOK

LEMMA EsCachesFacts ==
  ASSUME EsCachesOK, NEW b \in EsBackends
  PROVE  /\ EsGood(esJob[b], esOrder[b]) /\ esJob[b] \in EsJobs /\ EsList(esOrder[b]) /\ Len(esOrder[b]) <= EsCap
         /\ DOMAIN esJob = EsBackends /\ DOMAIN esOrder = EsBackends
BY EsGoodFacts DEF EsCachesOK

\* A call for every enforcer, and the store's row with it.
LEMMA EsCallStep ==
  ASSUME EsEdgesOK, EsCall
  PROVE  esCalls' \in 0..EsMaxCalls
<1>1. esCalls \in 0..EsMaxCalls /\ esCalls < EsMaxCalls /\ esCalls' = esCalls + 1 BY DEF EsEdgesOK, EsCall
<1> QED BY <1>1, EsAssumption

LEMMA EsCallsKeep ==
  ASSUME EsCachesOK, EsEdgesOK, (\E ip \in EsIPs : EsBan(ip) \/ EsUnban(ip) \/ EsExpire(ip)) \/ EsSync
  PROVE  EsCachesOK' /\ EsEdgesOK'
<1>1. ASSUME NEW ip \in EsIPs, EsBan(ip) PROVE EsCachesOK' /\ EsEdgesOK'
  <2>1. esOrder' = esOrder /\ esWant' = Append(esWant, ip) /\ ip \notin ToSet(esWant) BY <1>1 DEF EsBan
  <2>2. esJob' = [b \in EsBackends |->
           IF ip \in ToSet(esOrder[b]) THEN EsNoJob
           ELSE EsAsked("ban", ip, IF Len(esOrder[b]) >= EsCap THEN {Head(esOrder[b])} ELSE {})]
    BY <1>1 DEF EsBan, EsAsked
  <2>3. ASSUME NEW b \in EsBackends
        PROVE  EsGood(esJob'[b], esOrder[b]) /\ esJob'[b].op # "fetch"
    <3>1. EsList(esOrder[b]) /\ Len(esOrder[b]) <= EsCap BY EsCachesFacts
    <3>2. CASE ip \in ToSet(esOrder[b]) BY <2>2, <3>1, <3>2, EsGoodEnd, EsNoJobShape
    <3>3. CASE ip \notin ToSet(esOrder[b])
      <4> DEFINE d == IF Len(esOrder[b]) >= EsCap THEN {Head(esOrder[b])} ELSE {}
      <4>1. esJob'[b] = EsAsked("ban", ip, d) BY <2>2, <3>3
      <4>2. EsGood(EsAsked("ban", ip, d), esOrder[b]) BY <3>1, <3>3, EsGoodBan
      <4> HIDE DEF d
      <4>3. EsAsked("ban", ip, d).op = "ban" BY EsNoJobShape DEF EsAsked, EsJobs
      <4> QED BY <4>1, <4>2, <4>3
    <3> QED BY <3>2, <3>3
  <2>4. EsCachesOK'
    <3>1. DOMAIN esJob' = EsBackends /\ DOMAIN esOrder' = EsBackends BY <2>1, <2>2 DEF EsCachesOK
    <3>2. (\A b \in EsBackends : EsGood(esJob[b], esOrder[b]))' BY <2>1, <2>3
    <3>3. esJob'["aws"].op # "fetch" BY <2>3 DEF EsBackends
    <3> QED BY <3>1, <3>2, <3>3 DEF EsCachesOK
  <2>5. EsList(Append(esWant, ip)) BY <2>1, EsAppendList DEF EsEdgesOK
  <2>6. EsEdgesOK'
    <3>1. EsCall /\ UNCHANGED <<esRemote, esToken, esRead, esFaults>> BY <1>1 DEF EsBan
    <3>2. esCalls' \in 0..EsMaxCalls BY <3>1, EsCallStep
    <3>3. EsList(esWant)' BY <2>1, <2>5
    <3> QED BY <3>1, <3>2, <3>3 DEF EsEdgesOK
  <2> QED BY <2>4, <2>6
<1>2. ASSUME NEW ip \in EsIPs, EsUnban(ip) PROVE EsCachesOK' /\ EsEdgesOK'
  <2>1. esOrder' = esOrder /\ esWant' = EsDrop(esWant, ip) BY <1>2 DEF EsUnban
  <2>2. esJob' = [b \in EsBackends |-> EsAsked("unban", ip, {ip})] BY <1>2 DEF EsUnban, EsAsked
  <2>3. EsAsked("unban", ip, {ip}).op = "unban" BY EsNoJobShape DEF EsAsked, EsJobs
  <2>4. ASSUME NEW b \in EsBackends PROVE EsGood(esJob'[b], esOrder[b])
    <3>1. EsList(esOrder[b]) /\ Len(esOrder[b]) <= EsCap BY EsCachesFacts
    <3> QED BY <2>2, <3>1, EsGoodUnban
  <2>5. EsCachesOK'
    <3>1. DOMAIN esJob' = EsBackends /\ DOMAIN esOrder' = EsBackends BY <2>1, <2>2 DEF EsCachesOK
    <3>2. (\A b \in EsBackends : EsGood(esJob[b], esOrder[b]))' BY <2>1, <2>4
    <3>3. esJob'["aws"].op # "fetch" BY <2>2, <2>3 DEF EsBackends
    <3> QED BY <3>1, <3>2, <3>3 DEF EsCachesOK
  <2>6. EsList(EsDrop(esWant, ip)) BY EsDropList DEF EsEdgesOK
  <2>7. EsEdgesOK'
    <3>1. EsCall /\ UNCHANGED <<esRemote, esToken, esRead, esFaults>> BY <1>2 DEF EsUnban
    <3>2. esCalls' \in 0..EsMaxCalls BY <3>1, EsCallStep
    <3>3. EsList(esWant)' BY <2>1, <2>6
    <3> QED BY <3>1, <3>2, <3>3 DEF EsEdgesOK
  <2> QED BY <2>5, <2>7
<1>3. ASSUME NEW ip \in EsIPs, EsExpire(ip) PROVE EsCachesOK' /\ EsEdgesOK'
  <2>1. esOrder' = esOrder /\ esJob' = esJob /\ esWant' = EsDrop(esWant, ip) BY <1>3 DEF EsExpire
  <2>2. EsCachesOK' BY <2>1 DEF EsCachesOK
  <2>3. EsList(EsDrop(esWant, ip)) BY EsDropList DEF EsEdgesOK
  <2>4. EsEdgesOK'
    <3>1. EsCall /\ UNCHANGED <<esRemote, esToken, esRead, esFaults>> BY <1>3 DEF EsExpire
    <3>2. esCalls' \in 0..EsMaxCalls BY <3>1, EsCallStep
    <3>3. EsList(esWant)' BY <2>1, <2>3
    <3> QED BY <3>1, <3>2, <3>3 DEF EsEdgesOK
  <2> QED BY <2>2, <2>4
<1>4. ASSUME EsSync PROVE EsCachesOK' /\ EsEdgesOK'
  <2> DEFINE o(b) == IF b = "bunny" THEN "fetch" ELSE "sync"
             k == EsKept(esWant)
  <2>1. esOrder' = esOrder /\ UNCHANGED <<esRemote, esToken, esRead, esWant, esCalls, esFaults>>
    BY <1>4 DEF EsSync, esBounds
  <2>2. esJob' = [b \in EsBackends |-> EsSyncing(o(b), k)] BY <1>4 DEF EsSync, EsSyncing
  <2>3. EsList(k) /\ Len(k) <= EsCap BY EsKeptList DEF EsEdgesOK
  <2> HIDE DEF k
  <2>4. ASSUME NEW b \in EsBackends PROVE EsGood(esJob'[b], esOrder[b])
    <3>1. EsList(esOrder[b]) /\ Len(esOrder[b]) <= EsCap BY EsCachesFacts
    <3>2. o(b) \in {"fetch", "sync"} OBVIOUS
    <3> QED BY <2>2, <2>3, <3>1, <3>2, EsGoodSync
  <2>5. EsSyncing("sync", k).op = "sync"
    <3>1. k \in Seq(EsIPs) BY <2>3 DEF EsList
    <3> QED BY <3>1, EsSyncingShape
  <2>6. EsCachesOK'
    <3>1. DOMAIN esJob' = EsBackends /\ DOMAIN esOrder' = EsBackends BY <2>1, <2>2 DEF EsCachesOK
    <3>2. (\A b \in EsBackends : EsGood(esJob[b], esOrder[b]))' BY <2>1, <2>4
    <3>3. esJob'["aws"] = EsSyncing("sync", k) BY <2>2 DEF EsBackends
    <3>4. esJob'["aws"].op # "fetch" BY <2>5, <3>3
    <3> QED BY <3>1, <3>2, <3>4 DEF EsCachesOK
  <2>7. EsEdgesOK' BY <2>1 DEF EsEdgesOK
  <2> QED BY <2>6, <2>7
<1> QED BY <1>1, <1>2, <1>3, <1>4

\* A step that leaves the store's rows and the bounds alone.
LEMMA EsEdgesStep ==
  ASSUME EsEdgesOK, esWant' = esWant, esCalls' = esCalls, esFaults' = esFaults \/ EsFault,
         esRemote' \in [EsBackends -> SUBSET EsIPs], esToken' \in BOOLEAN, esRead' \subseteq EsIPs,
         esToken' => esRead' = esRemote'["aws"]
  PROVE  EsEdgesOK'
<1>1. esFaults' \in 0..EsMaxFaults BY EsAssumption DEF EsEdgesOK, EsFault
<1> QED BY <1>1 DEF EsEdgesOK

LEMMA EsAtStep ==
  ASSUME EsEdgesOK, NEW ip \in EsIPs, NEW on \in BOOLEAN, EsAt(ip, on)
  PROVE  esRemote' \in [EsBackends -> SUBSET EsIPs] /\ esRemote'["aws"] = esRemote["aws"]
BY DEF EsEdgesOK, EsAt, EsBackends

LEMMA EsBunnyKeeps ==
  ASSUME EsCachesOK, EsEdgesOK, EsBunny
  PROVE  EsCachesOK' /\ EsEdgesOK' /\ esRemote'["aws"] = esRemote["aws"]
<1> DEFINE j == esJob["bunny"]
           s == esOrder["bunny"]
<1>0. "bunny" \in EsBackends /\ "bunny" # "aws" BY DEF EsBackends
<1>1. EsGood(j, s) /\ j \in EsJobs /\ EsList(s) /\ Len(s) <= EsCap /\ DOMAIN esJob = EsBackends /\ DOMAIN esOrder = EsBackends
  BY <1>0, EsCachesFacts
<1>2. EsGood(EsNoJob, s) BY <1>1, EsGoodEnd
<1>3. /\ esRemote \in [EsBackends -> SUBSET EsIPs] /\ esToken \in BOOLEAN /\ esRead \subseteq EsIPs
      /\ (esToken => esRead = esRemote["aws"])
  BY DEF EsEdgesOK
<1>4. CASE EsBunnyEvict
  <2>1. EsGood([j EXCEPT !.del = {}], Tail(s)) /\ Head(s) \in EsIPs
    BY <1>1, <1>4, EsGoodEvict DEF EsBunnyEvict
  <2>2. /\ esJob' = [esJob EXCEPT !["bunny"] = [j EXCEPT !.del = {}]] /\ esOrder' = [esOrder EXCEPT !["bunny"] = Tail(s)]
        /\ EsAt(Head(s), FALSE) /\ UNCHANGED <<esToken, esRead, esWant, esCalls, esFaults>>
    BY <1>0, <1>1, <1>4 DEF EsBunnyEvict, esBounds
  <2>3. EsCachesOK' BY <1>0, <2>1, <2>2, EsOneWorked
  <2>4. esRemote' \in [EsBackends -> SUBSET EsIPs] /\ esRemote'["aws"] = esRemote["aws"] BY <2>1, <2>2, EsAtStep
  <2> QED BY <1>3, <2>2, <2>3, <2>4, EsEdgesStep
<1>5. CASE EsBunnyAdd
  <2>1. EsGood(EsNoJob, Append(s, j.ip)) /\ j.ip \in EsIPs BY <1>1, <1>5, EsGoodAdd DEF EsBunnyAdd
  <2>2. /\ esJob' = [esJob EXCEPT !["bunny"] = EsNoJob] /\ esOrder' = [esOrder EXCEPT !["bunny"] = Append(s, j.ip)]
        /\ EsAt(j.ip, TRUE) /\ UNCHANGED <<esToken, esRead, esWant, esCalls, esFaults>>
    BY <1>0, <1>1, <1>5 DEF EsBunnyAdd, esBounds, EsEnd
  <2>3. EsCachesOK' BY <1>0, <2>1, <2>2, EsOneWorked
  <2>4. esRemote' \in [EsBackends -> SUBSET EsIPs] /\ esRemote'["aws"] = esRemote["aws"] BY <2>1, <2>2, EsAtStep
  <2> QED BY <1>3, <2>2, <2>3, <2>4, EsEdgesStep
<1>6. CASE EsBunnyRemove
  <2>1. EsGood(EsNoJob, EsDrop(s, j.ip)) BY <1>1, EsGoodDrop
  <2>2. j.ip \in EsIPs BY <1>1, <1>6 DEF EsBunnyRemove, EsGood, EsCallOK
  <2>3. /\ esJob' = [esJob EXCEPT !["bunny"] = EsNoJob] /\ esOrder' = [esOrder EXCEPT !["bunny"] = EsDrop(s, j.ip)]
        /\ EsAt(j.ip, FALSE) /\ UNCHANGED <<esToken, esRead, esWant, esCalls, esFaults>>
    BY <1>0, <1>1, <1>6 DEF EsBunnyRemove, esBounds, EsEnd
  <2>4. EsCachesOK' BY <1>0, <2>1, <2>3, EsOneWorked
  <2>5. esRemote' \in [EsBackends -> SUBSET EsIPs] /\ esRemote'["aws"] = esRemote["aws"] BY <2>2, <2>3, EsAtStep
  <2> QED BY <1>3, <2>3, <2>4, <2>5, EsEdgesStep
<1>7. CASE EsBunnyFails
  <2>1. /\ esJob' = [esJob EXCEPT !["bunny"] = EsNoJob] /\ esOrder' = esOrder /\ EsFault
        /\ UNCHANGED <<esToken, esRead, esWant, esCalls>>
    BY <1>7 DEF EsBunnyFails, EsEnd
  <2>2. esOrder' = [esOrder EXCEPT !["bunny"] = s] \/ esOrder' = esOrder BY <1>1, <2>1
  <2>3. EsCachesOK' BY <1>0, <1>2, <2>1, <2>2, EsOneWorked
  <2>4. esRemote' \in [EsBackends -> SUBSET EsIPs] /\ esRemote'["aws"] = esRemote["aws"]
    <3>1. CASE UNCHANGED esRemote BY <1>3, <3>1
    <3>2. CASE j.op = "ban" /\ EsAt(IF j.del = {} THEN j.ip ELSE Head(s), j.del = {})
      <4>1. j.ip \in EsIPs BY <1>1, <3>2 DEF EsGood, EsCallOK
      <4>2. j.del # {} => Head(s) \in EsIPs BY <1>1, <3>2, EsGoodEvict
      <4>3. (j.del = {}) \in BOOLEAN OBVIOUS
      <4>4. CASE j.del = {}
        <5>1. EsAt(j.ip, TRUE) BY <3>2, <4>4 DEF EsAt
        <5> QED BY <4>1, <5>1, EsAtStep
      <4>5. CASE j.del # {}
        <5>1. EsAt(Head(s), FALSE) BY <3>2, <4>5 DEF EsAt
        <5> QED BY <4>2, <4>5, <5>1, EsAtStep
      <4> QED BY <4>4, <4>5
    <3>3. CASE j.op = "unban" /\ EsAt(j.ip, FALSE)
      <4>1. j.ip \in EsIPs BY <1>1, <3>3 DEF EsGood, EsCallOK
      <4> QED BY <3>3, <4>1, EsAtStep
    <3> QED BY <1>7, <3>1, <3>2, <3>3 DEF EsBunnyFails
  <2> QED BY <1>3, <2>1, <2>3, <2>4, EsEdgesStep
<1>8. CASE EsBunnyFetch
  <2> DEFINE d == esRemote["bunny"] \ ToSet(j.add)
             k == [j EXCEPT !.op = "sync", !.del = d]
  <2>1. d \in SUBSET EsIPs BY <1>0, <1>3
  <2>2. EsGood(k, s) BY <1>1, <1>8, <2>1, EsGoodFetch DEF EsBunnyFetch
  <2>3. esJob' = [esJob EXCEPT !["bunny"] = k] BY <1>0, <1>1, <1>8 DEF EsBunnyFetch
  <2>4. /\ esOrder' = esOrder /\ UNCHANGED <<esRemote, esToken, esRead, esWant, esCalls, esFaults>>
    BY <1>8 DEF EsBunnyFetch, esBounds
  <2>5. esOrder' = [esOrder EXCEPT !["bunny"] = s] \/ esOrder' = esOrder BY <1>1, <2>4
  <2> HIDE DEF k
  <2>6. EsCachesOK' BY <1>0, <2>2, <2>3, <2>5, EsOneWorked
  <2> QED BY <1>3, <2>4, <2>6, EsEdgesStep
<1>9. CASE EsBunnySynced
  <2>1. EsGood(EsNoJob, j.got) BY <1>1, <1>9, EsGoodSynced DEF EsBunnySynced
  <2>2. /\ esJob' = [esJob EXCEPT !["bunny"] = EsNoJob] /\ esOrder' = [esOrder EXCEPT !["bunny"] = j.got]
        /\ UNCHANGED <<esRemote, esToken, esRead, esWant, esCalls, esFaults>>
    BY <1>9 DEF EsBunnySynced, esBounds, EsEnd
  <2>3. EsCachesOK' BY <1>0, <2>1, <2>2, EsOneWorked
  <2> QED BY <1>3, <2>2, <2>3, EsEdgesStep
<1>10. ASSUME NEW ok \in BOOLEAN, EsBunnyFill(ok) PROVE EsCachesOK' /\ EsEdgesOK' /\ esRemote'["aws"] = esRemote["aws"]
  <2> DEFINE g == IF ok THEN Append(j.got, Head(j.add)) ELSE j.got
             k == [j EXCEPT !.add = Tail(@), !.got = g]
  <2>1. EsGood(k, s) /\ Head(j.add) \in EsIPs
    <3>1. g = j.got \/ g = Append(j.got, Head(j.add)) OBVIOUS
    <3>2. j.op = "sync" /\ j.add # <<>> BY <1>10 DEF EsBunnyFill
    <3> HIDE DEF g
    <3> QED BY <1>1, <3>1, <3>2, EsGoodFill
  <2>2. esJob' = [esJob EXCEPT !["bunny"] = k] BY <1>0, <1>1, <1>10 DEF EsBunnyFill
  <2>3. /\ esOrder' = esOrder /\ UNCHANGED <<esToken, esRead, esWant, esCalls>> BY <1>10 DEF EsBunnyFill
  <2>4. esOrder' = [esOrder EXCEPT !["bunny"] = s] \/ esOrder' = esOrder BY <1>1, <2>3
  <2>5. esFaults' = esFaults \/ EsFault BY <1>10 DEF EsBunnyFill
  <2>6. esRemote' = esRemote \/ EsAt(Head(j.add), TRUE) BY <1>10 DEF EsBunnyFill
  <2> HIDE DEF k
  <2>7. EsCachesOK' BY <1>0, <2>1, <2>2, <2>4, EsOneWorked
  <2>8. esRemote' \in [EsBackends -> SUBSET EsIPs] /\ esRemote'["aws"] = esRemote["aws"] BY <1>3, <2>1, <2>6, EsAtStep
  <2> QED BY <1>3, <2>3, <2>5, <2>7, <2>8, EsEdgesStep
<1>11. ASSUME NEW ok \in BOOLEAN, NEW ip \in EsIPs, EsBunnyPrune(ip, ok)
       PROVE  EsCachesOK' /\ EsEdgesOK' /\ esRemote'["aws"] = esRemote["aws"]
  <2> DEFINE k == [j EXCEPT !.del = @ \ {ip}]
  <2>1. EsGood(k, s) BY <1>1, <1>11, EsGoodPrune DEF EsBunnyPrune
  <2>2. esJob' = [esJob EXCEPT !["bunny"] = k] BY <1>0, <1>1, <1>11 DEF EsBunnyPrune
  <2>3. /\ esOrder' = esOrder /\ UNCHANGED <<esToken, esRead, esWant, esCalls>> BY <1>11 DEF EsBunnyPrune
  <2>4. esOrder' = [esOrder EXCEPT !["bunny"] = s] \/ esOrder' = esOrder BY <1>1, <2>3
  <2>5. esFaults' = esFaults \/ EsFault BY <1>11 DEF EsBunnyPrune
  <2>6. esRemote' = esRemote \/ EsAt(ip, FALSE) BY <1>11 DEF EsBunnyPrune
  <2> HIDE DEF k
  <2>7. EsCachesOK' BY <1>0, <2>1, <2>2, <2>4, EsOneWorked
  <2>8. esRemote' \in [EsBackends -> SUBSET EsIPs] /\ esRemote'["aws"] = esRemote["aws"] BY <1>3, <2>6, EsAtStep
  <2> QED BY <1>3, <2>3, <2>5, <2>7, <2>8, EsEdgesStep
<1> QED BY <1>4, <1>5, <1>6, <1>7, <1>8, <1>9, <1>10, <1>11 DEF EsBunny

\* What the IPSet holds after the update of job j, computed from what was read.
EsUpdated(j) ==
    CASE j.op = "ban"   -> (esRead \ j.del) \cup {j.ip}
      [] j.op = "unban" -> esRead \ {j.ip}
      [] j.op = "sync"  -> ToSet(j.add)

\* The step takes nothing from the IPSet but what its ban or unban is to delete.
EsKeepsOthers ==
    esJob["aws"].op \in {"ban", "unban"} => esRemote["aws"] \ esRemote'["aws"] \subseteq esJob["aws"].del

LEMMA EsUpdateOK ==
  ASSUME EsCachesOK, EsEdgesOK, esToken, esJob["aws"].op # "none",
         esRemote' = [esRemote EXCEPT !["aws"] = EsUpdated(esJob["aws"])]
  PROVE  esRemote' \in [EsBackends -> SUBSET EsIPs] /\ EsKeepsOthers
<1> DEFINE j == esJob["aws"]
           s == esOrder["aws"]
<1>0. "aws" \in EsBackends BY DEF EsBackends
<1>1. EsGood(j, s) /\ j \in EsJobs BY <1>0, EsCachesFacts
<1>2. j.op \in {"ban", "unban", "sync"} BY <1>1 DEF EsCachesOK, EsJobs
<1>3. esRemote \in [EsBackends -> SUBSET EsIPs] /\ esRead = esRemote["aws"] /\ esRead \subseteq EsIPs BY DEF EsEdgesOK
<1>4. esRemote'["aws"] = EsUpdated(j) BY <1>0, <1>3
<1>5. CASE j.op = "ban"
  <2>1. j.ip \in EsIPs BY <1>1, <1>5 DEF EsGood, EsCallOK
  <2>2. EsUpdated(j) = (esRead \ j.del) \cup {j.ip} BY <1>5 DEF EsUpdated
  <2>3. EsUpdated(j) \subseteq EsIPs BY <1>3, <2>1, <2>2
  <2>4. esRemote["aws"] \ esRemote'["aws"] \subseteq j.del BY <1>3, <1>4, <2>2
  <2> QED BY <1>3, <2>3, <2>4 DEF EsKeepsOthers
<1>6. CASE j.op = "unban"
  <2>1. j.ip \in EsIPs /\ j.del = {j.ip} BY <1>1, <1>6 DEF EsGood, EsCallOK
  <2>2. EsUpdated(j) = esRead \ {j.ip} BY <1>6 DEF EsUpdated
  <2>3. EsUpdated(j) \subseteq EsIPs BY <1>3, <2>2
  <2>4. esRemote["aws"] \ esRemote'["aws"] \subseteq j.del BY <1>3, <1>4, <2>1, <2>2
  <2> QED BY <1>3, <2>3, <2>4 DEF EsKeepsOthers
<1>7. CASE j.op = "sync"
  <2>1. ToSet(j.add) \subseteq EsIPs BY <1>1, <1>7, EsGoodSynced
  <2>2. EsUpdated(j) = ToSet(j.add) BY <1>7 DEF EsUpdated
  <2> QED BY <1>3, <1>7, <2>1, <2>2 DEF EsKeepsOthers
<1> QED BY <1>2, <1>5, <1>6, <1>7

LEMMA EsAwsKeeps ==
  ASSUME EsCachesOK, EsEdgesOK, EsAws
  PROVE  EsCachesOK' /\ EsEdgesOK' /\ EsKeepsOthers
<1> DEFINE j == esJob["aws"]
           s == esOrder["aws"]
<1>0. "aws" \in EsBackends BY DEF EsBackends
<1>1. EsGood(j, s) /\ j \in EsJobs /\ EsList(s) /\ Len(s) <= EsCap /\ DOMAIN esJob = EsBackends /\ DOMAIN esOrder = EsBackends
  BY <1>0, EsCachesFacts
<1>2. EsGood(EsNoJob, s) /\ EsNoJob.op # "fetch" BY <1>1, EsGoodEnd, EsNoJobShape
<1>3. /\ esRemote \in [EsBackends -> SUBSET EsIPs] /\ esToken \in BOOLEAN /\ esRead \subseteq EsIPs
      /\ (esToken => esRead = esRemote["aws"])
  BY DEF EsEdgesOK
<1>4. j.op # "fetch" BY DEF EsCachesOK
<1>5. CASE EsAwsRead
  <2> DEFINE k == [j EXCEPT !.read = TRUE, !.tries = @ + 1]
  <2>1. EsGood(k, s) BY <1>1, <1>5, EsGoodRead DEF EsAwsRead
  <2>2. k.op # "fetch" BY <1>1, <1>4 DEF EsJobs
  <2>3. esJob' = [esJob EXCEPT !["aws"] = k] BY <1>0, <1>1, <1>5 DEF EsAwsRead
  <2>4. /\ esOrder' = esOrder /\ esRead' = esRemote["aws"] /\ esToken' = TRUE
        /\ UNCHANGED <<esRemote, esWant, esCalls, esFaults>>
    BY <1>5 DEF EsAwsRead, esBounds
  <2> HIDE DEF k
  <2>5. EsCachesOK' BY <1>0, <2>1, <2>2, <2>3, <2>4, EsOneWorked
  <2>6. esRead' \subseteq EsIPs BY <1>0, <1>3, <2>4
  <2>7. EsEdgesOK' BY <1>3, <2>4, <2>6, EsEdgesStep
  <2> QED BY <2>4, <2>5, <2>7 DEF EsKeepsOthers
<1>6. CASE EsAwsWrite
  <2> DEFINE o == CASE j.op = "ban"   -> Append(IF j.del = {} THEN s ELSE Tail(s), j.ip)
                    [] j.op = "unban" -> EsDrop(s, j.ip)
                    [] j.op = "sync"  -> j.add
  <2>1. /\ j.op # "none" /\ esToken /\ esRemote' = [esRemote EXCEPT !["aws"] = EsUpdated(j)]
        /\ esToken' = FALSE /\ UNCHANGED <<esRead, esWant, esCalls, esFaults>>
        /\ esJob' = [esJob EXCEPT !["aws"] = EsNoJob]
    BY <1>6 DEF EsAwsWrite, EsAwsFresh, EsUpdated, EsEnd, esBounds
  <2>2. esOrder' = [esOrder EXCEPT !["aws"] = o] BY <1>0, <1>1, <1>6 DEF EsAwsWrite
  <2>3. j.op \in {"ban", "unban", "sync"} BY <1>1, <1>4, <2>1 DEF EsJobs
  <2>4. EsGood(EsNoJob, o)
    <3>1. CASE j.op = "ban"
      <4>1. o = Append(IF j.del = {} THEN s ELSE Tail(s), j.ip) BY <3>1
      <4> QED BY <1>1, <3>1, <4>1, EsGoodPut
    <3>2. CASE j.op = "unban"
      <4>1. o = EsDrop(s, j.ip) BY <3>2
      <4> QED BY <1>1, <4>1, EsGoodDrop
    <3>3. CASE j.op = "sync"
      <4>1. o = j.add BY <3>3
      <4> QED BY <1>1, <3>3, <4>1, EsGoodSynced
    <3> QED BY <2>3, <3>1, <3>2, <3>3
  <2> HIDE DEF o
  <2>5. EsCachesOK' BY <1>0, <1>2, <2>1, <2>2, <2>4, EsOneWorked
  <2>6. esRemote' \in [EsBackends -> SUBSET EsIPs] /\ EsKeepsOthers BY <2>1, EsUpdateOK
  <2>7. EsEdgesOK' BY <1>3, <2>1, <2>6, EsEdgesStep
  <2> QED BY <2>5, <2>6, <2>7
<1>7. CASE EsAwsConflict
  <2>1. /\ esOrder' = esOrder /\ UNCHANGED <<esRemote, esToken, esRead, esWant, esCalls, esFaults>>
    BY <1>7 DEF EsAwsConflict, esBounds
  <2>2. EsCachesOK'
    <3>1. CASE j.tries < EsLockTries
      <4> DEFINE k == [j EXCEPT !.read = FALSE]
      <4>1. EsGood(k, s) BY <1>1, <3>1, EsGoodAgain
      <4>2. k.op # "fetch" BY <1>1, <1>4 DEF EsJobs
      <4>3. esJob' = [esJob EXCEPT !["aws"] = k] BY <1>0, <1>1, <1>7, <3>1 DEF EsAwsConflict
      <4> HIDE DEF k
      <4> QED BY <1>0, <2>1, <4>1, <4>2, <4>3, EsOneWorked
    <3>2. CASE ~(j.tries < EsLockTries)
      <4>1. esJob' = [esJob EXCEPT !["aws"] = EsNoJob] BY <1>7, <3>2 DEF EsAwsConflict, EsEnd
      <4> QED BY <1>0, <1>2, <2>1, <4>1, EsOneWorked
    <3> QED BY <3>1, <3>2
  <2>3. EsEdgesOK' BY <1>3, <2>1, EsEdgesStep
  <2> QED BY <2>1, <2>2, <2>3 DEF EsKeepsOthers
<1>8. CASE EsAwsFails
  <2>1. /\ j.op # "none" /\ EsFault /\ esJob' = [esJob EXCEPT !["aws"] = EsNoJob] /\ esOrder' = esOrder
        /\ UNCHANGED <<esRead, esWant, esCalls>>
    BY <1>8 DEF EsAwsFails, EsEnd
  <2>2. EsCachesOK' BY <1>0, <1>2, <2>1, EsOneWorked
  <2>3. CASE UNCHANGED <<esRemote, esToken>>
    <3>1. EsEdgesOK' BY <1>3, <2>1, <2>3, EsEdgesStep
    <3> QED BY <2>2, <2>3, <3>1 DEF EsKeepsOthers
  <2>4. CASE esToken /\ esToken' = FALSE /\ esRemote' = [esRemote EXCEPT !["aws"] = EsUpdated(j)]
    <3>1. esRemote' \in [EsBackends -> SUBSET EsIPs] /\ EsKeepsOthers BY <2>1, <2>4, EsUpdateOK
    <3>2. EsEdgesOK' BY <1>3, <2>1, <2>4, <3>1, EsEdgesStep
    <3> QED BY <2>2, <3>1, <3>2
  <2> QED BY <1>8, <2>3, <2>4 DEF EsAwsFails, EsUpdated
<1> QED BY <1>5, <1>6, <1>7, <1>8 DEF EsAws

LEMMA EsOtherKeeps ==
  ASSUME EsCachesOK, EsEdgesOK, NEW ip \in EsIPs, EsAwsOther(ip)
  PROVE  EsCachesOK' /\ EsEdgesOK' /\ EsKeepsOthers
<1>1. /\ EsFault /\ esRemote' = [esRemote EXCEPT !["aws"] = @ \cup {ip}] /\ esToken' = FALSE
      /\ UNCHANGED <<esRead, esOrder, esJob, esWant, esCalls>>
  BY DEF EsAwsOther
<1>2. esRemote \in [EsBackends -> SUBSET EsIPs] /\ esRead \subseteq EsIPs BY DEF EsEdgesOK
<1>3. esRemote' \in [EsBackends -> SUBSET EsIPs] BY <1>1, <1>2
<1>4. esRemote["aws"] \subseteq esRemote'["aws"] BY <1>1, <1>2 DEF EsBackends
<1>5. EsEdgesOK' BY <1>1, <1>2, <1>3, EsEdgesStep
<1>6. EsCachesOK' BY <1>1 DEF EsCachesOK
<1> QED BY <1>4, <1>5, <1>6 DEF EsKeepsOthers

LEMMA EsStep ==
  ASSUME EsCachesOK, EsEdgesOK, EsNext
  PROVE  EsCachesOK' /\ EsEdgesOK' /\ EsKeepsOthers
<1>1. CASE (\E ip \in EsIPs : EsBan(ip) \/ EsUnban(ip) \/ EsExpire(ip)) \/ EsSync
  <2>1. esRemote' = esRemote BY <1>1 DEF EsBan, EsUnban, EsExpire, EsSync
  <2> QED BY <1>1, <2>1, EsCallsKeep DEF EsKeepsOthers
<1>2. CASE EsBunny BY <1>2, EsBunnyKeeps DEF EsKeepsOthers
<1>3. CASE EsAws BY <1>3, EsAwsKeeps
<1>4. CASE \E ip \in EsIPs : EsAwsOther(ip) BY <1>4, EsOtherKeeps
<1> QED BY <1>1, <1>2, <1>3, <1>4 DEF EsNext

\* The inductive invariant of the address sets (EsCachesOK, EsEdgesOK): jobs and
\* caches fit each other, and a lock token that is still good means that what was
\* read is what the IPSet holds.
THEOREM EsInvariant == EsSpec => [](EsCachesOK /\ EsEdgesOK)
<1>1. EsInit => EsCachesOK /\ EsEdgesOK BY EsCachesInit
<1>2. EsCachesOK /\ EsEdgesOK /\ [EsNext]_esVars => (EsCachesOK /\ EsEdgesOK)'
  <2> SUFFICES ASSUME EsCachesOK, EsEdgesOK, [EsNext]_esVars PROVE EsCachesOK' /\ EsEdgesOK' OBVIOUS
  <2>1. CASE EsNext BY <2>1, EsStep
  <2>2. CASE UNCHANGED esVars
    <3>1. EsCachesOK' BY <2>2 DEF esVars, EsCachesOK
    <3>2. EsEdgesOK' BY <2>2 DEF esVars, esBounds, EsEdgesOK
    <3> QED BY <3>1, <3>2
  <2> QED BY <2>1, <2>2
<1> QED BY <1>1, <1>2, PTL DEF EsSpec

LEMMA EsTyped == EsCachesOK /\ EsEdgesOK => EsTypeOK
<1> SUFFICES ASSUME EsCachesOK, EsEdgesOK PROVE EsTypeOK OBVIOUS
<1>1. ASSUME NEW b \in EsBackends
      PROVE  /\ ToSet(esOrder[b]) \subseteq EsIPs /\ IsInjective(esOrder[b]) /\ Len(esOrder[b]) <= EsCap
             /\ esJob[b].op \in {"none", "ban", "unban", "fetch", "sync"}
             /\ esJob[b].tries \in 0..EsLockTries
  <2>1. esJob[b] \in EsJobs /\ EsList(esOrder[b]) /\ Len(esOrder[b]) <= EsCap BY EsCachesFacts
  <2>2. ToSet(esOrder[b]) \subseteq EsIPs /\ IsInjective(esOrder[b]) BY <2>1 DEF EsList, ToSet
  <2> QED BY <2>1, <2>2 DEF EsJobs
<1>2. IsInjective(esWant) /\ ToSet(esWant) \subseteq EsIPs BY DEF EsEdgesOK, EsList, ToSet
<1> QED BY <1>1, <1>2 DEF EsTypeOK, EsEdgesOK

\* awswaf.go mutateIPSet, bunny.go banZone and syncZone: caches without repetition
\* and within the cap, and no ban or unban undoes what another writer added to the
\* IPSet (EsSafe), for any addresses, capacity, number of retries, calls and faults.
THEOREM EsEdgesAreShared == EsSpec => EsSafe
<1>1. EsCachesOK /\ EsEdgesOK /\ [EsNext]_esVars
        => [(esJob["aws"].op \in {"ban", "unban"} /\ esRemote' # esRemote)
             => esRemote["aws"] \ esRemote'["aws"] \subseteq esJob["aws"].del]_esVars
  BY EsStep DEF EsKeepsOthers
<1> QED BY <1>1, EsInvariant, EsTyped, PTL DEF EsSpec, EsNoLostUpdate, EsSafe

=============================================================================

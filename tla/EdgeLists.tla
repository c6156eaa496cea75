---------------------------- MODULE EdgeLists ----------------------------
(* CloudflareListsEnforcer (internal/enforce/cloudflare_lists.go): one     *)
(* account-level IP list shared by several instances.  Ban, Unban and Sync *)
(* change the desired set; pushes add what is missing, the removal flusher *)
(* deletes what is no longer desired, both under pushMu, against an API    *)
(* that throttles, times out after applying a call, and runs bulk          *)
(* operations it may never confirm.  Backoff and pacing are left out: a    *)
(* retried call ends in one of the replies of LsReplies.                   *)
EXTENDS Naturals, FiniteSets

CONSTANTS LsIPs,        \* addresses
          LsAllow,      \* the static allowlist handed to the enforcer
          LsAdopt,      \* adopt_legacy_items
          LsBatchMax,   \* cfListBatchMax
          LsMaxChanges, \* bound: desired-set changes
          LsMaxFaults   \* bound: failed, lost or unconfirmed API calls

ASSUME LsAssumption == /\ LsAllow \subseteq LsIPs /\ LsAdopt \in BOOLEAN
                       /\ LsBatchMax \in Nat \ {0} /\ LsMaxChanges \in Nat /\ LsMaxFaults \in Nat

VARIABLES
    lsEdge,     \* at Cloudflare: address -> tag of its item, or "none"
    lsList,     \* at Cloudflare: the list exists
    lsTheirs,   \* ghost: the addresses somebody else keeps listed
    lsRule,     \* at Cloudflare: the zone's WAF rule blocks this list
    lsDesired, lsItems, lsForeign,   \* listState
    lsFound, lsStale,                \* discovered, mirrorStale
    lsTimer, lsStaleTimer,           \* timer and staleTimer are armed
    lsSync,     \* a Sync call waits for pushMu
    lsOp,       \* what the holder of pushMu is doing
    lsBlind,    \* ghost: an item changed at the edge and the reply was lost
    lsChanges, lsFaults

lsRemote == <<lsEdge, lsList, lsRule, lsTheirs>>
lsMirror == <<lsItems, lsForeign, lsFound, lsStale, lsStaleTimer>>
lsInput == <<lsDesired, lsTimer, lsSync, lsChanges>>
lsVars == <<lsRemote, lsMirror, lsInput, lsOp, lsBlind, lsFaults>>

LsTags == {"none", "own", "legacy", "other"}
LsIdle == [at |-> "idle", who |-> "none", todo |-> {}, ask |-> {}, out |-> {}, refresh |-> FALSE, again |-> FALSE]
LsSteps == {"idle", "discover", "add", "refresh", "retry", "rule", "del"}

LsTypeOK ==
    /\ lsEdge \in [LsIPs -> LsTags] /\ lsList \in BOOLEAN /\ lsRule \in BOOLEAN /\ lsTheirs \subseteq LsIPs
    /\ lsDesired \subseteq LsIPs \ LsAllow /\ lsItems \subseteq LsIPs /\ lsForeign \subseteq LsIPs
    /\ lsFound \in BOOLEAN /\ lsStale \in BOOLEAN /\ lsTimer \in BOOLEAN /\ lsStaleTimer \in BOOLEAN
    /\ lsSync \in BOOLEAN /\ lsBlind \in BOOLEAN
    /\ lsOp \in [at : LsSteps, who : {"none", "debounce", "sync", "rebuild", "flush"}, todo : SUBSET LsIPs,
                 ask : SUBSET LsIPs, out : SUBSET LsIPs, refresh : BOOLEAN, again : BOOLEAN]
    /\ lsChanges \in 0..LsMaxChanges /\ lsFaults \in 0..LsMaxFaults

\* Mutant: every ezyshield item is this instance's, as before issue #486.
LsOwnsAll(tag) == tag \in {"own", "legacy", "other"}

\* ownsItem: our own tag, and the bare legacy tag when adopted.
LsOwns(tag) == tag = "own" \/ (LsAdopt /\ tag = "legacy")

LsPresent == {i \in LsIPs : lsEdge[i] # "none"}
LsOwned == {i \in LsIPs : LsOwns(lsEdge[i])}
LsPut(S, tag) == lsEdge' = [i \in LsIPs |-> IF i \in S THEN tag ELSE lsEdge[i]]

\* newListState: nothing known.  The account may hold earlier items.
LsInit ==
    /\ lsEdge \in [LsIPs -> LsTags] /\ lsList \in BOOLEAN /\ (LsPresent # {} => lsList)
    /\ lsRule \in BOOLEAN /\ lsTheirs = {i \in LsIPs : lsEdge[i] \notin {"none", "own"} /\ ~(LsAdopt /\ lsEdge[i] = "legacy")}
    /\ lsItems = {} /\ lsForeign = {} /\ lsFound = FALSE /\ lsStale = FALSE /\ lsStaleTimer = FALSE
    /\ lsDesired = {} /\ lsTimer = FALSE /\ lsSync = FALSE /\ lsOp = LsIdle
    /\ lsBlind = FALSE /\ lsChanges = 0 /\ lsFaults = 0

---------------------------------------------------------------------------
(* The API, after mutateWithRetry and waitBulkOperation: rows echoed, an   *)
(* operation polled to completion, one accepted but never confirmed (it    *)
(* took effect or not), a refusal or exhausted throttle, a reply lost      *)
(* after the call took effect.                                             *)

\* waitBulkOperation: completed, failed, or unconfirmed after thirty polls.
LsOperation == {[reply |-> "done", applied |-> TRUE], [reply |-> "error", applied |-> FALSE],
                [reply |-> "unsure", applied |-> TRUE], [reply |-> "unsure", applied |-> FALSE]}

\* mutateWithRetry, and the operation it may have started.
LsReplies == LsOperation \cup {[reply |-> "items", applied |-> TRUE], [reply |-> "error", applied |-> TRUE]}

LsFaulty == lsFaults < LsMaxFaults /\ lsFaults' = lsFaults + 1
LsPaid(r) == IF r.reply \in {"items", "done"} THEN UNCHANGED lsFaults ELSE LsFaulty

\* A bulk request carries at most cfListBatchMax of the rows left.
LsBatches(S) == {B \in SUBSET S : Cardinality(B) = IF Cardinality(S) < LsBatchMax THEN Cardinality(S) ELSE LsBatchMax}

\* markMirrorStale: a pending rebuild is kept, never doubled.
LsMarkStale == lsStale' = TRUE /\ lsStaleTimer' = TRUE
LsKeepStale == UNCHANGED <<lsStale, lsStaleTimer>>

\* The end of a push or flush.  Only a Sync that pushed goes on to the zone
\* rules; rebuildStaleMirror re-arms when its push failed with the mirror
\* still stale.
LsDone == lsOp' = IF lsOp.who = "sync" THEN [LsIdle EXCEPT !.at = "rule", !.who = "sync"] ELSE LsIdle

\* Mutant: the failed rebuild does not re-arm its timer.
LsFailedNoRearm(stale) == lsOp' = LsIdle /\ lsStale' = stale /\ UNCHANGED lsStaleTimer

LsFailed(stale) ==
    /\ lsOp' = LsIdle /\ lsStale' = stale
    /\ lsStaleTimer' = (lsStaleTimer \/ (lsOp.who = "rebuild" /\ stale))

---------------------------------------------------------------------------
(* The daemon's calls.                                                     *)

LsChange == lsChanges < LsMaxChanges /\ lsChanges' = lsChanges + 1

\* The daemon makes one call at a time (enforceMu): none during a Sync.
LsCallable == ~lsSync /\ lsOp.who # "sync"

\* Ban: an allowlisted target is refused; scheduleFlush arms the timer.
LsBan(ip) ==
    /\ LsCallable /\ LsChange /\ ip \notin LsAllow
    /\ lsDesired' = lsDesired \cup {ip} /\ lsTimer' = TRUE
    /\ UNCHANGED <<lsRemote, lsMirror, lsSync, lsOp, lsBlind, lsFaults>>

LsUnban(ip) ==
    /\ LsCallable /\ LsChange
    /\ lsDesired' = lsDesired \ {ip} /\ lsTimer' = TRUE
    /\ UNCHANGED <<lsRemote, lsMirror, lsSync, lsOp, lsBlind, lsFaults>>

\* Sync: replaces the desired set, stops the timer and pushes itself.
LsSyncCall(want) ==
    /\ LsCallable
    /\ IF want \ LsAllow = lsDesired THEN UNCHANGED lsChanges ELSE LsChange
    /\ lsDesired' = want \ LsAllow /\ lsTimer' = FALSE /\ lsSync' = TRUE
    /\ UNCHANGED <<lsRemote, lsMirror, lsOp, lsBlind, lsFaults>>

---------------------------------------------------------------------------
(* push.                                                                   *)

\* The diff: desired, not ours, not already blocked under another tag.
LsMissing(items, foreign) == lsDesired \ (items \cup foreign)

\* The snapshot of the inputs, then discovery or the diff.
LsStart(who) ==
    LET add == LsMissing(lsItems, lsForeign)
        op == [LsIdle EXCEPT !.who = who]
    IN  IF ~lsFound \/ lsStale THEN lsOp' = [op EXCEPT !.at = "discover"]
        ELSE IF add # {} THEN lsOp' = [op EXCEPT !.at = "add", !.todo = add, !.ask = add]
        ELSE lsOp' = IF who = "sync" THEN [op EXCEPT !.at = "rule"] ELSE LsIdle

\* The debounce timer's callback.
LsDebounce ==
    /\ lsTimer /\ lsOp = LsIdle /\ lsTimer' = FALSE /\ LsStart("debounce")
    /\ UNCHANGED <<lsRemote, lsMirror, lsDesired, lsSync, lsChanges, lsBlind, lsFaults>>

LsSyncPush ==
    /\ lsSync /\ lsOp = LsIdle /\ lsSync' = FALSE /\ LsStart("sync")
    /\ UNCHANGED <<lsRemote, lsMirror, lsDesired, lsTimer, lsChanges, lsBlind, lsFaults>>

\* rebuildStaleMirror, the stale timer's callback.
LsRebuild ==
    /\ lsStaleTimer /\ lsOp = LsIdle /\ lsStaleTimer' = FALSE
    /\ IF lsStale THEN LsStart("rebuild") ELSE UNCHANGED lsOp
    /\ UNCHANGED <<lsRemote, lsItems, lsForeign, lsFound, lsStale, lsInput, lsBlind, lsFaults>>

\* The mirror as just read (after createList: an empty list), then the diff.
LsLearn(owned, foreign) ==
    LET add == LsMissing(owned, foreign)
    IN  /\ lsItems' = owned /\ lsForeign' = foreign
        /\ lsFound' = TRUE /\ lsStale' = FALSE /\ UNCHANGED lsStaleTimer
        /\ IF add # {} THEN lsOp' = [lsOp EXCEPT !.at = "add", !.todo = add, !.ask = add] ELSE LsDone

\* discoverList: finds the list by name and pages through its items.
LsDiscover ==
    /\ lsOp.at = "discover" /\ lsList
    /\ LsLearn(LsOwned, LsPresent \ LsOwned)
    /\ UNCHANGED <<lsRemote, lsInput, lsBlind, lsFaults>>

\* createList.
LsCreateList ==
    /\ lsOp.at = "discover" /\ ~lsList
    /\ lsList' = TRUE /\ LsLearn({}, {})
    /\ UNCHANGED <<lsEdge, lsRule, lsTheirs, lsInput, lsBlind, lsFaults>>

\* A failed discovery or creation (a creation may have taken effect).
LsDiscoverFails ==
    /\ lsOp.at = "discover" /\ LsFaulty
    /\ lsList' \in {lsList, TRUE} /\ LsFailed(lsStale)
    /\ UNCHANGED <<lsEdge, lsRule, lsTheirs, lsItems, lsForeign, lsFound, lsInput, lsBlind>>

\* addItems, one batch: the API refuses a batch with a listed address.
LsDuplicate(B) == B \cap LsPresent # {}

\* Every batch is in: refresh when some reply carried no rows.
LsAdded(out, refresh) ==
    IF refresh THEN lsOp' = [lsOp EXCEPT !.at = "refresh", !.todo = {}, !.out = out] /\ UNCHANGED lsItems
    ELSE lsItems' = lsItems \cup out /\ LsDone

LsAdd ==
    /\ lsOp.at = "add"
    /\ \E B \in LsBatches(lsOp.todo), r \in LsReplies :
        LET left == lsOp.todo \ B
            out == lsOp.out \cup (IF r.reply = "items" THEN B ELSE {})
            refresh == lsOp.refresh \/ r.reply # "items"
        IN  /\ ~LsDuplicate(B) /\ LsPaid(r) /\ r.reply # "error"
            /\ IF r.applied THEN LsPut(B, "own") ELSE UNCHANGED lsEdge
            /\ IF r.reply = "unsure" THEN LsMarkStale ELSE LsKeepStale
            /\ IF left # {}
               THEN lsOp' = [lsOp EXCEPT !.todo = left, !.out = out, !.refresh = refresh] /\ UNCHANGED lsItems
               ELSE LsAdded(out, refresh)
    /\ UNCHANGED <<lsList, lsRule, lsTheirs, lsForeign, lsFound, lsInput, lsBlind>>

\* A failed batch fails the push; the rows of earlier batches are forgotten.
LsAddFails ==
    /\ lsOp.at = "add" /\ LsFaulty
    /\ \E B \in LsBatches(lsOp.todo), applied \in BOOLEAN :
        /\ ~LsDuplicate(B)
        /\ IF applied THEN LsPut(B, "own") ELSE UNCHANGED lsEdge
        /\ lsBlind' = (lsBlind \/ applied \/ lsOp.todo # lsOp.ask)
    /\ LsFailed(lsStale)
    /\ UNCHANGED <<lsList, lsRule, lsTheirs, lsItems, lsForeign, lsFound, lsInput>>

\* A duplicate is retried once; the second time the push fails.
LsAddDuplicate ==
    /\ lsOp.at = "add" /\ \E B \in LsBatches(lsOp.todo) : LsDuplicate(B)
    /\ lsBlind' = (lsBlind \/ lsOp.todo # lsOp.ask)
    /\ IF lsOp.again THEN LsFailed(lsStale)
       ELSE lsOp' = [lsOp EXCEPT !.at = "retry", !.todo = {}, !.out = {}] /\ LsKeepStale
    /\ UNCHANGED <<lsRemote, lsItems, lsForeign, lsFound, lsInput, lsFaults>>

\* retryAddSkippingPresent: what carries our tag is ours, the other listed
\* addresses are foreign, the rest is asked again.
LsRetryAdd ==
    LET rest == lsOp.ask \ LsPresent
    IN  /\ lsOp.at = "retry"
        /\ lsItems' = lsItems \cup (lsOp.ask \cap LsOwned)
        /\ lsForeign' = lsForeign \cup (lsOp.ask \cap (LsPresent \ LsOwned))
        /\ IF rest = {} THEN LsDone
           ELSE lsOp' = [lsOp EXCEPT !.at = "add", !.todo = rest, !.ask = rest, !.refresh = FALSE, !.again = TRUE]
        /\ UNCHANGED <<lsRemote, lsFound, lsStale, lsStaleTimer, lsInput, lsBlind, lsFaults>>

LsRetryFails ==
    /\ lsOp.at = "retry" /\ LsFaulty /\ LsFailed(lsStale)
    /\ UNCHANGED <<lsRemote, lsItems, lsForeign, lsFound, lsInput, lsBlind>>

\* The re-read that recovers item IDs after an asynchronous add.
LsRefresh ==
    /\ lsOp.at = "refresh"
    /\ lsItems' = lsItems \cup lsOp.out \cup (lsOp.ask \cap LsOwned) /\ LsDone
    /\ UNCHANGED <<lsRemote, lsForeign, lsFound, lsStale, lsStaleTimer, lsInput, lsBlind, lsFaults>>

\* Mutant: the failed refresh is ignored, as before issue #646.
LsRefreshFailsSilent ==
    /\ lsOp.at = "refresh" /\ LsFaulty
    /\ lsItems' = lsItems \cup lsOp.out /\ LsDone /\ LsKeepStale
    /\ UNCHANGED <<lsRemote, lsForeign, lsFound, lsInput, lsBlind>>

\* A failed re-read keeps the add and marks the mirror stale.
LsRefreshFails ==
    /\ lsOp.at = "refresh" /\ LsFaulty
    /\ lsItems' = lsItems \cup lsOp.out /\ LsDone /\ LsMarkStale
    /\ UNCHANGED <<lsRemote, lsForeign, lsFound, lsInput, lsBlind>>

---------------------------------------------------------------------------
(* syncZoneRule, at the end of a Sync that pushed.                         *)

LsZoneRule ==
    /\ lsOp.at = "rule" /\ lsOp' = LsIdle /\ lsRule' = TRUE
    /\ UNCHANGED <<lsEdge, lsList, lsTheirs, lsMirror, lsInput, lsBlind, lsFaults>>

\* A failed read or write of the rule fails the Sync; the write may be in.
LsZoneRuleFails ==
    /\ lsOp.at = "rule" /\ LsFaulty /\ lsOp' = LsIdle /\ lsRule' \in {lsRule, TRUE}
    /\ UNCHANGED <<lsEdge, lsList, lsTheirs, lsMirror, lsInput, lsBlind>>

---------------------------------------------------------------------------
(* flushRemovals, on the removal ticker.                                   *)

LsFlush ==
    LET gone == IF lsFound THEN lsItems \ lsDesired ELSE {}
    IN  /\ lsOp = LsIdle /\ (lsForeign # {} \/ gone # {})
        /\ lsForeign' = {}
        /\ lsOp' = IF gone = {} THEN LsIdle
                   ELSE [LsIdle EXCEPT !.at = "del", !.who = "flush", !.todo = gone, !.ask = gone]
        /\ UNCHANGED <<lsRemote, lsItems, lsFound, lsStale, lsStaleTimer, lsInput, lsBlind, lsFaults>>

\* removeItems and removeStale: an unconfirmed delete marks the mirror stale;
\* after the last batch the IDs are forgotten.
LsDelete ==
    /\ lsOp.at = "del"
    /\ \E B \in LsBatches(lsOp.todo), r \in LsReplies :
        /\ r.reply \in {"done", "unsure"} /\ LsPaid(r)
        /\ IF r.applied THEN LsPut(B \cap LsOwned, "none") ELSE UNCHANGED lsEdge
        /\ IF r.reply = "unsure" THEN LsMarkStale ELSE LsKeepStale
        /\ IF B = lsOp.todo THEN lsItems' = lsItems \ lsOp.ask /\ lsOp' = LsIdle
           ELSE lsOp' = [lsOp EXCEPT !.todo = @ \ B] /\ UNCHANGED lsItems
    /\ UNCHANGED <<lsList, lsRule, lsTheirs, lsForeign, lsFound, lsInput, lsBlind>>

\* A failed delete is logged and retried on the next tick with the same IDs.
LsDeleteFails ==
    /\ lsOp.at = "del" /\ LsFaulty
    /\ \E B \in LsBatches(lsOp.todo), applied \in BOOLEAN :
        /\ IF applied THEN LsPut(B \cap LsOwned, "none") ELSE UNCHANGED lsEdge
        /\ lsBlind' = (lsBlind \/ applied \/ lsOp.todo # lsOp.ask)
    /\ lsOp' = LsIdle
    /\ UNCHANGED <<lsList, lsRule, lsTheirs, lsMirror, lsInput>>

---------------------------------------------------------------------------
(* The other instances and the operator of the account; a restart.         *)

LsOthersAdd(ip) ==
    /\ LsChange /\ lsList /\ lsEdge[ip] = "none" /\ LsPut({ip}, "other") /\ lsTheirs' = lsTheirs \cup {ip}
    /\ UNCHANGED <<lsList, lsRule, lsMirror, lsDesired, lsTimer, lsSync, lsOp, lsBlind, lsFaults>>

LsOthersDrop(ip) ==
    /\ LsChange /\ ip \in lsTheirs /\ LsPut({ip}, "none") /\ lsTheirs' = lsTheirs \ {ip}
    /\ UNCHANGED <<lsList, lsRule, lsMirror, lsDesired, lsTimer, lsSync, lsOp, lsBlind, lsFaults>>

LsRestart ==
    /\ LsChange /\ lsItems' = {} /\ lsForeign' = {} /\ lsFound' = FALSE /\ lsStale' = FALSE /\ lsStaleTimer' = FALSE
    /\ lsDesired' = {} /\ lsTimer' = FALSE /\ lsSync' = FALSE
    /\ lsOp' = LsIdle /\ lsBlind' = FALSE
    /\ UNCHANGED <<lsRemote, lsFaults>>

LsPush == LsDiscover \/ LsCreateList \/ LsDiscoverFails \/ LsAdd \/ LsAddFails \/ LsAddDuplicate
            \/ LsRetryAdd \/ LsRetryFails \/ LsRefresh \/ LsRefreshFails \/ LsZoneRule \/ LsZoneRuleFails
LsRemove == LsFlush \/ LsDelete \/ LsDeleteFails
LsCalls == \/ \E ip \in LsIPs : LsBan(ip) \/ LsUnban(ip) \/ LsOthersAdd(ip) \/ LsOthersDrop(ip)
           \/ LsRestart
LsSyncs == LsSyncCall(lsDesired) \/ \E want \in SUBSET LsIPs : LsSyncCall(want)

LsNext == LsCalls \/ LsSyncs \/ LsDebounce \/ LsSyncPush \/ LsRebuild \/ LsPush \/ LsRemove

\* Timers fire, the flusher ticks, a call in flight returns; the reconcile
\* loop keeps calling Sync with the bans of the store.
LsFair == /\ WF_lsVars(LsDebounce) /\ WF_lsVars(LsSyncPush) /\ WF_lsVars(LsRebuild)
          /\ WF_lsVars(LsPush) /\ SF_lsVars(LsFlush) /\ WF_lsVars(LsDelete \/ LsDeleteFails)
LsSpec == LsInit /\ [][LsNext]_lsVars /\ LsFair

---------------------------------------------------------------------------
(* Properties.                                                             *)

\* Between two holders of pushMu, unless the mirror is marked stale or a lost
\* reply hid a change, the mirror is exactly what this instance owns at the
\* edge: no item leaks there for good, no ban is taken for listed that is
\* not (issues #646 and #654).
LsMirrorExact == (lsOp = LsIdle /\ lsFound /\ ~lsStale /\ ~lsBlind) => lsItems = LsOwned

\* The enforcer keeps the contract of the shared list (issue #486).
Share == INSTANCE EdgeShare WITH
            Addrs <- LsIPs, Protected <- LsAllow, Mine <- IF LsAdopt THEN {"own", "legacy"} ELSE {"own"},
            listed <- lsEdge, theirs <- lsTheirs
LsSharesList == Share!ShareSpec

\* A stale mirror is rebuilt even if nothing is banned any more: the paced
\* retry is never lost (rebuildStaleMirror re-arms itself).
LsMirrorHeals == []<>~lsStale

\* The list enforcer's bookkeeping, through lost replies, refused pages, removal
\* batches and somebody else's items.
LsInv == LsTypeOK /\ LsMirrorExact
==========================================================================

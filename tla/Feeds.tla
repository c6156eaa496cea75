------------------------------- MODULE Feeds -------------------------------
(***************************************************************************)
(* Reputation feeds: the fetcher with its conditional requests and its     *)
(* last-known-good cache, the daemon's handling of a refresh (guardrails,  *)
(* then the observe or the block path) and the kernel's feed sets.         *)
(*                                                                         *)
(* Every feed has a goroutine that refreshes it for ever; `feeds refresh`  *)
(* runs the same code concurrently on a connection's goroutine. An entry   *)
(* is a model value, a feed's body a version of its publisher's file.      *)
(***************************************************************************)
EXTENDS Integers, Sequences

CONSTANTS
  FdEntries,      \* addresses and ranges a feed may list
  FdContent,      \* publisher's file: feed -> sequence of sets of entries, one per version
  FdActions,      \* configurations considered: functions from feeds to "block" or "observe"
  FdReserved,     \* private, loopback and other reserved ranges a feed may carry
  FdGuards,       \* entries the static allowlist, an SSH peer or a CDN range overlaps
  FdAllowable,    \* entries the operator may allow at run time
  FdMaxOps, FdMaxFaults   \* bounds: operator steps, on-demand refreshes among them; faults

FdFeeds == DOMAIN FdContent
FdJobs == FdFeeds \cup {"demand"}   \* the refresh goroutine of each feed, and the socket's

ASSUME FdConstants ==
  /\ \A f \in FdFeeds : FdContent[f] # <<>> /\ FdContent[f] \in Seq(SUBSET FdEntries)
  /\ \A c \in FdActions : c \in [FdFeeds -> {"block", "observe"}]
  /\ FdReserved \subseteq FdEntries /\ FdGuards \subseteq FdEntries /\ FdAllowable \subseteq FdEntries
  /\ {FdMaxOps, FdMaxFaults} \subseteq Nat
  /\ {"demand", ""} \cap FdFeeds = {}

VARIABLES
  fdAction,       \* what each feed is configured to do; never changes
  fdPub,          \* the version each publisher serves
  fdCache,        \* Fetcher.state: [tag, good] with tag 0 for none
  fdJob,          \* a job: [at, feed] with what it carries
  fdDesired,      \* feedBlockDesired
  fdOwner,        \* feedReputation: the feed that flags an entry, "" for none
  fdKernel,       \* blocked_feeds
  fdArmed, fdAllow,
  fdOps, fdFaults,
  fdCut,          \* history: feeds of which a body once ended early
  fdLatest        \* history: what a feed's last handled refresh kept

fdDaemon == <<fdCache, fdDesired, fdOwner>>
fdOper == <<fdArmed, fdAllow, fdOps>>
fdHist == <<fdCut, fdLatest>>
fdVars == <<fdAction, fdPub, fdDaemon, fdJob, fdKernel, fdOper, fdFaults, fdHist>>

FdIdle == [at |-> "idle"]
FdEmpty == [f \in FdFeeds |-> {}]
FdNoCache == [f \in FdFeeds |-> [tag |-> 0, good |-> {}]]

FdInit ==
  /\ fdAction \in FdActions
  /\ fdPub = [f \in FdFeeds |-> 1] /\ fdCache = FdNoCache
  /\ fdJob = [j \in FdJobs |-> FdIdle]
  /\ fdDesired = FdEmpty /\ fdOwner = [e \in FdEntries |-> ""] /\ fdKernel = {}
  /\ fdArmed = TRUE /\ fdAllow = {} /\ fdOps = 0 /\ fdFaults = 0
  /\ fdCut = {} /\ fdLatest = FdEmpty

FdMove(j, job) == fdJob' = [fdJob EXCEPT ![j] = job]
FdOperate == fdOps < FdMaxOps /\ fdOps' = fdOps + 1
FdFault == fdFaults < FdMaxFaults /\ fdFaults' = fdFaults + 1

-----------------------------------------------------------------------------
(* The fetcher.                                                            *)

\* Fetch reads the validators under the lock and sends the request without it.
FdAsk(j, f) ==
  /\ fdJob[j] = FdIdle /\ j \in {f, "demand"}
  /\ IF j = "demand" THEN FdOperate ELSE UNCHANGED fdOps
  /\ FdMove(j, [at |-> "asked", feed |-> f, tag |-> fdCache[f].tag])
  /\ UNCHANGED <<fdAction, fdPub, fdDaemon, fdKernel, fdArmed, fdAllow, fdFaults, fdHist>>

\* The publisher answers: not modified, or its current file.
FdReply(j) ==
  /\ fdJob[j].at = "asked"
  /\ LET f == fdJob[j].feed
     IN FdMove(j, IF fdJob[j].tag = fdPub[f] THEN [at |-> "same", feed |-> f]
                  ELSE [at |-> "body", feed |-> f, tag |-> fdPub[f],
                        set |-> FdContent[f][fdPub[f]], junk |-> FALSE])
  /\ UNCHANGED <<fdAction, fdPub, fdDaemon, fdKernel, fdOper, fdFaults, fdHist>>

\* The connection breaks in the body: parse stops at the read error and keeps what it has.
FdReplyCut(j) ==
  /\ fdJob[j].at = "body" /\ ~fdJob[j].junk /\ FdFault
  /\ \E part \in SUBSET fdJob[j].set : part # fdJob[j].set /\ FdMove(j, [fdJob[j] EXCEPT !.set = part])
  /\ fdCut' = fdCut \cup {fdJob[j].feed}
  /\ UNCHANGED <<fdAction, fdPub, fdDaemon, fdKernel, fdOper, fdLatest>>

\* An error page served with 200: no line of it parses.
FdReplyJunk(j) ==
  /\ fdJob[j].at = "body" /\ ~fdJob[j].junk /\ FdFault
  /\ FdMove(j, [fdJob[j] EXCEPT !.set = {}, !.junk = TRUE])
  /\ UNCHANGED <<fdAction, fdPub, fdDaemon, fdKernel, fdOper, fdHist>>

\* A refused connection, a timeout, another status: the refresh is given up.
FdReplyFails(j) ==
  /\ fdJob[j].at = "asked" /\ FdFault
  /\ FdMove(j, FdIdle)
  /\ UNCHANGED <<fdAction, fdPub, fdDaemon, fdKernel, fdOper, fdHist>>

\* Fetch: a body without one valid entry is refused.
FdRejects(job) == job.set = {} /\ job.junk

FdBodyRejected(j) ==
  /\ fdJob[j].at = "body" /\ FdRejects(fdJob[j])
  /\ FdMove(j, FdIdle)
  /\ UNCHANGED <<fdAction, fdPub, fdDaemon, fdKernel, fdOper, fdFaults, fdHist>>

\* filterFeedEntries, with the allowlists of this moment.
FdKept(set) == set \ (FdGuards \cup fdAllow)

\* parseLine drops what overlaps a reserved range, and never counts it as invalid.
FdParsed(set) == set \ FdReserved

\* The validators and the set are stored together, then the update is handed to the daemon.
FdTake(j) ==
  /\ fdJob[j].at = "body" /\ ~FdRejects(fdJob[j])
  /\ LET f == fdJob[j].feed
     IN /\ fdCache' = [fdCache EXCEPT ![f] = [tag |-> fdJob[j].tag, good |-> FdParsed(fdJob[j].set)]]
        /\ FdMove(j, [at |-> "update", feed |-> f, kept |-> FdKept(FdParsed(fdJob[j].set))])
  /\ UNCHANGED <<fdAction, fdPub, fdDesired, fdOwner, fdKernel, fdOper, fdFaults, fdHist>>

\* A 304 hands out the last-known-good set.
FdUnchangedSet(f) == fdCache[f].good

FdTakeSame(j) ==
  /\ fdJob[j].at = "same"
  /\ LET f == fdJob[j].feed
     IN FdMove(j, [at |-> "update", feed |-> f, kept |-> FdKept(FdUnchangedSet(f))])
  /\ UNCHANGED <<fdAction, fdPub, fdDaemon, fdKernel, fdOper, fdFaults, fdHist>>

-----------------------------------------------------------------------------
(* The daemon.                                                             *)

\* feedReputation.set adds the new entries and leaves the feed's old ones.
FdFlagsKept(f, kept) == [e \in FdEntries |-> IF e \in kept THEN f ELSE fdOwner[e]]

\* feedReputation.set: the feed's entries go, the kept ones are its own now.
FdFlags(f, kept) ==
  [e \in FdEntries |-> IF e \in kept THEN f ELSE IF fdOwner[e] = f THEN "" ELSE fdOwner[e]]

FdObserve(j) ==
  /\ fdJob[j].at = "update" /\ fdAction[fdJob[j].feed] = "observe"
  /\ fdOwner' = FdFlags(fdJob[j].feed, fdJob[j].kept)
  /\ fdLatest' = [fdLatest EXCEPT ![fdJob[j].feed] = fdJob[j].kept]
  /\ FdMove(j, FdIdle)
  /\ UNCHANGED <<fdAction, fdPub, fdCache, fdDesired, fdKernel, fdOper, fdFaults, fdCut>>

\* applyFeedBlock under feedMu: the feed's share is replaced; the union of all feeds is built.
FdDesire(j) ==
  /\ fdJob[j].at = "update" /\ fdAction[fdJob[j].feed] = "block"
  /\ fdDesired' = [fdDesired EXCEPT ![fdJob[j].feed] = fdJob[j].kept]
  /\ fdLatest' = [fdLatest EXCEPT ![fdJob[j].feed] = fdJob[j].kept]
  /\ UNCHANGED <<fdAction, fdPub, fdCache, fdOwner, fdKernel, fdOper, fdFaults, fdCut>>

\* The daemon is disarmed (or has no nftables enforcer): nothing is written.
FdDryRun(j) == FdDesire(j) /\ ~fdArmed /\ FdMove(j, FdIdle)

\* Only the refreshed feed's entries go to the helper.
FdCombineOwn(j) ==
  /\ FdDesire(j) /\ fdArmed
  /\ FdMove(j, [at |-> "sync", feed |-> fdJob[j].feed, all |-> fdJob[j].kept])

\* The lock is released and the flag read; the union goes to the helper afterwards.
FdCombine(j) ==
  /\ FdDesire(j) /\ fdArmed
  /\ FdMove(j, [at |-> "sync", feed |-> fdJob[j].feed, all |-> UNION {fdDesired'[f] : f \in FdFeeds}])

\* feeds_sync: one transaction replaces both sets.
FdSync(j) ==
  /\ fdJob[j].at = "sync" /\ FdMove(j, FdIdle)
  /\ fdKernel' = fdJob[j].all
  /\ UNCHANGED <<fdAction, fdPub, fdDaemon, fdOper, fdFaults, fdHist>>

FdSyncFails(j) ==
  /\ fdJob[j].at = "sync" /\ FdMove(j, FdIdle) /\ FdFault
  /\ UNCHANGED <<fdAction, fdPub, fdDaemon, fdKernel, fdOper, fdHist>>

-----------------------------------------------------------------------------
(* The operator, the publisher, the kernel and the crash.                  *)

FdArm ==
  /\ FdOperate /\ fdArmed' = ~fdArmed
  /\ UNCHANGED <<fdAction, fdPub, fdDaemon, fdJob, fdKernel, fdAllow, fdFaults, fdHist>>

\* Allowed addresses pass before the feed sets; the sets themselves wait for a refresh.
FdAllowed ==
  /\ FdOperate /\ \E e \in FdAllowable \ fdAllow : fdAllow' = fdAllow \cup {e}
  /\ UNCHANGED <<fdAction, fdPub, fdDaemon, fdJob, fdKernel, fdArmed, fdFaults, fdHist>>

\* disable --all: disarm, forget the desired state, empty the sets (or fail to).
FdPanic ==
  /\ FdOperate /\ fdArmed' = FALSE
  /\ fdDesired' = FdEmpty /\ fdLatest' = [f \in FdFeeds |->
                                IF fdAction[f] = "block" THEN {} ELSE fdLatest[f]]
  /\ \/ fdKernel' = {} /\ UNCHANGED fdFaults
     \/ FdFault /\ UNCHANGED fdKernel
  /\ UNCHANGED <<fdAction, fdPub, fdCache, fdOwner, fdJob, fdAllow, fdCut>>

FdPublish(f) ==
  /\ fdPub[f] < Len(FdContent[f])
  /\ fdPub' = [fdPub EXCEPT ![f] = @ + 1]
  /\ UNCHANGED <<fdAction, fdDaemon, fdJob, fdKernel, fdOper, fdFaults, fdHist>>

\* Refreshes stayed away for a TTL: the elements drain.
FdExpire ==
  /\ fdKernel # {} /\ FdFault /\ fdKernel' = {}
  /\ UNCHANGED <<fdAction, fdPub, fdDaemon, fdJob, fdOper, fdHist>>

FdCrash ==
  /\ FdFault
  /\ fdCache' = FdNoCache /\ fdDesired' = FdEmpty /\ fdOwner' = [e \in FdEntries |-> ""]
  /\ fdJob' = [j \in FdJobs |-> FdIdle] /\ fdLatest' = FdEmpty /\ fdCut' = {}
  /\ UNCHANGED <<fdAction, fdPub, fdKernel, fdOper>>

-----------------------------------------------------------------------------
FdRefresh(j) ==
  \/ \E f \in FdFeeds : FdAsk(j, f)
  \/ FdReply(j) \/ FdBodyRejected(j) \/ FdTake(j) \/ FdTakeSame(j)
  \/ FdObserve(j) \/ FdDryRun(j) \/ FdCombine(j) \/ FdSync(j)

FdBroken(j) == FdReplyCut(j) \/ FdReplyJunk(j) \/ FdReplyFails(j) \/ FdSyncFails(j)

FdNext ==
  \/ \E j \in FdJobs : FdRefresh(j) \/ FdBroken(j)
  \/ FdArm \/ FdAllowed \/ FdPanic \/ FdExpire \/ FdCrash
  \/ \E f \in FdFeeds : FdPublish(f)

\* The refresh loop of every feed goes on; nobody need ask for a refresh.
FdSpec == /\ FdInit /\ [][FdNext]_fdVars
          /\ \A f \in FdFeeds : WF_fdVars(FdRefresh(f))
          /\ WF_fdVars(FdRefresh("demand"))

-----------------------------------------------------------------------------
(* Properties.                                                             *)

\* Every variable keeps its type; nothing guarded or reserved is flagged or blocked.
FdTypeOK ==
  /\ fdAction \in FdActions /\ fdArmed \in BOOLEAN /\ fdAllow \subseteq FdAllowable
  /\ \A f \in FdFeeds : /\ fdPub[f] \in DOMAIN FdContent[f]
                        /\ fdCache[f].tag \in 0 .. fdPub[f] /\ fdCache[f].good \subseteq FdEntries \ FdReserved
                        /\ fdDesired[f] \subseteq FdEntries \ (FdGuards \cup FdReserved)
  /\ \A e \in FdEntries : fdOwner[e] \in {""} \cup (IF e \in FdGuards \cup FdReserved THEN {} ELSE FdFeeds)
  /\ fdKernel \subseteq FdEntries \ (FdGuards \cup FdReserved)
  /\ \A j \in FdJobs : fdJob[j].at \in
       {"idle", "asked", "same", "body", "update", "sync"}
  /\ fdCut \subseteq FdFeeds

\* The validator a feed's next request carries belongs to the set a 304 would hand out:
\* whichever job stored last and whatever failed in between, a feed whose bodies all arrived
\* whole caches exactly the file of that version (Fetch's all-invalid refusal and its single
\* critical section).
FdCacheHonest ==
  \A f \in FdFeeds : f \notin fdCut /\ fdCache[f].tag # 0 =>
    fdCache[f].good = FdContent[f][fdCache[f].tag] \ FdReserved

\* An entry is flagged only while the latest refresh of the flagging feed lists it
\* (feedReputation.set replaces one feed's entries and no other's).
FdFlagsCurrent ==
  \A e \in FdEntries : fdOwner[e] # "" => e \in fdLatest[fdOwner[e]]

\* What a feed's refresh loop ends up enforcing: once publishers, operator and faults are
\* quiet, an armed daemon's kernel sets hold exactly the unguarded entries of the current
\* files, whichever refreshes overlapped, failed or were answered 304 before (applyFeedBlock's
\* combined set is written after its lock is released).
FdSettled == \A f \in FdFeeds : f \notin fdCut
FdExact == fdKernel = UNION {FdContent[f][fdPub[f]] \ (FdReserved \cup FdGuards \cup fdAllow) :
                               f \in {g \in FdFeeds : fdAction[g] = "block"}}
FdConverges == <>[](fdArmed /\ FdSettled /\ (\E f \in FdFeeds : fdAction[f] = "block") => FdExact)

\* What a feed's refresh leaves behind, whichever refreshes overlap or fail.
FdInv == FdTypeOK /\ FdCacheHonest /\ FdFlagsCurrent
=============================================================================

-------------------------- MODULE Services_proofs --------------------------
(***************************************************************************)
(* Proofs about the services around the ban pipeline: the reputation feeds *)
(* (Feeds), the plugins (Plugin), the SIEM forwarding (Siem), and the      *)
(* notifications (Notify).                                                 *)
(*                                                                         *)
(* Reputation feeds, for any feeds, files, guardrails and overlap of       *)
(* refreshes: the cache is honest about its validators, and a flag is      *)
(* current. Neither is inductive. FdJobsOK says what a refresh carries     *)
(* between its steps: an answer that arrived whole is the file of its tag, *)
(* and what a refresh hands on has passed the guardrails; FdFlagsOK says   *)
(* that only observing feeds flag.                                         *)
(***************************************************************************)
EXTENDS Feeds, Plugin, Siem, Notify, FiniteSetTheorems, TLAPS

FdOpen == FdEntries \ (FdGuards \cup FdReserved)

\* What a refresh carries.
FdAskedType == [at : {"asked"}, feed : FdFeeds, tag : Nat]
FdSameType == [at : {"same"}, feed : FdFeeds]
FdBodyType == [at : {"body"}, feed : FdFeeds, tag : Nat, set : SUBSET FdEntries, junk : BOOLEAN]
FdUpdateType == [at : {"update"}, feed : FdFeeds, kept : SUBSET FdOpen]
FdSyncType == [at : {"sync"}, feed : FdFeeds, all : SUBSET FdOpen]
FdJobType == {FdIdle} \cup FdAskedType \cup FdSameType \cup FdBodyType \cup FdUpdateType \cup FdSyncType

FdShape ==
  /\ fdAction \in FdActions /\ fdArmed \in BOOLEAN /\ fdAllow \subseteq FdAllowable
  /\ fdPub \in [FdFeeds -> Nat] /\ \A f \in FdFeeds : fdPub[f] \in 1 .. Len(FdContent[f])
  /\ fdCache \in [FdFeeds -> [tag : Nat, good : SUBSET (FdEntries \ FdReserved)]]
  /\ \A f \in FdFeeds : fdCache[f].tag <= fdPub[f]
  /\ fdDesired \in [FdFeeds -> SUBSET FdOpen] /\ fdLatest \in [FdFeeds -> SUBSET FdOpen]
  /\ fdOwner \in [FdEntries -> FdFeeds \cup {""}]
  /\ fdKernel \subseteq FdOpen /\ fdCut \subseteq FdFeeds
  /\ fdJob \in [FdJobs -> FdJobType]

\* A body on its way is the publisher's file of its tag, unless it was cut.
FdBodyOK(j) ==
  fdJob[j].at = "body" =>
    /\ 1 <= fdJob[j].tag /\ fdJob[j].tag <= fdPub[fdJob[j].feed]
    /\ fdJob[j].junk => fdJob[j].set = {}
    /\ ~fdJob[j].junk /\ fdJob[j].feed \notin fdCut => fdJob[j].set = FdContent[fdJob[j].feed][fdJob[j].tag]
FdJobsOK == \A j \in FdJobs : FdBodyOK(j)

\* Only observing feeds flag, and what they list now.
FdFlagsOK == \A e \in FdEntries : fdOwner[e] # "" => fdAction[fdOwner[e]] = "observe" /\ e \in fdLatest[fdOwner[e]]

FdIndInv == FdShape /\ FdJobsOK /\ FdCacheHonest /\ FdFlagsOK

-----------------------------------------------------------------------------
(* What a refresh carries at each of its stations.                         *)

\* The versions of a publisher's file are sets of entries.
LEMMA FdFiles ==
  ASSUME NEW f \in FdFeeds, NEW n \in 1 .. Len(FdContent[f])
  PROVE FdContent[f][n] \subseteq FdEntries
<1>1. FdContent[f] \in Seq(SUBSET FdEntries)
  BY FdConstants
<1> QED BY <1>1

\* The socket's job belongs to no feed and no feed is called "".
LEMMA FdNames ==
  /\ "" \notin FdFeeds
  /\ \A f \in FdFeeds : FdContent[f] # <<>> /\ Len(FdContent[f]) \in Nat /\ Len(FdContent[f]) >= 1
<1>1. "" \notin FdFeeds
  BY FdConstants
<1>2. ASSUME NEW f \in FdFeeds PROVE FdContent[f] # <<>> /\ Len(FdContent[f]) \in Nat /\ Len(FdContent[f]) >= 1
  <2>1. FdContent[f] # <<>> /\ FdContent[f] \in Seq(SUBSET FdEntries)
    BY FdConstants
  <2> QED BY <2>1
<1> QED BY <1>1, <1>2

\* A job's record is told by its station.
LEMMA FdStations ==
  ASSUME NEW r \in FdJobType
  PROVE /\ r.at = "asked" => r \in FdAskedType
        /\ r.at = "same" => r \in FdSameType
        /\ r.at = "body" => r \in FdBodyType
        /\ r.at = "update" => r \in FdUpdateType
        /\ r.at = "sync" => r \in FdSyncType
        /\ r.at \in {"idle", "asked", "same", "body", "update", "sync"}
  BY DEF FdJobType, FdIdle, FdAskedType, FdSameType, FdBodyType, FdUpdateType, FdSyncType

\* A step of one job leaves the others where they are.
LEMMA FdMoves ==
  ASSUME NEW j \in FdJobs, NEW r \in FdJobType, fdJob \in [FdJobs -> FdJobType], FdMove(j, r)
  PROVE fdJob' \in [FdJobs -> FdJobType] /\ fdJob'[j] = r /\ \A k \in FdJobs \ {j} : fdJob'[k] = fdJob[k]
  BY DEF FdMove

\* A job that ends, or that carries no body, disturbs no other job's body.
LEMMA FdBodiesStay ==
  ASSUME FdShape, FdJobsOK, FdShape', NEW j \in FdJobs, NEW r \in FdJobType, FdMove(j, r), r.at # "body",
         UNCHANGED <<fdPub, fdCut>>
  PROVE FdJobsOK'
<1> SUFFICES ASSUME NEW k \in FdJobs PROVE FdBodyOK(k)'
  BY DEF FdJobsOK
<1>1. fdJob'[j] = r /\ \A l \in FdJobs \ {j} : fdJob'[l] = fdJob[l]
  BY FdMoves DEF FdShape
<1>2. CASE k = j
  BY <1>1, <1>2 DEF FdBodyOK
<1>3. CASE k # j
  BY <1>1, <1>3 DEF FdJobsOK, FdBodyOK
<1> QED BY <1>2, <1>3

-----------------------------------------------------------------------------
(* Every step keeps the invariant.                                         *)

\* A request, an answer without a body and a refresh that is given up move one job only.
LEMMA FdJobOnly ==
  ASSUME FdIndInv, NEW j \in FdJobs, NEW r \in FdJobType, FdMove(j, r), r.at # "body",
         UNCHANGED <<fdAction, fdPub, fdDaemon, fdKernel, fdArmed, fdAllow, fdHist>>
  PROVE FdIndInv'
<1> USE DEF FdIndInv
<1>1. FdShape'
  BY FdMoves DEF FdShape, fdDaemon, fdHist
<1>2. FdJobsOK'
  BY <1>1, FdBodiesStay DEF fdHist
<1>3. FdCacheHonest' /\ FdFlagsOK'
  BY DEF FdCacheHonest, FdFlagsOK, fdDaemon, fdHist
<1> QED BY <1>1, <1>2, <1>3

LEMMA FdAskKeeps ==
  ASSUME FdIndInv, NEW j \in FdJobs, NEW f \in FdFeeds, FdAsk(j, f)
  PROVE FdIndInv'
<1> DEFINE r == [at |-> "asked", feed |-> f, tag |-> fdCache[f].tag]
<1>1. r \in FdAskedType
  BY DEF FdIndInv, FdShape, FdAskedType
<1>2. r \in FdJobType /\ r.at # "body"
  BY <1>1 DEF FdJobType
<1>3. FdMove(j, r) /\ UNCHANGED <<fdAction, fdPub, fdDaemon, fdKernel, fdArmed, fdAllow, fdHist>>
  BY DEF FdAsk
<1> HIDE DEF r
<1> QED BY <1>2, <1>3, FdJobOnly

LEMMA FdIdleKeeps ==
  ASSUME FdIndInv, NEW j \in FdJobs, FdBodyRejected(j) \/ FdReplyFails(j) \/ FdSyncFails(j)
  PROVE FdIndInv'
<1>1. FdMove(j, FdIdle) /\ UNCHANGED <<fdAction, fdPub, fdDaemon, fdKernel, fdArmed, fdAllow, fdHist>>
  BY DEF FdBodyRejected, FdReplyFails, FdSyncFails, fdOper
<1>2. FdIdle \in FdJobType /\ FdIdle.at # "body"
  BY DEF FdJobType, FdIdle
<1> QED BY <1>1, <1>2, FdJobOnly

LEMMA FdReplyKeeps ==
  ASSUME FdIndInv, NEW j \in FdJobs, FdReply(j)
  PROVE FdIndInv'
<1> DEFINE f == fdJob[j].feed
           same == [at |-> "same", feed |-> f]
           body == [at |-> "body", feed |-> f, tag |-> fdPub[f], set |-> FdContent[f][fdPub[f]], junk |-> FALSE]
<1>1. f \in FdFeeds /\ fdPub[f] \in Nat /\ fdPub[f] \in 1 .. Len(FdContent[f])
  <2>1. fdJob[j] \in FdAskedType
    BY FdStations DEF FdReply, FdIndInv, FdShape
  <2> QED BY <2>1 DEF FdAskedType, FdIndInv, FdShape
<1>2. UNCHANGED <<fdAction, fdPub, fdDaemon, fdKernel, fdArmed, fdAllow, fdHist>>
  BY DEF FdReply, fdOper
<1>3. FdMove(j, same) \/ FdMove(j, body)
  BY DEF FdReply
<1>4. CASE FdMove(j, same)
  <2>1. same \in FdJobType /\ same.at # "body"
    BY <1>1 DEF FdJobType, FdSameType
  <2> HIDE DEF same
  <2> QED BY <2>1, <1>4, <1>2, FdJobOnly
<1>5. CASE FdMove(j, body)
  <2>1. body \in FdJobType
    <3>1. FdContent[f][fdPub[f]] \in SUBSET FdEntries
      BY <1>1, FdFiles
    <3> QED BY <1>1, <3>1 DEF FdJobType, FdBodyType
  <2>2. fdJob' \in [FdJobs -> FdJobType] /\ fdJob'[j] = body /\ \A k \in FdJobs \ {j} : fdJob'[k] = fdJob[k]
    <3> HIDE DEF body
    <3> QED BY <2>1, <1>5, FdMoves DEF FdIndInv, FdShape
  <2>3. FdShape'
    BY <2>2, <1>2 DEF FdIndInv, FdShape, fdDaemon, fdHist
  <2>4. FdBodyOK(j)'
    <3>1. fdJob'[j].tag = fdPub[f] /\ fdJob'[j].feed = f /\ fdJob'[j].junk = FALSE /\ fdJob'[j].set = FdContent[f][fdPub[f]]
      BY <2>2
    <3> QED BY <3>1, <1>1, <1>2 DEF FdBodyOK
  <2>5. ASSUME NEW k \in FdJobs, k # j PROVE FdBodyOK(k)'
    BY <2>2, <2>5, <1>2 DEF FdIndInv, FdJobsOK, FdBodyOK, fdHist
  <2>6. FdCacheHonest' /\ FdFlagsOK'
    BY <1>2 DEF FdIndInv, FdCacheHonest, FdFlagsOK, fdDaemon, fdHist
  <2> QED BY <2>3, <2>4, <2>5, <2>6 DEF FdIndInv, FdJobsOK
<1> QED BY <1>3, <1>4, <1>5

\* Entries that passed the parser and the guardrails are open.
LEMMA FdKeptOpen ==
  ASSUME NEW s, s \subseteq FdEntries \ FdReserved
  PROVE FdKept(s) \subseteq FdOpen
  BY DEF FdKept, FdOpen

LEMMA FdTakeSameKeeps ==
  ASSUME FdIndInv, NEW j \in FdJobs, FdTakeSame(j)
  PROVE FdIndInv'
<1> DEFINE f == fdJob[j].feed
           r == [at |-> "update", feed |-> f, kept |-> FdKept(FdUnchangedSet(f))]
<1>1. f \in FdFeeds
  BY FdStations DEF FdTakeSame, FdIndInv, FdShape, FdSameType
<1>2. FdKept(FdUnchangedSet(f)) \in SUBSET FdOpen
  <2>1. fdCache[f].good \subseteq FdEntries \ FdReserved
    BY <1>1 DEF FdIndInv, FdShape
  <2> QED BY <2>1, FdKeptOpen DEF FdUnchangedSet
<1>3. r \in FdJobType /\ r.at # "body"
  BY <1>1, <1>2 DEF FdJobType, FdUpdateType
<1>4. FdMove(j, r) /\ UNCHANGED <<fdAction, fdPub, fdDaemon, fdKernel, fdArmed, fdAllow, fdHist>>
  BY DEF FdTakeSame, fdOper
<1> HIDE DEF r
<1> QED BY <1>3, <1>4, FdJobOnly

\* Storing an answer keeps the cache honest: a body that arrived whole is the file of its tag.
LEMMA FdTakeKeeps ==
  ASSUME FdIndInv, NEW j \in FdJobs, FdTake(j)
  PROVE FdIndInv'
<1> DEFINE f == fdJob[j].feed
           entry == [tag |-> fdJob[j].tag, good |-> FdParsed(fdJob[j].set)]
           r == [at |-> "update", feed |-> f, kept |-> FdKept(FdParsed(fdJob[j].set))]
<1>1. fdJob[j] \in FdBodyType
  BY FdStations DEF FdTake, FdIndInv, FdShape
<1>2. /\ f \in FdFeeds /\ fdJob[j].tag \in Nat /\ fdJob[j].tag <= fdPub[f]
      /\ FdParsed(fdJob[j].set) \in SUBSET (FdEntries \ FdReserved)
  BY <1>1 DEF FdTake, FdIndInv, FdJobsOK, FdBodyOK, FdBodyType, FdParsed
<1>3. f \notin fdCut => FdParsed(fdJob[j].set) = FdContent[f][fdJob[j].tag] \ FdReserved
  BY <1>1 DEF FdTake, FdRejects, FdIndInv, FdJobsOK, FdBodyOK, FdBodyType, FdParsed
<1>4. r \in FdJobType /\ r.at # "body"
  BY <1>2, FdKeptOpen DEF FdJobType, FdUpdateType
<1>5. FdMove(j, r) /\ UNCHANGED <<fdAction, fdPub, fdDesired, fdOwner, fdKernel, fdArmed, fdAllow, fdCut, fdLatest>>
  BY DEF FdTake, fdOper, fdHist
<1>6. fdCache' = [fdCache EXCEPT ![f] = entry]
  BY DEF FdTake
<1>7. fdJob' \in [FdJobs -> FdJobType]
  <2> HIDE DEF r
  <2> QED BY <1>4, <1>5, FdMoves DEF FdIndInv, FdShape
<1>8. entry \in [tag : Nat, good : SUBSET (FdEntries \ FdReserved)] /\ entry.tag <= fdPub[f]
  BY <1>2
<1>9. FdShape'
  <2> HIDE DEF entry, f
  <2> QED BY <1>2, <1>5, <1>6, <1>7, <1>8 DEF FdIndInv, FdShape
<1>10. FdJobsOK'
  <2> HIDE DEF r
  <2> QED BY <1>4, <1>5, <1>9, FdBodiesStay DEF FdIndInv
<1>11. FdCacheHonest'
  <2> SUFFICES ASSUME NEW g \in FdFeeds, g \notin fdCut, fdCache'[g].tag # 0
               PROVE fdCache'[g].good = FdContent[g][fdCache'[g].tag] \ FdReserved
    BY <1>5 DEF FdCacheHonest
  <2>1. CASE g = f
    BY <2>1, <1>2, <1>3, <1>6 DEF FdIndInv, FdShape
  <2>2. CASE g # f
    BY <2>2, <1>6 DEF FdIndInv, FdShape, FdCacheHonest
  <2> QED BY <2>1, <2>2
<1>12. FdFlagsOK'
  BY <1>5 DEF FdIndInv, FdFlagsOK
<1> QED BY <1>9, <1>10, <1>11, <1>12 DEF FdIndInv

\* A body that breaks off or turns out to be junk stays with its job.
LEMMA FdSpoilKeeps ==
  ASSUME FdIndInv, NEW j \in FdJobs, FdReplyCut(j) \/ FdReplyJunk(j)
  PROVE FdIndInv'
<1> DEFINE f == fdJob[j].feed
<1>1. fdJob[j] \in FdBodyType
  BY FdStations DEF FdReplyCut, FdReplyJunk, FdIndInv, FdShape
<1>2. f \in FdFeeds /\ fdCut \subseteq fdCut' /\ fdCut' \subseteq FdFeeds
      /\ UNCHANGED <<fdAction, fdPub, fdDaemon, fdKernel, fdArmed, fdAllow, fdLatest>>
  BY <1>1 DEF FdReplyCut, FdReplyJunk, fdOper, fdHist, FdBodyType, FdIndInv, FdShape
<1>3. PICK r \in FdBodyType : /\ FdMove(j, r) /\ r.tag = fdJob[j].tag /\ r.feed = f
                              /\ (r.junk => r.set = {}) /\ (~r.junk => f \in fdCut')
  <2>1. CASE FdReplyCut(j)
    <3>1. PICK part \in SUBSET fdJob[j].set : FdMove(j, [fdJob[j] EXCEPT !.set = part])
      BY <2>1 DEF FdReplyCut
    <3> DEFINE r == [fdJob[j] EXCEPT !.set = part]
    <3>2. r \in FdBodyType /\ r.tag = fdJob[j].tag /\ r.feed = f /\ r.junk = fdJob[j].junk
      BY <1>1 DEF FdBodyType
    <3>3. ~r.junk /\ f \in fdCut'
      BY <2>1, <3>2 DEF FdReplyCut
    <3> HIDE DEF r
    <3> QED BY <3>1, <3>2, <3>3 DEF r
  <2>2. CASE FdReplyJunk(j)
    <3> DEFINE r == [fdJob[j] EXCEPT !.set = {}, !.junk = TRUE]
    <3>1. FdMove(j, r)
      BY <2>2 DEF FdReplyJunk
    <3>2. r \in FdBodyType /\ r.tag = fdJob[j].tag /\ r.feed = f /\ r.junk = TRUE /\ r.set = {}
      BY <1>1 DEF FdBodyType
    <3> HIDE DEF r
    <3> QED BY <3>1, <3>2
  <2> QED BY <2>1, <2>2
<1>4. r \in FdJobType
  BY DEF FdJobType
<1>5. fdJob' \in [FdJobs -> FdJobType] /\ fdJob'[j] = r /\ \A k \in FdJobs \ {j} : fdJob'[k] = fdJob[k]
  BY <1>3, <1>4, FdMoves DEF FdIndInv, FdShape
<1>6. FdShape'
  BY <1>2, <1>5 DEF FdIndInv, FdShape, fdDaemon
<1>7. FdBodyOK(j)'
  <2>1. fdJob[j].at = "body"
    BY <1>1 DEF FdBodyType
  <2> QED BY <2>1, <1>2, <1>3, <1>5 DEF FdIndInv, FdJobsOK, FdBodyOK
<1>8. ASSUME NEW k \in FdJobs, k # j PROVE FdBodyOK(k)'
  BY <1>8, <1>2, <1>5 DEF FdIndInv, FdJobsOK, FdBodyOK
<1>9. FdCacheHonest' /\ FdFlagsOK'
  BY <1>2 DEF FdIndInv, FdCacheHonest, FdFlagsOK, fdDaemon
<1> QED BY <1>6, <1>7, <1>8, <1>9 DEF FdIndInv, FdJobsOK

\* feedReputation.set: the observed feed's flags are those of this refresh, the others stay.
LEMMA FdObserveKeeps ==
  ASSUME FdIndInv, NEW j \in FdJobs, FdObserve(j)
  PROVE FdIndInv'
<1> DEFINE f == fdJob[j].feed
           kept == fdJob[j].kept
<1>1. f \in FdFeeds /\ kept \subseteq FdOpen
  <2>1. fdJob[j] \in FdUpdateType
    BY FdStations DEF FdObserve, FdIndInv, FdShape
  <2> QED BY <2>1 DEF FdUpdateType
<1>2. /\ FdMove(j, FdIdle) /\ fdAction[f] = "observe"
      /\ fdOwner' = FdFlags(f, kept) /\ fdLatest' = [fdLatest EXCEPT ![f] = kept]
      /\ UNCHANGED <<fdAction, fdPub, fdCache, fdDesired, fdKernel, fdArmed, fdAllow, fdCut>>
  BY DEF FdObserve, fdOper
<1> HIDE DEF f, kept
<1>3. FdIdle \in FdJobType /\ FdIdle.at # "body"
  BY DEF FdJobType, FdIdle
<1>4. fdOwner' \in [FdEntries -> FdFeeds \cup {""}]
  BY <1>1, <1>2 DEF FdFlags, FdIndInv, FdShape
<1>5. fdJob' \in [FdJobs -> FdJobType]
  BY <1>2, <1>3, FdMoves DEF FdIndInv, FdShape
<1>6. FdShape'
  BY <1>1, <1>2, <1>4, <1>5 DEF FdIndInv, FdShape
<1>7. FdJobsOK'
  BY <1>2, <1>3, <1>6, FdBodiesStay DEF FdIndInv
<1>8. FdFlagsOK'
  <2> SUFFICES ASSUME NEW e \in FdEntries, fdOwner'[e] # ""
               PROVE fdAction[fdOwner'[e]] = "observe" /\ e \in fdLatest'[fdOwner'[e]]
    BY <1>2 DEF FdFlagsOK
  <2>1. CASE e \in kept
    BY <2>1, <1>1, <1>2 DEF FdFlags, FdIndInv, FdShape
  <2>2. CASE e \notin kept
    BY <2>2, <1>1, <1>2 DEF FdFlags, FdIndInv, FdShape, FdFlagsOK
  <2> QED BY <2>1, <2>2
<1>9. FdCacheHonest'
  BY <1>2 DEF FdIndInv, FdCacheHonest
<1> QED BY <1>6, <1>7, <1>8, <1>9 DEF FdIndInv

\* applyFeedBlock replaces the feed's share and flags nothing; the union of open shares is open.
LEMMA FdBlockKeeps ==
  ASSUME FdIndInv, NEW j \in FdJobs, FdDryRun(j) \/ FdCombine(j)
  PROVE FdIndInv'
<1> DEFINE f == fdJob[j].feed
           kept == fdJob[j].kept
           all == UNION {fdDesired'[g] : g \in FdFeeds}
           sync == [at |-> "sync", feed |-> f, all |-> all]
<1>1. f \in FdFeeds /\ kept \subseteq FdOpen
  <2>1. fdJob[j] \in FdUpdateType
    BY FdStations DEF FdDryRun, FdCombine, FdDesire, FdIndInv, FdShape
  <2> QED BY <2>1 DEF FdUpdateType
<1>2. /\ FdMove(j, FdIdle) \/ FdMove(j, sync)
      /\ fdAction[f] = "block"
      /\ fdDesired' = [fdDesired EXCEPT ![f] = kept] /\ fdLatest' = [fdLatest EXCEPT ![f] = kept]
      /\ UNCHANGED <<fdAction, fdPub, fdCache, fdOwner, fdKernel, fdArmed, fdAllow, fdCut>>
  BY DEF FdDryRun, FdCombine, FdDesire, fdOper
<1>3. fdDesired' \in [FdFeeds -> SUBSET FdOpen] /\ fdLatest' \in [FdFeeds -> SUBSET FdOpen]
  <2> HIDE DEF f, kept
  <2> QED BY <1>1, <1>2 DEF FdIndInv, FdShape
<1>4. all \in SUBSET FdOpen
  BY <1>3
<1>5. sync \in FdJobType /\ sync.at # "body" /\ FdIdle \in FdJobType /\ FdIdle.at # "body"
  <2> HIDE DEF all, f
  <2> QED BY <1>1, <1>4 DEF FdJobType, FdIdle, FdSyncType
<1>6. PICK r \in FdJobType : r.at # "body" /\ FdMove(j, r)
  <2> HIDE DEF sync
  <2> QED BY <1>2, <1>5
<1>7. fdJob' \in [FdJobs -> FdJobType]
  BY <1>6, FdMoves DEF FdIndInv, FdShape
<1> HIDE DEF f, kept, all, sync
<1>8. FdShape'
  BY <1>2, <1>3, <1>7 DEF FdIndInv, FdShape
<1>9. FdJobsOK'
  BY <1>2, <1>6, <1>8, FdBodiesStay DEF FdIndInv
<1>10. FdFlagsOK'
  <2> SUFFICES ASSUME NEW e \in FdEntries, fdOwner[e] # ""
               PROVE fdAction[fdOwner[e]] = "observe" /\ e \in fdLatest'[fdOwner[e]]
    BY <1>2 DEF FdFlagsOK
  <2>1. fdAction[fdOwner[e]] = "observe" /\ e \in fdLatest[fdOwner[e]]
    BY DEF FdIndInv, FdFlagsOK
  <2>2. fdOwner[e] \in FdFeeds
    BY DEF FdIndInv, FdShape
  <2>3. fdOwner[e] # f
    BY <2>1, <1>2
  <2> QED BY <2>1, <2>2, <2>3, <1>2 DEF FdIndInv, FdShape
<1>11. FdCacheHonest'
  BY <1>2 DEF FdIndInv, FdCacheHonest
<1> QED BY <1>8, <1>9, <1>10, <1>11 DEF FdIndInv

LEMMA FdSyncKeeps ==
  ASSUME FdIndInv, NEW j \in FdJobs, FdSync(j)
  PROVE FdIndInv'
<1>1. FdMove(j, FdIdle) /\ fdKernel' = fdJob[j].all
      /\ UNCHANGED <<fdAction, fdPub, fdDaemon, fdArmed, fdAllow, fdHist>>
  BY DEF FdSync, fdOper
<1>2. fdKernel' \subseteq FdOpen
  <2>1. fdJob[j] \in FdSyncType
    BY FdStations DEF FdSync, FdIndInv, FdShape
  <2> QED BY <2>1, <1>1 DEF FdSyncType
<1>3. FdIdle \in FdJobType /\ FdIdle.at # "body"
  BY DEF FdJobType, FdIdle
<1>4. fdJob' \in [FdJobs -> FdJobType]
  BY <1>1, <1>3, FdMoves DEF FdIndInv, FdShape
<1>5. FdShape'
  BY <1>1, <1>2, <1>4 DEF FdIndInv, FdShape, fdDaemon, fdHist
<1>6. FdJobsOK'
  BY <1>1, <1>3, <1>5, FdBodiesStay DEF FdIndInv, fdHist
<1>7. FdFlagsOK' /\ FdCacheHonest'
  BY <1>1 DEF FdIndInv, FdCacheHonest, FdFlagsOK, fdDaemon, fdHist
<1> QED BY <1>5, <1>6, <1>7 DEF FdIndInv

\* The operator, the panic button, the publisher and the TTL leave every job alone.
LEMMA FdWorldKeeps ==
  ASSUME FdIndInv, FdArm \/ FdAllowed \/ FdPanic \/ FdExpire \/ (\E f \in FdFeeds : FdPublish(f))
  PROVE FdIndInv'
<1>1. UNCHANGED <<fdAction, fdCache, fdOwner, fdJob, fdCut>>
  BY DEF FdArm, FdAllowed, FdPanic, FdExpire, FdPublish, fdDaemon, fdHist
<1>2. /\ fdArmed' \in BOOLEAN /\ fdAllow' \subseteq FdAllowable
      /\ fdDesired' \in [FdFeeds -> SUBSET FdOpen] /\ fdKernel' \subseteq FdOpen
  BY DEF FdArm, FdAllowed, FdPanic, FdExpire, FdPublish, fdDaemon, fdOper, FdIndInv, FdShape, FdEmpty
<1>3. /\ fdPub' \in [FdFeeds -> Nat]
      /\ \A f \in FdFeeds : fdPub'[f] \in 1 .. Len(FdContent[f]) /\ fdPub[f] <= fdPub'[f]
  <2>0. fdPub \in [FdFeeds -> Nat] /\ \A f \in FdFeeds : fdPub[f] \in 1 .. Len(FdContent[f])
    BY DEF FdIndInv, FdShape
  <2>1. CASE \E f \in FdFeeds : FdPublish(f)
    <3>1. PICK g \in FdFeeds : fdPub[g] < Len(FdContent[g]) /\ fdPub' = [fdPub EXCEPT ![g] = @ + 1]
      BY <2>1 DEF FdPublish
    <3>2. ASSUME NEW f \in FdFeeds PROVE fdPub'[f] \in 1 .. Len(FdContent[f]) /\ fdPub[f] <= fdPub'[f]
      <4>1. Len(FdContent[f]) \in Nat /\ fdPub[f] \in Nat /\ fdPub[f] \in 1 .. Len(FdContent[f])
        BY <2>0, FdNames
      <4>2. CASE f = g
        BY <4>1, <4>2, <3>1, <2>0
      <4>3. CASE f # g
        BY <4>1, <4>3, <3>1, <2>0
      <4> QED BY <4>2, <4>3
    <3> QED BY <3>1, <3>2, <2>0
  <2>2. CASE UNCHANGED fdPub
    BY <2>0, <2>2
  <2> QED BY <2>1, <2>2 DEF FdArm, FdAllowed, FdPanic, FdExpire
<1>4. /\ fdLatest' \in [FdFeeds -> SUBSET FdOpen]
      /\ \A f \in FdFeeds : fdAction[f] # "block" => fdLatest'[f] = fdLatest[f]
  <2>1. CASE FdPanic
    BY <2>1 DEF FdPanic, FdIndInv, FdShape
  <2>2. CASE UNCHANGED fdLatest
    BY <2>2 DEF FdIndInv, FdShape
  <2> QED BY <2>1, <2>2 DEF FdArm, FdAllowed, FdExpire, FdPublish, fdHist
<1>5. FdShape'
  <2>1. ASSUME NEW f \in FdFeeds PROVE fdCache'[f].tag <= fdPub'[f]
    <3>1. fdCache[f].tag \in Nat /\ fdPub[f] \in Nat /\ fdPub'[f] \in Nat /\ fdCache[f].tag <= fdPub[f]
      BY <1>3 DEF FdIndInv, FdShape
    <3> QED BY <1>1, <1>3, <3>1
  <2> QED BY <2>1, <1>1, <1>2, <1>3, <1>4 DEF FdIndInv, FdShape
<1>6. ASSUME NEW j \in FdJobs PROVE FdBodyOK(j)'
  <2>1. CASE fdJob[j].at = "body"
    <3>1. fdJob[j] \in FdBodyType
      BY <2>1, FdStations DEF FdIndInv, FdShape
    <3>2. fdJob[j].tag <= fdPub'[fdJob[j].feed]
      <4> DEFINE f == fdJob[j].feed
      <4>1. f \in FdFeeds /\ fdJob[j].tag \in Nat
        BY <3>1 DEF FdBodyType
      <4>2. fdPub[f] \in Nat /\ fdPub'[f] \in Nat /\ fdPub[f] <= fdPub'[f]
        BY <4>1, <1>3 DEF FdIndInv, FdShape
      <4>3. fdJob[j].tag <= fdPub[f]
        BY <2>1 DEF FdIndInv, FdJobsOK, FdBodyOK
      <4> HIDE DEF f
      <4>4. fdJob[j].tag <= fdPub'[f]
        BY <4>1, <4>2, <4>3
      <4> QED BY <4>4 DEF f
    <3> QED BY <2>1, <3>2, <1>1 DEF FdIndInv, FdJobsOK, FdBodyOK
  <2> QED BY <2>1, <1>1 DEF FdBodyOK
<1>7. FdCacheHonest'
  BY <1>1 DEF FdIndInv, FdCacheHonest
<1>8. FdFlagsOK'
  <2> SUFFICES ASSUME NEW e \in FdEntries, fdOwner[e] # ""
               PROVE fdAction[fdOwner[e]] = "observe" /\ e \in fdLatest'[fdOwner[e]]
    BY <1>1 DEF FdFlagsOK
  <2>1. fdAction[fdOwner[e]] = "observe" /\ e \in fdLatest[fdOwner[e]] /\ fdOwner[e] \in FdFeeds
    BY DEF FdIndInv, FdFlagsOK, FdShape
  <2> QED BY <2>1, <1>4
<1> QED BY <1>5, <1>6, <1>7, <1>8 DEF FdIndInv, FdJobsOK

LEMMA FdCrashKeeps ==
  ASSUME FdIndInv, FdCrash
  PROVE FdIndInv'
<1>1. FdIdle \in FdJobType /\ FdIdle.at = "idle"
  BY DEF FdJobType, FdIdle
<1>2. fdJob' \in [FdJobs -> FdJobType] /\ \A j \in FdJobs : fdJob'[j] = FdIdle
  BY <1>1 DEF FdCrash
<1>3. fdCache' \in [FdFeeds -> [tag : Nat, good : SUBSET (FdEntries \ FdReserved)]]
      /\ \A f \in FdFeeds : fdCache'[f].tag = 0
  BY DEF FdCrash, FdNoCache
<1>4. FdShape'
  <2>1. ASSUME NEW f \in FdFeeds PROVE fdPub[f] \in Nat /\ fdCache'[f].tag <= fdPub[f]
    <3>1. fdPub[f] \in Nat /\ fdCache'[f].tag = 0
      BY <1>3 DEF FdIndInv, FdShape
    <3> QED BY <3>1
  <2>2. fdDesired' \in [FdFeeds -> SUBSET FdOpen] /\ fdLatest' \in [FdFeeds -> SUBSET FdOpen]
    BY DEF FdCrash, FdEmpty
  <2>3. fdOwner' \in [FdEntries -> FdFeeds \cup {""}] /\ fdCut' = {}
        /\ UNCHANGED <<fdAction, fdPub, fdKernel, fdArmed, fdAllow>>
    BY DEF FdCrash, fdOper
  <2> QED BY <2>1, <2>2, <2>3, <1>2, <1>3 DEF FdIndInv, FdShape
<1>5. FdJobsOK'
  BY <1>1, <1>2 DEF FdJobsOK, FdBodyOK
<1>6. FdCacheHonest' /\ FdFlagsOK'
  BY <1>3 DEF FdCacheHonest, FdFlagsOK, FdCrash
<1> QED BY <1>4, <1>5, <1>6 DEF FdIndInv

LEMMA FdStart == FdInit => FdIndInv
<1> SUFFICES ASSUME FdInit PROVE FdIndInv
  OBVIOUS
<1>1. FdIdle \in FdJobType /\ FdIdle.at = "idle"
  BY DEF FdJobType, FdIdle
<1>2. fdJob \in [FdJobs -> FdJobType] /\ \A j \in FdJobs : fdJob[j] = FdIdle
  BY <1>1 DEF FdInit
<1>3. fdCache \in [FdFeeds -> [tag : Nat, good : SUBSET (FdEntries \ FdReserved)]]
      /\ \A f \in FdFeeds : fdCache[f].tag = 0
  BY DEF FdInit, FdNoCache
<1>4. fdPub \in [FdFeeds -> Nat] /\ \A f \in FdFeeds : fdPub[f] \in 1 .. Len(FdContent[f])
  <2>1. ASSUME NEW f \in FdFeeds PROVE 1 \in 1 .. Len(FdContent[f])
    <3>1. Len(FdContent[f]) \in Nat /\ Len(FdContent[f]) >= 1
      BY FdNames
    <3> QED BY <3>1
  <2> QED BY <2>1 DEF FdInit
<1>5. FdShape
  <2>1. \A f \in FdFeeds : fdPub[f] \in Nat /\ fdCache[f].tag <= fdPub[f]
    BY <1>3, <1>4
  <2>2. fdDesired \in [FdFeeds -> SUBSET FdOpen] /\ fdLatest \in [FdFeeds -> SUBSET FdOpen]
    BY DEF FdInit, FdEmpty
  <2>3. fdOwner \in [FdEntries -> FdFeeds \cup {""}] /\ fdCut = {} /\ fdKernel = {} /\ fdAllow = {}
        /\ fdAction \in FdActions /\ fdArmed \in BOOLEAN
    BY DEF FdInit
  <2> QED BY <2>1, <2>2, <2>3, <1>2, <1>3, <1>4 DEF FdShape
<1>6. FdJobsOK
  BY <1>1, <1>2 DEF FdJobsOK, FdBodyOK
<1>7. FdCacheHonest /\ FdFlagsOK
  BY <1>3 DEF FdCacheHonest, FdFlagsOK, FdInit
<1> QED BY <1>5, <1>6, <1>7 DEF FdIndInv

-----------------------------------------------------------------------------
(* The theorems.                                                           *)

\* A refresh carries a whole file under its tag or a spoiled one that is known to be, and only
\* observing feeds flag, however refreshes overlap, fail or are cut (Fetch, applyFeedBlock,
\* feedReputation.set).
THEOREM FdInvariant == FdSpec => []FdIndInv
<1>1. FdInit => FdIndInv
  BY FdStart
<1>2. FdIndInv /\ [FdNext]_fdVars => FdIndInv'
  <2> SUFFICES ASSUME FdIndInv, [FdNext]_fdVars PROVE FdIndInv'
    OBVIOUS
  <2>1. ASSUME NEW j \in FdJobs, FdRefresh(j) PROVE FdIndInv'
    BY <2>1, FdAskKeeps, FdIdleKeeps, FdReplyKeeps, FdTakeKeeps, FdTakeSameKeeps, FdObserveKeeps,
       FdBlockKeeps, FdSyncKeeps DEF FdRefresh
  <2>2. ASSUME NEW j \in FdJobs, FdBroken(j) PROVE FdIndInv'
    BY <2>2, FdSpoilKeeps, FdIdleKeeps DEF FdBroken
  <2>3. CASE FdArm \/ FdAllowed \/ FdPanic \/ FdExpire \/ (\E f \in FdFeeds : FdPublish(f))
    BY <2>3, FdWorldKeeps
  <2>4. CASE FdCrash
    BY <2>4, FdCrashKeeps
  <2>5. CASE UNCHANGED fdVars
    BY <2>5 DEF fdVars, fdDaemon, fdOper, fdHist, FdIndInv, FdShape, FdJobsOK, FdBodyOK, FdCacheHonest, FdFlagsOK
  <2> QED BY <2>1, <2>2, <2>3, <2>4, <2>5 DEF FdNext
<1> QED BY <1>1, <1>2, PTL DEF FdSpec

\* The cache never hands out, under a validator, anything but the file of that version; a flag
\* is held by a feed whose latest refresh lists the entry; and nothing guarded, allowlisted at
\* start or reserved is flagged, desired or in the kernel's feed sets.
THEOREM FdFeedsAreSound == FdSpec => []FdInv
<1>1. FdIndInv => FdInv
  <2> SUFFICES ASSUME FdIndInv PROVE FdInv
    OBVIOUS
  <2>1. ASSUME NEW f \in FdFeeds
        PROVE /\ fdPub[f] \in DOMAIN FdContent[f]
              /\ fdCache[f].tag \in 0 .. fdPub[f] /\ fdCache[f].good \subseteq FdEntries \ FdReserved
              /\ fdDesired[f] \subseteq FdEntries \ (FdGuards \cup FdReserved)
    <3>1. FdContent[f] \in Seq(SUBSET FdEntries)
      BY FdConstants
    <3>2. DOMAIN FdContent[f] = 1 .. Len(FdContent[f])
      BY <3>1
    <3>3. fdPub[f] \in 1 .. Len(FdContent[f]) /\ fdPub[f] \in Nat
      BY DEF FdIndInv, FdShape
    <3>4. fdCache[f].tag \in Nat /\ fdCache[f].tag <= fdPub[f]
      BY DEF FdIndInv, FdShape
    <3>5. fdCache[f].tag \in 0 .. fdPub[f]
      BY <3>3, <3>4
    <3> QED BY <3>2, <3>3, <3>5 DEF FdIndInv, FdShape, FdOpen
  <2>2. ASSUME NEW e \in FdEntries
        PROVE fdOwner[e] \in {""} \cup (IF e \in FdGuards \cup FdReserved THEN {} ELSE FdFeeds)
    BY DEF FdIndInv, FdShape, FdFlagsOK, FdOpen
  <2>3. \A j \in FdJobs : fdJob[j].at \in {"idle", "asked", "same", "body", "update", "sync"}
    BY FdStations DEF FdIndInv, FdShape
  <2>4. FdTypeOK
    BY <2>1, <2>2, <2>3 DEF FdTypeOK, FdIndInv, FdShape, FdOpen
  <2>5. FdCacheHonest /\ FdFlagsCurrent
    BY DEF FdIndInv, FdFlagsOK, FdFlagsCurrent
  <2> QED BY <2>4, <2>5 DEF FdInv
<1> QED BY <1>1, FdInvariant, PTL

-----------------------------------------------------------------------------
(* The plugin runtime. An answer is matched by its id alone, so the        *)
(* invariant has to say of every line in flight that the id of the running *)
(* round trip means the running call (PlTripOK, PlLinesOK). The bound on   *)
(* starts follows from counting: every start of the last hour but the      *)
(* running one has its own entry among the failures (PlCountOK).           *)

PlStates == {"new", "checked", "waiting", "left", "ok", "declined", "error", "disabled", "busy", "stopped"}
PlEvent == [gen : Nat, at : Nat]
PlLine == [id : Nat, call : PlCalls, ok : BOOLEAN]
PlLogs(log) == IsFiniteSet(log) /\ log \subseteq PlEvent

PlShape ==
  /\ plNow \in Nat /\ plGen \in Nat /\ plNextID \in Nat \ {0} /\ plCtx \in BOOLEAN /\ plDisabled \in BOOLEAN
  /\ plCall \in [PlCalls -> PlStates] /\ plGot \in [PlCalls -> Nat]
  /\ plQueue \in Seq(PlCalls) /\ Len(plQueue) <= PlQueue
  /\ plSup \in {"check", "start", "serve", "trip", "backoff", "drain", "gone"}
  /\ plAsk \subseteq [id : Nat, call : PlCalls] /\ plOut \in Seq(PlLine)
  /\ PlLogs(plFails) /\ PlLogs(plStarts)

\* The round trip's id is the latest; nothing else in flight carries it.
PlTripOK ==
  IF plSup = "trip"
    THEN plTrip \in [call : PlCalls, id : Nat \ {0}] /\ plTrip.id < plNextID
    ELSE plTrip = PlNoTrip
PlLineOK(a) == a.id < plNextID /\ (plSup = "trip" /\ a.id = plTrip.id => a.call = plTrip.call)
PlLinesOK == (\A a \in plAsk : PlLineOK(a)) /\ \A i \in 1 .. Len(plOut) : PlLineOK(plOut[i])

\* One process at most, the latest, and only while it is being served.
PlProcOK ==
  /\ plProcs \subseteq {plGen} /\ (plProcs # {} => plGen # 0)
  /\ plSup \notin {"serve", "trip"} => plProcs = {}

\* Every recent start is counted as a failure, or is the running process.
PlCounted(s) == \E x \in plFails : x.gen = s.gen /\ x.at >= s.at
PlRuns(s) == s.gen = plGen /\ plSup \in {"serve", "trip"}
PlCountOK ==
  /\ Cardinality(plFails) <= PlMaxFails /\ (~plDisabled => Cardinality(plFails) < PlMaxFails)
  /\ plSup \in {"start", "serve", "trip", "backoff"} => ~plDisabled
  /\ \A s \in plStarts : s.gen <= plGen /\ s.at <= plNow
  /\ \A s, t \in plStarts : s.gen = t.gen => s = t
  /\ ~plDisabled /\ plSup # "gone" =>
       \A s \in plStarts : s.at > plNow - PlHour => PlCounted(s) \/ PlRuns(s)

PlIndInv == PlShape /\ PlTripOK /\ PlLinesOK /\ PlProcOK /\ PlCountOK /\ PlOwnAnswer /\ PlStartsBounded

\* What a call, a line or a request's place in the queue can be.
LEMMA PlAnsweredIs ==
  ASSUME PlShape, NEW k \in PlCalls, NEW how \in PlStates
  PROVE /\ PlAnswered(k, how) \in [PlCalls -> PlStates]
        /\ \A l \in PlCalls : PlAnswered(k, how)[l] = "ok" => plCall[l] = "ok" \/ (l = k /\ how = "ok")
  BY DEF PlAnswered, PlShape

\* The log of the last hour with one more entry.
LEMMA PlLogGrows ==
  ASSUME PlShape, NEW log, PlLogs(log), NEW g \in Nat
  PROVE LET new == PlRecent(log) \cup {[gen |-> g, at |-> plNow]}
        IN /\ PlLogs(new) /\ IsFiniteSet(PlRecent(log))
           /\ Cardinality(new) \in Nat /\ Cardinality(PlRecent(log)) \in Nat /\ Cardinality(log) \in Nat
           /\ Cardinality(new) <= Cardinality(PlRecent(log)) + 1 /\ Cardinality(PlRecent(log)) <= Cardinality(log)
<1> DEFINE e == [gen |-> g, at |-> plNow]
           new == PlRecent(log) \cup {e}
<1>1. PlRecent(log) \in SUBSET log /\ IsFiniteSet(log) /\ log \subseteq PlEvent
  BY DEF PlRecent, PlLogs
<1>2. IsFiniteSet(PlRecent(log)) /\ Cardinality(PlRecent(log)) <= Cardinality(log)
  BY <1>1, FS_Subset
<1>3. e \in PlEvent
  BY DEF PlEvent, PlShape
<1> HIDE DEF e
<1>4. IsFiniteSet(new) /\ Cardinality(new) = IF e \in PlRecent(log) THEN Cardinality(PlRecent(log)) ELSE Cardinality(PlRecent(log)) + 1
  BY <1>2, FS_AddElement
<1>5. Cardinality(new) \in Nat /\ Cardinality(PlRecent(log)) \in Nat /\ Cardinality(log) \in Nat
  BY <1>1, <1>2, <1>4, FS_CardinalityType
<1>6. PlLogs(new)
  BY <1>1, <1>3, <1>4 DEF PlLogs
<1>7. Cardinality(new) <= Cardinality(PlRecent(log)) + 1
  BY <1>4, <1>5
<1> QED BY <1>2, <1>5, <1>6, <1>7 DEF e

\* recordFailure keeps the breaker's bookkeeping.
LEMMA PlFailedCounts ==
  ASSUME PlShape, PlCountOK, ~plDisabled, NEW g \in Nat, PlFailed(g)
  PROVE /\ PlLogs(plFails') /\ plDisabled' \in BOOLEAN /\ plSup' \in {"check", "backoff"}
        /\ Cardinality(plFails') <= PlMaxFails /\ (~plDisabled' => Cardinality(plFails') < PlMaxFails)
        /\ (plSup' = "backoff" => ~plDisabled')
        /\ \A x \in plFails : x.at > plNow - PlHour => x \in plFails'
        /\ [gen |-> g, at |-> plNow] \in plFails'
<1>1. plFails' = PlRecent(plFails) \cup {[gen |-> g, at |-> plNow]}
  BY DEF PlFailed
<1>2. /\ plDisabled' = (plDisabled \/ Cardinality(plFails') >= PlMaxFails)
      /\ plSup' = IF Cardinality(plFails') >= PlMaxFails THEN "check" ELSE "backoff"
  BY DEF PlFailed
<1>3. /\ PlLogs(plFails') /\ Cardinality(plFails') \in Nat /\ Cardinality(plFails) \in Nat
      /\ Cardinality(plFails') <= Cardinality(plFails) + 1
  <2>1. /\ PlLogs(plFails') /\ Cardinality(plFails') \in Nat /\ Cardinality(plFails) \in Nat
        /\ Cardinality(PlRecent(plFails)) \in Nat
        /\ Cardinality(plFails') <= Cardinality(PlRecent(plFails)) + 1
        /\ Cardinality(PlRecent(plFails)) <= Cardinality(plFails)
    BY <1>1, PlLogGrows DEF PlShape
  <2> QED BY <2>1
<1>4. PlMaxFails \in Nat /\ Cardinality(plFails) < PlMaxFails
  BY PlConstants DEF PlCountOK
<1>5. Cardinality(plFails') <= PlMaxFails /\ (~(Cardinality(plFails') >= PlMaxFails) => Cardinality(plFails') < PlMaxFails)
  BY <1>3, <1>4
<1>6. \A x \in plFails : x.at > plNow - PlHour => x \in plFails'
  BY <1>1 DEF PlRecent
<1> QED BY <1>1, <1>2, <1>3, <1>5, <1>6

\* Starting is bounded: recent starts are counted apart among the failures.
LEMMA PlSpawnCounts ==
  ASSUME PlShape, PlCountOK, plSup = "start", PlSpawn
  PROVE /\ PlLogs(plStarts') /\ Cardinality(plStarts') <= PlMaxFails /\ plGen' \in Nat /\ plGen' = plGen + 1
        /\ \A s \in plStarts' : s.gen <= plGen' /\ s.at <= plNow
        /\ \A s, t \in plStarts' : s.gen = t.gen => s = t
        /\ \A s \in plStarts' : s = [gen |-> plGen + 1, at |-> plNow] \/ (PlCounted(s) /\ s.at > plNow - PlHour /\ s \in plStarts)
<1> DEFINE recent == PlRecent(plStarts)
           e == [gen |-> plGen + 1, at |-> plNow]
<1>1. plGen + 1 \in Nat /\ plStarts' = recent \cup {e} /\ plGen' = plGen + 1
  BY DEF PlSpawn, PlShape
<1>2. /\ PlLogs(plStarts') /\ Cardinality(plStarts') \in Nat /\ Cardinality(recent) \in Nat
      /\ Cardinality(plStarts') <= Cardinality(recent) + 1 /\ IsFiniteSet(plFails) /\ Cardinality(plFails) \in Nat
  BY <1>1, PlLogGrows, FS_CardinalityType DEF PlShape, PlLogs
<1>3. ~plDisabled
  BY DEF PlCountOK
<1>4. \A s \in recent : PlCounted(s) /\ s.at > plNow - PlHour /\ s \in plStarts
  BY <1>3 DEF PlRecent, PlCountOK, PlRuns
<1>5. Cardinality(recent) <= Cardinality(plFails)
  <2> DEFINE f == [s \in recent |-> CHOOSE x \in plFails : x.gen = s.gen /\ x.at >= s.at]
  <2>1. \A s \in recent : f[s] \in plFails /\ f[s].gen = s.gen
    BY <1>4 DEF PlCounted
  <2>2. f \in [recent -> plFails]
    BY <2>1
  <2>3. ASSUME NEW s \in recent, NEW t \in recent, f[s] = f[t] PROVE s = t
    <3>1. s.gen = t.gen
      BY <2>1, <2>3
    <3> QED BY <3>1, <1>4 DEF PlCountOK
  <2>4. DOMAIN f = recent
    OBVIOUS
  <2> HIDE DEF f, recent
  <2>5. f \in Injection(recent, plFails)
    BY <2>2, <2>3, <2>4 DEF Injection, IsInjective
  <2> QED BY <2>5, <1>2, FS_Injection
<1>6. PlMaxFails \in Nat /\ Cardinality(plFails) < PlMaxFails
  BY <1>3, PlConstants DEF PlCountOK
<1>7. Cardinality(plStarts') <= PlMaxFails
  BY <1>2, <1>5, <1>6
<1>8. e.gen = plGen + 1 /\ e.at = plNow
  OBVIOUS
<1>9. \A s \in plStarts : s.gen \in Nat /\ s.at \in Nat /\ s.gen <= plGen /\ s.at <= plNow
  BY DEF PlShape, PlLogs, PlEvent, PlCountOK
<1>10. \A s \in plStarts' : s.gen <= plGen' /\ s.at <= plNow
  <2> SUFFICES ASSUME NEW s \in plStarts' PROVE s.gen <= plGen' /\ s.at <= plNow
    OBVIOUS
  <2>1. CASE s = e
    BY <2>1, <1>1, <1>8 DEF PlShape
  <2>2. CASE s \in recent
    BY <2>2, <1>1, <1>4, <1>9 DEF PlShape
  <2> QED BY <2>1, <2>2, <1>1
<1>11. \A s, t \in plStarts' : s.gen = t.gen => s = t
  <2> SUFFICES ASSUME NEW s \in plStarts', NEW t \in plStarts', s.gen = t.gen PROVE s = t
    OBVIOUS
  <2>1. ASSUME NEW x \in recent PROVE x.gen # plGen + 1
    BY <1>4, <1>9 DEF PlShape
  <2> HIDE DEF e, recent
  <2>2. CASE s = e /\ t = e
    BY <2>2
  <2>3. CASE s \in recent /\ t \in recent
    BY <2>3, <1>4 DEF PlCountOK
  <2>4. CASE s = e /\ t \in recent
    BY <2>4, <2>1, <1>8
  <2>5. CASE s \in recent /\ t = e
    BY <2>5, <2>1, <1>8
  <2> QED BY <2>2, <2>3, <2>4, <2>5, <1>1
<1> QED BY <1>1, <1>2, <1>4, <1>7, <1>10, <1>11

\* What a step that leaves a part's variables alone keeps.
LEMMA PlWireStays ==
  ASSUME PlTripOK, PlLinesOK, UNCHANGED <<plSup, plTrip, plNextID, plAsk, plOut>>
  PROVE PlTripOK' /\ PlLinesOK'
  BY DEF PlTripOK, PlLinesOK, PlLineOK

LEMMA PlProcStays ==
  ASSUME PlProcOK, UNCHANGED <<plSup, plProcs, plGen>>
  PROVE PlProcOK'
  BY DEF PlProcOK

LEMMA PlCountStays ==
  ASSUME PlShape, PlCountOK, PlStartsBounded, plNow' \in Nat, plNow <= plNow',
         UNCHANGED <<plSup, plGen, plFails, plDisabled, plStarts>>
  PROVE PlCountOK' /\ PlStartsBounded'
<1>1. PlHour \in Nat
  BY PlConstants
<1>2. ASSUME NEW s \in plStarts PROVE s.at <= plNow' /\ (s.at > plNow' - PlHour => s.at > plNow - PlHour)
  <2>1. s.at \in Nat /\ plNow \in Nat /\ s.at <= plNow
    BY DEF PlShape, PlLogs, PlEvent, PlCountOK
  <2> QED BY <2>1, <1>1
<1>3. PlStartsBounded'
  BY DEF PlStartsBounded
<1>4. PlCountOK'
  BY <1>2 DEF PlCountOK, PlCounted, PlRuns
<1> QED BY <1>3, <1>4

\* The supervisor moves on without a process, and not to start an unexamined one.
LEMMA PlIdleMoves ==
  ASSUME PlIndInv, plSup \notin {"serve", "trip"}, plSup # "gone", plSup' \in {"check", "start", "drain", "gone"},
         plSup' = "start" => ~plDisabled,
         UNCHANGED <<plNow, plTrip, plNextID, plAsk, plOut, plProcs, plGen, plFails, plDisabled, plStarts>>
  PROVE PlTripOK' /\ PlLinesOK' /\ PlProcOK' /\ PlCountOK' /\ PlStartsBounded'
<1>1. PlTripOK' /\ PlLinesOK'
  BY DEF PlIndInv, PlTripOK, PlLinesOK, PlLineOK
<1>2. PlProcOK'
  BY DEF PlIndInv, PlProcOK
<1>3. PlStartsBounded'
  BY DEF PlIndInv, PlStartsBounded
<1>4. PlCountOK'
  BY DEF PlIndInv, PlCountOK, PlCounted, PlRuns
<1> QED BY <1>1, <1>2, <1>3, <1>4

-----------------------------------------------------------------------------
(* Every step of the plugin runtime keeps the invariant.                   *)

\* Callers.
LEMMA PlClientKeeps ==
  ASSUME PlIndInv, NEW k \in PlCalls, PlClient(k)
  PROVE PlIndInv'
<1>1. UNCHANGED <<plNow, plCtx, plGot, plSup, plTrip, plNextID, plDisabled, plFails, plProcs, plGen, plStarts, plAsk, plOut>>
  BY DEF PlClient, PlCallChecks, PlCallQueues, PlCallLeaves, PlCallStopped, PlSupSame, PlFault, plTime, plBreaker,
         plProcess, plPipe
<1>2. PICK how \in PlStates \ {"ok"} : plCall' = [plCall EXCEPT ![k] = how]
  BY DEF PlClient, PlCallChecks, PlCallQueues, PlCallLeaves, PlCallStopped, PlStates
<1>3. plCall' \in [PlCalls -> PlStates] /\ \A l \in PlCalls : plCall'[l] = "ok" => plCall[l] = "ok"
  BY <1>2 DEF PlIndInv, PlShape
<1>4. plQueue' \in Seq(PlCalls) /\ Len(plQueue') <= PlQueue
  <2>1. CASE PlRoom /\ plQueue' = Append(plQueue, k)
    <3>1. PlQueue \in Nat /\ plQueue \in Seq(PlCalls)
      BY PlConstants DEF PlIndInv, PlShape
    <3>2. plQueue' \in Seq(PlCalls) /\ Len(plQueue') = Len(plQueue) + 1
      BY <2>1, <3>1
    <3> QED BY <2>1, <3>1, <3>2 DEF PlRoom
  <2>2. CASE UNCHANGED plQueue
    BY <2>2 DEF PlIndInv, PlShape
  <2> QED BY <2>1, <2>2 DEF PlClient, PlCallChecks, PlCallQueues, PlCallLeaves, PlCallStopped
<1>5. PlShape'
  BY <1>1, <1>3, <1>4 DEF PlIndInv, PlShape, PlLogs
<1>6. PlTripOK' /\ PlLinesOK' /\ PlProcOK'
  BY <1>1, PlWireStays, PlProcStays DEF PlIndInv
<1>7. PlCountOK' /\ PlStartsBounded'
  <2>1. plNow' \in Nat /\ plNow <= plNow'
    BY <1>1 DEF PlIndInv, PlShape
  <2> QED BY <2>1, <1>1, PlCountStays DEF PlIndInv
<1>8. PlOwnAnswer'
  BY <1>1, <1>3 DEF PlIndInv, PlOwnAnswer
<1> QED BY <1>5, <1>6, <1>7, <1>8 DEF PlIndInv

\* The supervisor's loop, the end of a wait and the drain of a disabled plugin.
LEMMA PlLoopKeeps ==
  ASSUME PlIndInv, PlCheck \/ PlResume \/ PlDrain
  PROVE PlIndInv'
<1>1. UNCHANGED <<plNow, plCtx, plGot, plTrip, plNextID, plDisabled, plFails, plProcs, plGen, plStarts, plAsk, plOut>>
  BY DEF PlCheck, PlResume, PlDrain, plTime, plClients, plBreaker, plProcess, plPipe
<1>2. /\ plSup \notin {"serve", "trip"} /\ plSup # "gone" /\ plSup' \in {"check", "start", "drain", "gone"}
      /\ plSup' = "start" => ~plDisabled
  BY DEF PlCheck, PlWhenDisabled, PlResume, PlDrain
<1>3. plQueue' \in Seq(PlCalls) /\ Len(plQueue') <= PlQueue
      /\ plCall' \in [PlCalls -> PlStates] /\ \A l \in PlCalls : plCall'[l] = "ok" => plCall[l] = "ok"
  <2>1. CASE plQueue # <<>> /\ plCall' = PlAnswered(Head(plQueue), "disabled") /\ plQueue' = Tail(plQueue)
    <3>1. PlQueue \in Nat /\ plQueue \in Seq(PlCalls) /\ Len(plQueue) <= PlQueue
      BY PlConstants DEF PlIndInv, PlShape
    <3>2. Head(plQueue) \in PlCalls /\ plQueue' \in Seq(PlCalls) /\ Len(plQueue') = Len(plQueue) - 1
      BY <2>1, <3>1
    <3>3. Len(plQueue') <= PlQueue
      BY <3>1, <3>2
    <3>4. "disabled" \in PlStates /\ "disabled" # "ok"
      BY DEF PlStates
    <3> QED BY <2>1, <3>2, <3>3, <3>4, PlAnsweredIs DEF PlIndInv
  <2>2. CASE UNCHANGED <<plCall, plQueue>>
    BY <2>2 DEF PlIndInv, PlShape
  <2> QED BY <2>1, <2>2 DEF PlCheck, PlResume, PlDrain, plClients
<1>4. PlShape'
  BY <1>1, <1>2, <1>3 DEF PlIndInv, PlShape, PlLogs
<1>5. PlTripOK' /\ PlLinesOK' /\ PlProcOK' /\ PlCountOK' /\ PlStartsBounded'
  BY <1>1, <1>2, PlIdleMoves
<1>6. PlOwnAnswer'
  BY <1>1, <1>3 DEF PlIndInv, PlOwnAnswer
<1> QED BY <1>4, <1>5, <1>6 DEF PlIndInv

\* A process starts and is served.
LEMMA PlStartKeeps ==
  ASSUME PlIndInv, PlStart
  PROVE PlIndInv'
<1>1. /\ plSup = "start" /\ PlSpawn /\ plSup' = "serve" /\ plProcs' = plProcs \cup {plGen + 1} /\ plAsk' = {} /\ plOut' = <<>>
      /\ UNCHANGED <<plNow, plCtx, plCall, plQueue, plGot, plTrip, plNextID, plDisabled, plFails>>
  BY DEF PlStart, plTime, plClients, plBreaker
<1>2. /\ PlLogs(plStarts') /\ Cardinality(plStarts') <= PlMaxFails /\ plGen' \in Nat /\ plGen' = plGen + 1
      /\ \A s \in plStarts' : s.gen <= plGen' /\ s.at <= plNow
      /\ \A s, t \in plStarts' : s.gen = t.gen => s = t
      /\ \A s \in plStarts' : s = [gen |-> plGen + 1, at |-> plNow] \/ PlCounted(s)
  BY <1>1, PlSpawnCounts DEF PlIndInv
<1>3. PlShape'
  <2>1. plOut' \in Seq(PlLine) /\ plAsk' \subseteq [id : Nat, call : PlCalls]
    BY <1>1
  <2> QED BY <1>1, <1>2, <2>1 DEF PlIndInv, PlShape, PlLogs
<1>4. PlTripOK' /\ PlLinesOK'
  BY <1>1 DEF PlIndInv, PlTripOK, PlLinesOK
<1>5. PlProcOK'
  BY <1>1, <1>2 DEF PlIndInv, PlShape, PlProcOK
<1>6. PlCountOK'
  BY <1>1, <1>2 DEF PlIndInv, PlCountOK, PlCounted, PlRuns
<1>7. PlStartsBounded' /\ PlOwnAnswer'
  BY <1>1, <1>2 DEF PlIndInv, PlStartsBounded, PlOwnAnswer
<1> QED BY <1>3, <1>4, <1>5, <1>6, <1>7 DEF PlIndInv

\* A process that does not get through its handshake is counted, or ends the plugin for good.
LEMMA PlNoStartKeeps ==
  ASSUME PlIndInv, PlStartFails \/ PlRejected
  PROVE PlIndInv'
<1> DEFINE e == [gen |-> plGen + 1, at |-> plNow]
<1>1. /\ plSup = "start" /\ PlSpawn
      /\ UNCHANGED <<plNow, plCtx, plCall, plQueue, plGot, plTrip, plNextID, plProcs, plAsk, plOut>>
  BY DEF PlStartFails, PlRejected, PlFault, plTime, plClients, plPipe
<1>2. /\ PlLogs(plStarts') /\ Cardinality(plStarts') <= PlMaxFails /\ plGen' \in Nat /\ plGen' = plGen + 1
      /\ \A s \in plStarts' : s.gen <= plGen' /\ s.at <= plNow
      /\ \A s, t \in plStarts' : s.gen = t.gen => s = t
      /\ \A s \in plStarts' : s = e \/ (PlCounted(s) /\ s.at > plNow - PlHour /\ s \in plStarts)
  BY <1>1, PlSpawnCounts DEF PlIndInv
<1>3. ~plDisabled /\ plGen + 1 \in Nat
  BY <1>1 DEF PlIndInv, PlCountOK, PlShape
<1>4. /\ PlLogs(plFails') /\ plDisabled' \in BOOLEAN /\ plSup' \in {"check", "backoff"}
      /\ Cardinality(plFails') <= PlMaxFails /\ (~plDisabled' => Cardinality(plFails') < PlMaxFails)
      /\ (plSup' = "backoff" => ~plDisabled')
      /\ ~plDisabled' => \A s \in plStarts' : (PlCounted(s))'
  <2>1. CASE PlStartFails
    <3>1. /\ PlLogs(plFails') /\ plDisabled' \in BOOLEAN /\ plSup' \in {"check", "backoff"}
          /\ Cardinality(plFails') <= PlMaxFails /\ (~plDisabled' => Cardinality(plFails') < PlMaxFails)
          /\ (plSup' = "backoff" => ~plDisabled')
          /\ \A x \in plFails : x.at > plNow - PlHour => x \in plFails'
          /\ e \in plFails'
      BY <2>1, <1>3, PlFailedCounts DEF PlStartFails, PlIndInv
    <3>2. ASSUME NEW s \in plStarts' PROVE \E x \in plFails' : x.gen = s.gen /\ x.at >= s.at
      <4>1. CASE s = e
        BY <4>1, <3>1 DEF PlIndInv, PlShape
      <4>2. CASE PlCounted(s) /\ s.at > plNow - PlHour /\ s \in plStarts
        <5>1. PICK x \in plFails : x.gen = s.gen /\ x.at >= s.at
          BY <4>2 DEF PlCounted
        <5>2. x.at \in Nat /\ s.at \in Nat /\ plNow \in Nat /\ PlHour \in Nat
          BY <4>2, PlConstants DEF PlIndInv, PlShape, PlLogs, PlEvent
        <5>3. x.at > plNow - PlHour
          BY <4>2, <5>1, <5>2
        <5> QED BY <5>1, <5>3, <3>1
      <4> QED BY <4>1, <4>2, <1>2
    <3> QED BY <3>1, <3>2 DEF PlCounted
  <2>2. CASE PlRejected
    BY <2>2 DEF PlRejected, PlIndInv, PlShape, PlLogs, PlCountOK
  <2> QED BY <2>1, <2>2
<1>5. PlShape'
  BY <1>1, <1>2, <1>4 DEF PlIndInv, PlShape, PlLogs
<1>6. PlTripOK' /\ PlLinesOK'
  BY <1>1, <1>4 DEF PlIndInv, PlTripOK, PlLinesOK, PlLineOK
<1>7. PlProcOK'
  BY <1>1, <1>2, <1>4 DEF PlIndInv, PlProcOK
<1>8. PlCountOK'
  BY <1>1, <1>2, <1>4 DEF PlCountOK
<1>9. PlStartsBounded' /\ PlOwnAnswer'
  BY <1>1, <1>2 DEF PlIndInv, PlStartsBounded, PlOwnAnswer
<1> QED BY <1>5, <1>6, <1>7, <1>8, <1>9 DEF PlIndInv

\* serve takes a request: the new id is newer than every line in flight.
LEMMA PlTakeKeeps ==
  ASSUME PlIndInv, PlTake
  PROVE PlIndInv'
<1> DEFINE k == Head(plQueue)
<1>1. /\ plSup = "serve" /\ plQueue # <<>> /\ plQueue' = Tail(plQueue)
      /\ UNCHANGED <<plNow, plCtx, plCall, plGot, plDisabled, plFails, plProcs, plGen, plStarts, plOut>>
  BY DEF PlTake, plTime, plBreaker, plProcess
<1>2. k \in PlCalls /\ plQueue' \in Seq(PlCalls) /\ Len(plQueue') <= PlQueue
  <2>1. PlQueue \in Nat /\ plQueue \in Seq(PlCalls) /\ Len(plQueue) <= PlQueue
    BY PlConstants DEF PlIndInv, PlShape
  <2>2. k \in PlCalls /\ plQueue' \in Seq(PlCalls) /\ Len(plQueue') = Len(plQueue) - 1
    BY <2>1, <1>1
  <2> QED BY <2>1, <2>2
<1>3. PlOwnAnswer' /\ PlStartsBounded'
  BY <1>1 DEF PlIndInv, PlOwnAnswer, PlStartsBounded
<1>4. CASE UNCHANGED <<plSup, plTrip, plNextID, plAsk>>
  <2>1. PlShape'
    BY <1>1, <1>2, <1>4 DEF PlIndInv, PlShape, PlLogs
  <2>2. PlTripOK' /\ PlLinesOK' /\ PlProcOK'
    BY <1>1, <1>4, PlWireStays, PlProcStays DEF PlIndInv
  <2>3. PlCountOK'
    BY <1>1, <1>4 DEF PlIndInv, PlCountOK, PlCounted, PlRuns
  <2> QED BY <2>1, <2>2, <2>3, <1>3 DEF PlIndInv
<1>5. CASE /\ plSup' = "trip" /\ plNextID' = plNextID + 1 /\ plTrip' = [call |-> k, id |-> plNextID]
           /\ plAsk' = {[id |-> plNextID, call |-> k]}
  <2> HIDE DEF k
  <2>1. plNextID \in Nat \ {0} /\ plNextID' \in Nat \ {0} /\ plNextID < plNextID'
    BY <1>5 DEF PlIndInv, PlShape
  <2>2. plAsk' \subseteq [id : Nat, call : PlCalls]
    BY <1>2, <1>5, <2>1
  <2>3. PlShape'
    BY <1>1, <1>2, <1>5, <2>1, <2>2 DEF PlIndInv, PlShape, PlLogs
  <2>4. PlTripOK'
    BY <1>2, <1>5, <2>1 DEF PlTripOK
  <2>5. \A a \in plAsk' : PlLineOK(a)'
    BY <1>5, <2>1 DEF PlLineOK
  <2>6. ASSUME NEW i \in 1 .. Len(plOut') PROVE PlLineOK(plOut[i])'
    <3>1. plOut[i].id \in Nat /\ plOut[i].id < plNextID
      <4>1. i \in 1 .. Len(plOut) /\ plOut \in Seq(PlLine)
        BY <1>1, <2>6 DEF PlIndInv, PlShape
      <4>2. plOut[i] \in PlLine
        BY <4>1
      <4> QED BY <4>1, <4>2 DEF PlIndInv, PlLinesOK, PlLineOK, PlLine
    <3>2. plOut'[i].id < plNextID' /\ plOut'[i].id # plNextID
      BY <1>1, <3>1, <2>1
    <3> QED BY <1>5, <3>2 DEF PlLineOK
  <2>7. PlLinesOK'
    BY <2>5, <2>6 DEF PlLinesOK
  <2>8. PlProcOK'
    BY <1>1, <1>5 DEF PlIndInv, PlProcOK
  <2>9. PlCountOK'
    BY <1>1, <1>5 DEF PlIndInv, PlCountOK, PlCounted, PlRuns
  <2> QED BY <2>3, <2>4, <2>7, <2>8, <2>9, <1>3 DEF PlIndInv
<1> QED BY <1>4, <1>5 DEF PlTake

\* An answer that carries the round trip's id is the round trip's.
LEMMA PlReadKeeps ==
  ASSUME PlIndInv, PlRead
  PROVE PlIndInv'
<1> DEFINE k == plTrip.call
           how == IF Head(plOut).ok THEN "ok" ELSE "declined"
<1>1. /\ plSup = "trip" /\ plOut # <<>> /\ Head(plOut).id = plTrip.id /\ plCall' = PlAnswered(k, how)
      /\ plGot' = [plGot EXCEPT ![k] = Head(plOut).call] /\ plOut' = Tail(plOut) /\ plSup' = "serve" /\ plTrip' = PlNoTrip
      /\ UNCHANGED <<plNow, plCtx, plQueue, plNextID, plDisabled, plFails, plProcs, plGen, plStarts, plAsk>>
  BY DEF PlRead, PlMatches, plTime, plBreaker, plProcess
<1>2. k \in PlCalls /\ how \in PlStates
  BY <1>1 DEF PlIndInv, PlTripOK, PlStates
<1>3. plOut \in Seq(PlLine) /\ Len(plOut) >= 1 /\ Head(plOut) = plOut[1] /\ 1 \in 1 .. Len(plOut)
  BY <1>1 DEF PlIndInv, PlShape
<1>4. Head(plOut).call = k
  <2>1. PlLineOK(plOut[1])
    BY <1>3 DEF PlIndInv, PlLinesOK
  <2> QED BY <2>1, <1>1, <1>3 DEF PlLineOK
<1>5. /\ plOut' \in Seq(PlLine) /\ Len(plOut') = Len(plOut) - 1
      /\ \A i \in 1 .. Len(plOut') : i + 1 \in 1 .. Len(plOut) /\ plOut'[i] = plOut[i + 1]
  BY <1>1, <1>3
<1> HIDE DEF k, how
<1>6. plCall' \in [PlCalls -> PlStates] /\ \A l \in PlCalls : plCall'[l] = "ok" => plCall[l] = "ok" \/ l = k
  BY <1>1, <1>2, PlAnsweredIs DEF PlIndInv
<1>7. plGot' \in [PlCalls -> Nat] /\ plGot'[k] = k /\ \A l \in PlCalls \ {k} : plGot'[l] = plGot[l]
  <2>1. k \in Nat
    BY <1>2, PlConstants DEF PlCalls
  <2> QED BY <1>1, <1>2, <1>4, <2>1 DEF PlIndInv, PlShape
<1>8. PlShape'
  BY <1>1, <1>5, <1>6, <1>7 DEF PlIndInv, PlShape, PlLogs
<1>9. PlTripOK'
  BY <1>1 DEF PlTripOK
<1>10. PlLinesOK'
  <2>1. \A a \in plAsk' : PlLineOK(a)'
    BY <1>1 DEF PlIndInv, PlLinesOK, PlLineOK
  <2>2. ASSUME NEW i \in 1 .. Len(plOut') PROVE PlLineOK(plOut[i])'
    <3>1. PlLineOK(plOut[i + 1]) /\ plOut'[i] = plOut[i + 1]
      BY <1>5 DEF PlIndInv, PlLinesOK
    <3> QED BY <3>1, <1>1 DEF PlLineOK
  <2> QED BY <2>1, <2>2 DEF PlLinesOK
<1>11. PlProcOK'
  BY <1>1 DEF PlIndInv, PlProcOK
<1>12. PlCountOK' /\ PlStartsBounded'
  BY <1>1 DEF PlIndInv, PlCountOK, PlCounted, PlRuns, PlStartsBounded
<1>13. PlOwnAnswer'
  BY <1>2, <1>6, <1>7 DEF PlIndInv, PlOwnAnswer
<1> QED BY <1>8, <1>9, <1>10, <1>11, <1>12, <1>13 DEF PlIndInv

\* A process that is of no more use is killed first and counted then.
LEMMA PlDropKeeps ==
  ASSUME PlIndInv, plSup \in {"serve", "trip"}, UNCHANGED plNow, NEW k \in PlCalls \cup {0}, PlDrop(k)
  PROVE PlIndInv'
<1>1. /\ plProcs' = {} /\ plTrip' = PlNoTrip
      /\ UNCHANGED <<plCtx, plQueue, plGot, plNextID, plGen, plStarts, plAsk, plOut>>
  BY DEF PlDrop, PlKill, plPipe, PlIndInv, PlProcOK
<1>2. plCall' \in [PlCalls -> PlStates] /\ \A l \in PlCalls : plCall'[l] = "ok" => plCall[l] = "ok"
  <2>1. CASE plCall' = plCall
    BY <2>1 DEF PlIndInv, PlShape
  <2>2. CASE k \in PlCalls /\ plCall' = PlAnswered(k, "error")
    <3>1. "error" \in PlStates /\ "error" # "ok"
      BY DEF PlStates
    <3> QED BY <2>2, <3>1, PlAnsweredIs DEF PlIndInv
  <2> QED BY <2>1, <2>2 DEF PlDrop
<1>3. ~plDisabled /\ plGen \in Nat
  BY DEF PlIndInv, PlCountOK, PlShape
<1>4. /\ PlLogs(plFails') /\ plDisabled' \in BOOLEAN /\ plSup' \in {"check", "backoff", "gone"}
      /\ Cardinality(plFails') <= PlMaxFails /\ (~plDisabled' => Cardinality(plFails') < PlMaxFails)
      /\ (plSup' = "backoff" => ~plDisabled')
      /\ plSup' # "gone" => \A s \in plStarts : s.at > plNow - PlHour => (PlCounted(s))'
  <2>1. CASE plSup' = "gone" /\ UNCHANGED plBreaker
    BY <2>1 DEF plBreaker, PlIndInv, PlShape, PlLogs, PlCountOK
  <2>2. CASE PlFailed(plGen)
    <3> DEFINE e == [gen |-> plGen, at |-> plNow]
    <3>1. /\ PlLogs(plFails') /\ plDisabled' \in BOOLEAN /\ plSup' \in {"check", "backoff"}
          /\ Cardinality(plFails') <= PlMaxFails /\ (~plDisabled' => Cardinality(plFails') < PlMaxFails)
          /\ (plSup' = "backoff" => ~plDisabled')
          /\ \A x \in plFails : x.at > plNow - PlHour => x \in plFails'
          /\ e \in plFails'
      BY <2>2, <1>3, PlFailedCounts DEF PlIndInv
    <3>2. ASSUME NEW s \in plStarts, s.at > plNow - PlHour PROVE \E x \in plFails' : x.gen = s.gen /\ x.at >= s.at
      <4>1. plSup # "gone"
        OBVIOUS
      <4>2. PlCounted(s) \/ s.gen = plGen
        BY <1>3, <3>2, <4>1 DEF PlIndInv, PlCountOK, PlRuns
      <4>3. s.at \in Nat /\ plNow \in Nat /\ PlHour \in Nat /\ s.at <= plNow
        BY PlConstants DEF PlIndInv, PlShape, PlLogs, PlEvent, PlCountOK
      <4>4. CASE s.gen = plGen
        BY <4>3, <4>4, <3>1
      <4>5. CASE PlCounted(s)
        <5>1. PICK x \in plFails : x.gen = s.gen /\ x.at >= s.at
          BY <4>5 DEF PlCounted
        <5>2. x.at \in Nat
          BY DEF PlIndInv, PlShape, PlLogs, PlEvent
        <5>3. x.at > plNow - PlHour
          BY <3>2, <4>3, <5>1, <5>2
        <5> QED BY <5>1, <5>3, <3>1
      <4> QED BY <4>2, <4>4, <4>5
    <3> QED BY <3>1, <3>2, <1>1 DEF PlCounted
  <2> QED BY <2>1, <2>2 DEF PlDrop
<1>5. PlShape'
  BY <1>1, <1>2, <1>4 DEF PlIndInv, PlShape, PlLogs
<1>6. PlTripOK' /\ PlLinesOK'
  BY <1>1, <1>4 DEF PlIndInv, PlTripOK, PlLinesOK, PlLineOK
<1>7. PlProcOK'
  BY <1>1 DEF PlProcOK
<1>8. PlCountOK'
  BY <1>1, <1>3, <1>4 DEF PlIndInv, PlCountOK
<1>9. PlStartsBounded' /\ PlOwnAnswer'
  BY <1>1, <1>2 DEF PlIndInv, PlStartsBounded, PlOwnAnswer
<1> QED BY <1>5, <1>6, <1>7, <1>8, <1>9 DEF PlIndInv

LEMMA PlEndKeeps ==
  ASSUME PlIndInv, PlReadBad \/ PlReadEOF \/ PlTimeout \/ PlServeEnds
  PROVE PlIndInv'
<1>1. UNCHANGED plNow /\ plSup \in {"serve", "trip"}
  BY DEF PlReadBad, PlReadEOF, PlTimeout, PlServeEnds, PlFault, plTime
<1>2. \E k \in PlCalls \cup {0} : PlDrop(k)
  <2>1. plSup = "trip" => plTrip.call \in PlCalls
    BY DEF PlIndInv, PlTripOK
  <2> QED BY <2>1 DEF PlReadBad, PlReadEOF, PlTimeout, PlServeEnds
<1> QED BY <1>1, <1>2, PlDropKeeps

\* The process writes: an answer to what it was asked, or its last line once more.
LEMMA PlWriteKeeps ==
  ASSUME PlIndInv, PlReply \/ PlRepeats
  PROVE PlIndInv'
<1>1. UNCHANGED <<plNow, plCtx, plCall, plQueue, plGot, plSup, plTrip, plNextID, plDisabled, plFails, plProcs, plGen, plStarts>>
  BY DEF PlReply, PlRepeats, PlProcSame, PlFault, plTime, plClients, plBreaker, plProcess
<1>2. plOut \in Seq(PlLine) /\ plAsk' \subseteq plAsk
  BY DEF PlReply, PlRepeats, PlIndInv, PlShape
<1>3. PICK a \in PlLine : plOut' = Append(plOut, a) /\ PlLineOK(a)
  <2>1. CASE PlReply
    <3>1. PICK b \in plAsk, ok \in BOOLEAN : plOut' = Append(plOut, [id |-> b.id, call |-> b.call, ok |-> ok])
      BY <2>1 DEF PlReply
    <3>2. b.id \in Nat /\ b.call \in PlCalls /\ PlLineOK(b)
      BY DEF PlIndInv, PlShape, PlLinesOK
    <3> DEFINE a == [id |-> b.id, call |-> b.call, ok |-> ok]
    <3>3. a \in PlLine /\ a.id = b.id /\ a.call = b.call
      BY <3>2 DEF PlLine
    <3>4. PlLineOK(a)
      BY <3>2, <3>3 DEF PlLineOK
    <3> QED BY <3>1, <3>3, <3>4
  <2>2. CASE PlRepeats
    <3>1. plOut # <<>> /\ plOut' = Append(plOut, Last(plOut))
      BY <2>2 DEF PlRepeats
    <3>2. Len(plOut) \in 1 .. Len(plOut) /\ Last(plOut) = plOut[Len(plOut)] /\ plOut[Len(plOut)] \in PlLine
      BY <1>2, <3>1 DEF Last
    <3> QED BY <3>1, <3>2 DEF PlIndInv, PlLinesOK
  <2> QED BY <2>1, <2>2
<1>4. /\ plOut' \in Seq(PlLine) /\ Len(plOut') = Len(plOut) + 1 /\ plOut'[Len(plOut) + 1] = a
      /\ \A i \in 1 .. Len(plOut) : plOut'[i] = plOut[i]
  BY <1>2, <1>3
<1>5. PlShape'
  BY <1>1, <1>2, <1>4 DEF PlIndInv, PlShape, PlLogs
<1>6. PlTripOK' /\ PlProcOK'
  BY <1>1, PlProcStays DEF PlIndInv, PlTripOK
<1>7. PlLinesOK'
  <2>1. \A b \in plAsk' : PlLineOK(b)'
    BY <1>1, <1>2 DEF PlIndInv, PlLinesOK, PlLineOK
  <2>2. ASSUME NEW i \in 1 .. Len(plOut') PROVE PlLineOK(plOut[i])'
    <3>1. PlLineOK(plOut'[i])
      <4>1. i \in 1 .. Len(plOut) \/ i = Len(plOut) + 1
        BY <1>2, <1>4, <2>2
      <4>2. CASE i \in 1 .. Len(plOut)
        BY <4>2, <1>4 DEF PlIndInv, PlLinesOK
      <4>3. CASE i = Len(plOut) + 1
        BY <4>3, <1>3, <1>4
      <4> QED BY <4>1, <4>2, <4>3
    <3> QED BY <3>1, <1>1 DEF PlLineOK
  <2> QED BY <2>1, <2>2 DEF PlLinesOK
<1>8. PlCountOK' /\ PlStartsBounded' /\ PlOwnAnswer'
  BY <1>1 DEF PlIndInv, PlCountOK, PlCounted, PlRuns, PlStartsBounded, PlOwnAnswer
<1> QED BY <1>5, <1>6, <1>7, <1>8 DEF PlIndInv

\* The process dies, the clock ticks, the daemon stops.
LEMMA PlWorldKeeps ==
  ASSUME PlIndInv, PlDies \/ PlTick \/ PlCancel
  PROVE PlIndInv'
<1>1. /\ UNCHANGED <<plCall, plQueue, plGot, plSup, plTrip, plNextID, plDisabled, plFails, plGen, plStarts, plAsk, plOut>>
      /\ plProcs' \subseteq plProcs /\ plCtx' \in BOOLEAN
  BY DEF PlDies, PlTick, PlCancel, PlKill, PlProcSame, plClients, plBreaker, plProcess, plPipe, PlIndInv, PlShape
<1>2. plNow' \in Nat /\ plNow <= plNow'
  BY DEF PlDies, PlTick, PlCancel, PlFault, plTime, PlIndInv, PlShape
<1>3. PlShape'
  BY <1>1, <1>2 DEF PlIndInv, PlShape, PlLogs
<1>4. PlTripOK' /\ PlLinesOK'
  BY <1>1, PlWireStays DEF PlIndInv
<1>5. PlProcOK'
  BY <1>1 DEF PlIndInv, PlProcOK
<1>6. PlCountOK' /\ PlStartsBounded'
  BY <1>1, <1>2, PlCountStays DEF PlIndInv
<1>7. PlOwnAnswer'
  BY <1>1 DEF PlIndInv, PlOwnAnswer
<1> QED BY <1>3, <1>4, <1>5, <1>6, <1>7 DEF PlIndInv

LEMMA PlBegin == PlInit => PlIndInv
<1> SUFFICES ASSUME PlInit PROVE PlIndInv
  OBVIOUS
<1>1. IsFiniteSet({}) /\ Cardinality({}) = 0 /\ PlMaxFails \in Nat \ {0} /\ PlQueue \in Nat
  BY FS_EmptySet, PlConstants
<1>2. PlLogs(plFails) /\ PlLogs(plStarts) /\ plFails = {} /\ plStarts = {}
  BY <1>1 DEF PlInit, PlLogs
<1>3. PlShape
  <2>1. plQueue \in Seq(PlCalls) /\ Len(plQueue) <= PlQueue /\ plOut \in Seq(PlLine)
    <3>1. plQueue = <<>> /\ plOut = <<>>
      BY DEF PlInit
    <3> QED BY <3>1, <1>1
  <2>2. plCall \in [PlCalls -> PlStates] /\ plGot \in [PlCalls -> Nat]
    BY DEF PlInit, PlStates
  <2>3. plNow \in Nat /\ plGen \in Nat /\ plNextID \in Nat \ {0} /\ plCtx \in BOOLEAN /\ plDisabled \in BOOLEAN
    <3>1. plNow = 0 /\ plGen = 0 /\ plNextID = 1
      BY DEF PlInit
    <3>2. plCtx = FALSE /\ plDisabled = FALSE
      BY DEF PlInit
    <3>3. plNow \in Nat /\ plGen \in Nat /\ plNextID \in Nat \ {0}
      BY <3>1
    <3> QED BY <3>2, <3>3
  <2>4. plSup = "check" /\ plAsk = {}
    BY DEF PlInit
  <2> QED BY <1>2, <2>1, <2>2, <2>3, <2>4 DEF PlShape
<1>4. PlTripOK /\ PlProcOK
  BY DEF PlInit, PlTripOK, PlProcOK
<1>5. PlLinesOK
  BY DEF PlInit, PlLinesOK
<1>6. PlCountOK /\ PlStartsBounded
  BY <1>1, <1>2 DEF PlInit, PlCountOK, PlStartsBounded
<1>7. PlOwnAnswer
  BY DEF PlInit, PlOwnAnswer
<1> QED BY <1>3, <1>4, <1>5, <1>6, <1>7 DEF PlIndInv

\* The runtime's bookkeeping: an id in flight means one call, every recent start is counted,
\* and a process lives only while it is served (Runtime.supervise, serve, roundTrip,
\* recordFailure).
THEOREM PlInvariant == PlSpec => []PlIndInv
<1>1. PlInit => PlIndInv
  BY PlBegin
<1>2. PlIndInv /\ [PlNext]_plVars => PlIndInv'
  <2> SUFFICES ASSUME PlIndInv, [PlNext]_plVars PROVE PlIndInv'
    OBVIOUS
  <2>1. CASE PlSupervise
    BY <2>1, PlLoopKeeps, PlStartKeeps, PlNoStartKeeps, PlTakeKeeps, PlReadKeeps, PlEndKeeps DEF PlSupervise
  <2>2. CASE PlReply \/ PlRepeats
    BY <2>2, PlWriteKeeps
  <2>3. CASE PlDies \/ PlTick \/ PlCancel
    BY <2>3, PlWorldKeeps
  <2>4. CASE \E k \in PlCalls : PlClient(k)
    BY <2>4, PlClientKeeps
  <2>5. CASE UNCHANGED plVars
    BY <2>5 DEF plVars, plTime, plClients, plBreaker, plProcess, plPipe, PlIndInv, PlShape, PlLogs, PlTripOK, PlLinesOK,
       PlLineOK, PlProcOK, PlCountOK, PlCounted, PlRuns, PlOwnAnswer, PlStartsBounded
  <2> QED BY <2>1, <2>2, <2>3, <2>4, <2>5 DEF PlNext
<1> QED BY <1>1, <1>2, PTL DEF PlSpec

\* A caller gets the answer to its own request, at most maxFailuresPerHour processes are
\* started within an hour, and never two run together, for any queue, breaker and schedule
\* (roundTrip, recordFailure, kill).
THEOREM PlPluginsAreTame == PlSpec => []PlInv
<1>1. PlIndInv => PlInv
  <2> SUFFICES ASSUME PlIndInv PROVE PlInv
    OBVIOUS
  <2>1. Range(plQueue) \subseteq PlCalls
    <3>1. plQueue \in Seq(PlCalls)
      BY DEF PlIndInv, PlShape
    <3> QED BY <3>1 DEF Range
  <2>2. plProcs \subseteq 1 .. plGen
    BY DEF PlIndInv, PlShape, PlProcOK
  <2>3. (plSup = "trip") = (plTrip # PlNoTrip)
    BY DEF PlIndInv, PlTripOK, PlNoTrip
  <2>4. PlTypeOK
    BY <2>1, <2>2, <2>3 DEF PlTypeOK, PlIndInv, PlShape, PlStates, PlCountOK
  <2>5. Cardinality(plProcs) <= 1
    <3>1. plProcs = {} \/ plProcs = {plGen}
      BY DEF PlIndInv, PlProcOK
    <3>2. Cardinality({}) = 0 /\ Cardinality({plGen}) = 1
      BY FS_EmptySet, FS_Singleton
    <3>3. Cardinality(plProcs) = 0 \/ Cardinality(plProcs) = 1
      BY <3>1, <3>2
    <3> QED BY <3>3
  <2>6. PlOneProcess
    BY <2>5 DEF PlOneProcess, PlIndInv, PlProcOK
  <2> QED BY <2>4, <2>6 DEF PlInv, PlIndInv
<1> QED BY <1>1, PlInvariant, PTL
-----------------------------------------------------------------------------
(* SIEM forwarding, for any sinks, filters, queue and batch sizes.  SmTailOK   *)
(* says which rows the tail has in hand, SmSeenOK which sinks it has come to   *)
(* with the first of them, and SmSinksOK that what a sink was given lies in    *)
(* its output, its worker's hands and its queue, in this order, but for the    *)
(* events its drops count.                                                     *)

SmN == Cardinality(SmSinks)
SmEvents == 0 .. SmStop
SmModes == {"boot", "tick", "final", "stop"}

\* A sorted sequence.
SmSorted(s) == \A i, j \in DOMAIN s : i < j => s[i] <= s[j]

\* One sink: what its queue took or refused (seen) lies in its queue, its
\* worker's hands and its output, in this order, or is counted in its drops.
SmLine(q, cur, out, drops, seen) ==
    /\ q \in Seq(SmEvents) /\ cur \in Seq(SmEvents) /\ out \in Seq(SmEvents)
    /\ drops \in Nat /\ seen \subseteq SmEvents
    /\ SmSorted(out) /\ SmSorted(q)
    /\ \A x \in Range(out), y \in Range(q) : x <= y
    /\ \A x \in Range(out), y \in Range(cur) : x <= y
    /\ \A x \in Range(cur), y \in Range(q) : x <= y
    /\ Range(q) \cup Range(cur) \cup Range(out) \subseteq seen
    /\ Cardinality(seen \ (Range(q) \cup Range(cur) \cup Range(out))) <= drops

\* What the parts of a worker range over.
SmAts == {"idle", "deliver", "wait", "flush", "gone"}
SmLists == Seq(SmEvents)
SmDelays == 0 .. SmMaxBackoff
SmCounts == Nat
SmWorkers == [at : SmAts, q : SmLists, cur : SmLists, backoff : SmDelays, drops : SmCounts, out : SmLists]

\* A worker: it has an event in hand exactly while it delivers or waits.
SmWorkerOK(w) ==
    /\ w \in SmWorkers
    /\ Len(w.q) <= SmQueue
    /\ w.at \in {"deliver", "wait"} => Len(w.cur) = 1
    /\ w.at \notin {"deliver", "wait"} => w.cur = <<>>

SmSinksOK ==
    /\ smSink = [s \in SmSinks |-> smSink[s]]
    /\ \A s \in SmSinks : /\ SmWorkerOK(smSink[s])
                          /\ SmLine(smSink[s].q, smSink[s].cur, smSink[s].out, smSink[s].drops, smSeen[s])

\* What the parts of the tail range over.
SmTailAts == {"boot", "idle", "query", "emit", "evict", "insert", "gone"}
SmTurns == 1 .. SmN
SmTails == [at : SmTailAts, mode : SmModes, todo : SmLists, nth : SmTurns, full : BOOLEAN]

\* The tail: the events it holds are daemon_start, daemon_stop, or the rows after lastID.
SmTailOK ==
    /\ smAudit \in SmPrior .. SmMaxRows /\ smFrom \in Nat /\ smLast \in smFrom .. smAudit
    /\ smDown \in {"up", "daemon", "all", "exit"}
    /\ smTail \in SmTails
    /\ smTail.at \in {"boot", "idle", "query", "gone"} => smTail.todo = <<>>
    /\ smTail.at = "boot" => smTail.mode = "boot" /\ smLast = 0 /\ smFrom = 0 /\ \A s \in SmSinks : smSeen[s] = {}
    /\ smTail.at = "query" => smTail.mode \in {"tick", "final"}
    /\ smTail.at = "idle" => smTail.mode \in {"boot", "tick"}
    /\ smTail.at \in {"evict", "insert"} => smTail.todo # <<>>
    /\ smTail.mode = "boot" => smTail.todo \in {<<>>, <<SmStart>>}
    /\ smTail.mode = "stop" => smTail.todo \in {<<>>, <<SmStop>>}
    /\ smTail.mode \in {"tick", "final"} =>
         /\ \A i \in 1 .. Len(smTail.todo) : smTail.todo[i] = smLast + i
         /\ smLast + Len(smTail.todo) <= smAudit

\* The tail has come to the i-th sink with event e and not beyond.
SmReached(e, i) ==
    IF smTail.todo # <<>> THEN e < Head(smTail.todo) \/ (e = Head(smTail.todo) /\ i < smTail.nth)
    ELSE smTail.mode # "stop" => e <= smLast

\* The i-th sink has been asked about row r.
SmAsked(r, i) ==
    \/ r \in smFrom + 1 .. smLast
    \/ smTail.todo # <<>> /\ smTail.mode \in {"tick", "final"} /\ r = Head(smTail.todo) /\ i < smTail.nth

SmSeenOK ==
    /\ smSeen \in [SmSinks -> SUBSET SmEvents]
    /\ \A i \in 1 .. SmN :
         /\ \A e \in smSeen[SmOrder[i]] : SmReached(e, i)
         /\ \A r \in SmWants[SmOrder[i]] : SmAsked(r, i) => r \in smSeen[SmOrder[i]]

SmIndInv == SmTailOK /\ SmSinksOK /\ SmSeenOK
-----------------------------------------------------------------------------
\* The first element leaves a sequence.
LEMMA SmRangeTail ==
  ASSUME NEW S, NEW q \in Seq(S), q # <<>>
  PROVE  /\ Tail(q) \in Seq(S) /\ Len(Tail(q)) = Len(q) - 1 /\ Head(q) \in S
         /\ Range(q) = {Head(q)} \cup Range(Tail(q))
<1>1. /\ Tail(q) \in Seq(S) /\ Len(Tail(q)) = Len(q) - 1 /\ Len(q) \in Nat /\ Len(q) >= 1 /\ Head(q) = q[1]
      /\ DOMAIN q = 1 .. Len(q) /\ DOMAIN Tail(q) = 1 .. Len(Tail(q))
      /\ \A i \in 1 .. Len(Tail(q)) : Tail(q)[i] = q[i + 1]
  OBVIOUS
<1>2. \A i \in 1 .. Len(q) : i = 1 \/ (i - 1 \in 1 .. Len(Tail(q)) /\ q[i] = Tail(q)[i - 1])
  BY <1>1
<1>3. \A i \in 1 .. Len(Tail(q)) : i + 1 \in 1 .. Len(q) /\ Tail(q)[i] = q[i + 1]
  BY <1>1
<1>4. Range(q) \subseteq {Head(q)} \cup Range(Tail(q))
  <2> SUFFICES ASSUME NEW i \in 1 .. Len(q) PROVE q[i] = Head(q) \/ q[i] \in Range(Tail(q))
    BY <1>1 DEF Range
  <2>1. CASE i = 1
    BY <1>1, <2>1
  <2>2. CASE i - 1 \in 1 .. Len(Tail(q)) /\ q[i] = Tail(q)[i - 1]
    BY <1>1, <2>2 DEF Range
  <2> QED
    BY <1>2, <2>1, <2>2
<1>5. {Head(q)} \cup Range(Tail(q)) \subseteq Range(q)
  <2>1. Head(q) \in Range(q)
    BY <1>1 DEF Range
  <2>2. Range(Tail(q)) \subseteq Range(q)
    BY <1>1, <1>3 DEF Range
  <2> QED
    BY <2>1, <2>2
<1> QED
  BY <1>1, <1>4, <1>5

\* An element joins a sequence.
LEMMA SmRangeAppend ==
  ASSUME NEW S, NEW q \in Seq(S), NEW e \in S
  PROVE  /\ Append(q, e) \in Seq(S) /\ Len(Append(q, e)) = Len(q) + 1
         /\ Range(Append(q, e)) = Range(q) \cup {e}
<1>1. /\ Append(q, e) \in Seq(S) /\ Len(Append(q, e)) = Len(q) + 1 /\ Len(q) \in Nat
      /\ DOMAIN q = 1 .. Len(q) /\ DOMAIN Append(q, e) = 1 .. Len(q) + 1
      /\ Append(q, e)[Len(q) + 1] = e /\ \A i \in 1 .. Len(q) : Append(q, e)[i] = q[i]
  OBVIOUS
<1>2. \A i \in 1 .. Len(q) + 1 : i = Len(q) + 1 \/ i \in 1 .. Len(q)
  BY <1>1
<1>3. Range(Append(q, e)) \subseteq Range(q) \cup {e}
  BY <1>1, <1>2 DEF Range
<1>4. Range(q) \cup {e} \subseteq Range(Append(q, e))
  BY <1>1 DEF Range
<1> QED
  BY <1>1, <1>3, <1>4

\* A sequence of one.
LEMMA SmRangeOne ==
  ASSUME NEW S, NEW c \in Seq(S), Len(c) = 1
  PROVE  c = <<c[1]>> /\ c[1] \in S /\ Range(c) = {c[1]}
<1>1. c = <<c[1]>> /\ c[1] \in S /\ DOMAIN c = {1}
  OBVIOUS
<1> QED
  BY <1>1 DEF Range

LEMMA SmRangeNone == Range(<<>>) = {}
  BY DEF Range

\* Queues stay sorted: a tail of one, a sequence with a greatest element behind it.
LEMMA SmSortedTail ==
  ASSUME NEW q \in Seq(SmEvents), q # <<>>, SmSorted(q)
  PROVE  SmSorted(Tail(q)) /\ \A y \in Range(Tail(q)) : Head(q) <= y
<1>1. /\ Len(q) \in Nat /\ Len(q) >= 1 /\ Head(q) = q[1] /\ Len(Tail(q)) = Len(q) - 1
      /\ DOMAIN q = 1 .. Len(q) /\ DOMAIN Tail(q) = 1 .. Len(Tail(q))
      /\ \A i \in 1 .. Len(Tail(q)) : Tail(q)[i] = q[i + 1]
  OBVIOUS
<1>2. \A i \in DOMAIN Tail(q) : i \in Nat /\ i + 1 \in DOMAIN q /\ 1 \in DOMAIN q /\ 1 < i + 1 /\ Tail(q)[i] = q[i + 1]
  BY <1>1
<1>3. SmSorted(Tail(q))
  BY <1>2 DEF SmSorted
<1>4. \A i \in DOMAIN Tail(q) : Head(q) <= Tail(q)[i]
  BY <1>1, <1>2 DEF SmSorted
<1> QED
  BY <1>3, <1>4 DEF Range

LEMMA SmSortedAppend ==
  ASSUME NEW q \in Seq(SmEvents), NEW e \in SmEvents, SmSorted(q), \A x \in Range(q) : x <= e
  PROVE  SmSorted(Append(q, e))
<1>1. /\ Len(q) \in Nat /\ DOMAIN q = 1 .. Len(q) /\ DOMAIN Append(q, e) = 1 .. Len(q) + 1
      /\ Append(q, e)[Len(q) + 1] = e /\ \A i \in 1 .. Len(q) : Append(q, e)[i] = q[i]
  OBVIOUS
<1>2. \A i \in DOMAIN q : q[i] <= e
  BY DEF Range
<1> SUFFICES ASSUME NEW i \in DOMAIN Append(q, e), NEW j \in DOMAIN Append(q, e), i < j
             PROVE  Append(q, e)[i] <= Append(q, e)[j]
  BY DEF SmSorted
<1>3. i \in DOMAIN q /\ Append(q, e)[i] = q[i]
  BY <1>1
<1>4. CASE j = Len(q) + 1
  BY <1>1, <1>2, <1>3, <1>4
<1>5. CASE j \in DOMAIN q
  <2>1. q[i] <= q[j]
    BY <1>3, <1>5 DEF SmSorted
  <2> QED
    BY <1>1, <1>3, <1>5, <2>1
<1> QED
  BY <1>1, <1>4, <1>5

-----------------------------------------------------------------------------
(* One sink's line. *)

\* What is lost without more drops has not grown.
LEMMA SmLostLess ==
  ASSUME NEW A \in SUBSET SmEvents, NEW B \in SUBSET A, NEW d \in Nat, Cardinality(A) <= d
  PROVE  Cardinality(B) <= d /\ IsFiniteSet(A)
<1>1. SmStop \in Int
  BY SmConstants DEF SmConstants, SmStop
<1>2. IsFiniteSet(SmEvents)
  BY <1>1, FS_Interval DEF SmEvents
<1>3. IsFiniteSet(A)
  BY <1>2, FS_Subset
<1>4. Cardinality(B) <= Cardinality(A) /\ Cardinality(A) \in Nat /\ Cardinality(B) \in Nat
  BY <1>3, FS_Subset, FS_CardinalityType
<1> QED
  BY <1>3, <1>4

\* One event more is lost, and counted.
LEMMA SmLostMore ==
  ASSUME NEW A \in SUBSET SmEvents, NEW x, NEW B \in SUBSET (A \cup {x}), NEW d \in Nat, Cardinality(A) <= d
  PROVE  Cardinality(B) <= d + 1
<1>1. IsFiniteSet(A) /\ Cardinality(A) \in Nat
  BY SmLostLess, FS_CardinalityType
<1>2. /\ IsFiniteSet(A \cup {x}) /\ Cardinality(A \cup {x}) \in Nat
      /\ (Cardinality(A \cup {x}) = Cardinality(A) \/ Cardinality(A \cup {x}) = Cardinality(A) + 1)
  BY <1>1, FS_AddElement, FS_CardinalityType
<1>3. Cardinality(B) <= Cardinality(A \cup {x}) /\ Cardinality(B) \in Nat
  BY <1>2, FS_Subset, FS_CardinalityType
<1> QED
  BY <1>1, <1>2, <1>3

\* The worker takes the oldest event.
LEMMA SmLineTake ==
  ASSUME NEW q, NEW out, NEW d, NEW S, SmLine(q, <<>>, out, d, S), q # <<>>
  PROVE  SmLine(Tail(q), <<Head(q)>>, out, d, S)
<1> USE DEF SmLine
<1>1. Tail(q) \in Seq(SmEvents) /\ Head(q) \in SmEvents /\ Range(q) = {Head(q)} \cup Range(Tail(q))
  BY SmRangeTail
<1>2. SmSorted(Tail(q)) /\ \A y \in Range(Tail(q)) : Head(q) <= y
  BY SmSortedTail
<1>3. <<Head(q)>> \in Seq(SmEvents) /\ Range(<<Head(q)>>) = {Head(q)}
  <2>1. <<Head(q)>> \in Seq(SmEvents) /\ Len(<<Head(q)>>) = 1 /\ <<Head(q)>>[1] = Head(q)
    BY <1>1
  <2> QED
    BY <2>1, SmRangeOne
<1>4. Range(Tail(q)) \cup Range(<<Head(q)>>) \cup Range(out) = Range(q) \cup Range(<<>>) \cup Range(out)
  BY <1>1, <1>3, SmRangeNone
<1> QED
  BY <1>1, <1>2, <1>3, <1>4

\* The event in hand goes out: delivered, or received although the write failed.
LEMMA SmLineOut ==
  ASSUME NEW q, NEW cur, NEW out, NEW d, NEW S, SmLine(q, cur, out, d, S), Len(cur) = 1
  PROVE  SmLine(q, <<>>, out \o cur, d, S) /\ SmLine(q, cur, out \o cur, d, S)
<1> USE DEF SmLine
<1>1. PICK x : cur = <<x>> /\ x \in SmEvents /\ Range(cur) = {x}
  BY SmRangeOne
<1>2. out \o cur = Append(out, x)
  BY <1>1
<1>3. Append(out, x) \in Seq(SmEvents) /\ Range(Append(out, x)) = Range(out) \cup {x}
  BY <1>1, SmRangeAppend
<1>4. SmSorted(Append(out, x))
  BY <1>1, SmSortedAppend
<1>5. <<>> \in Seq(SmEvents)
  OBVIOUS
<1>6. x <= x
  <2>1. SmEvents \subseteq Int
    BY DEF SmEvents
  <2> QED
    BY <1>1, <2>1
<1>7. /\ Range(q) \cup Range(<<>>) \cup Range(out \o cur) = Range(q) \cup Range(cur) \cup Range(out)
      /\ Range(q) \cup Range(cur) \cup Range(out \o cur) = Range(q) \cup Range(cur) \cup Range(out)
  BY <1>1, <1>2, <1>3, SmRangeNone
<1>8. \A y \in Range(out \o cur) : y \in Range(out) \/ y = x
  BY <1>2, <1>3
<1>9. \A y \in Range(out), z \in Range(cur) : y <= z
  OBVIOUS
<1> QED
  BY <1>1, <1>2, <1>3, <1>4, <1>5, <1>6, <1>7, <1>8, SmRangeNone

\* The oldest event is evicted, or not written in the flush, and counted.
LEMMA SmLineDrop ==
  ASSUME NEW q, NEW cur, NEW out, NEW d, NEW S, SmLine(q, cur, out, d, S), q # <<>>
  PROVE  SmLine(Tail(q), cur, out, d + 1, S)
<1> USE DEF SmLine
<1>1. Tail(q) \in Seq(SmEvents) /\ Head(q) \in SmEvents /\ Range(q) = {Head(q)} \cup Range(Tail(q))
  BY SmRangeTail
<1>2. SmSorted(Tail(q))
  BY SmSortedTail
<1> DEFINE A == S \ (Range(q) \cup Range(cur) \cup Range(out))
           B == S \ (Range(Tail(q)) \cup Range(cur) \cup Range(out))
<1>3. A \in SUBSET SmEvents /\ B \in SUBSET (A \cup {Head(q)}) /\ Cardinality(A) <= d /\ d \in Nat
  BY <1>1
<1>4. Cardinality(B) <= d + 1
  <2> HIDE DEF A, B
  <2> QED
    BY <1>3, SmLostMore
<1> QED
  BY <1>1, <1>2, <1>3, <1>4

\* The event in hand is given up and counted.
LEMMA SmLineAbandon ==
  ASSUME NEW q, NEW cur, NEW out, NEW d, NEW S, SmLine(q, cur, out, d, S), Len(cur) = 1
  PROVE  SmLine(q, <<>>, out, d + 1, S)
<1> USE DEF SmLine
<1>1. PICK x : cur = <<x>> /\ Range(cur) = {x}
  BY SmRangeOne
<1> DEFINE A == S \ (Range(q) \cup Range(cur) \cup Range(out))
           B == S \ (Range(q) \cup Range(<<>>) \cup Range(out))
<1>2. A \in SUBSET SmEvents /\ B \in SUBSET (A \cup {x}) /\ Cardinality(A) <= d /\ d \in Nat
  BY <1>1
<1>3. Cardinality(B) <= d + 1
  <2> HIDE DEF A, B
  <2> QED
    BY <1>2, SmLostMore
<1> QED
  BY <1>2, <1>3, SmRangeNone

\* An event that is no older than any before it joins the queue.
LEMMA SmLineQueue ==
  ASSUME NEW q, NEW cur, NEW out, NEW d, NEW S, NEW e \in SmEvents, SmLine(q, cur, out, d, S), \A x \in S : x <= e
  PROVE  SmLine(Append(q, e), cur, out, d, S \cup {e})
<1> USE DEF SmLine
<1>1. Append(q, e) \in Seq(SmEvents) /\ Range(Append(q, e)) = Range(q) \cup {e}
  BY SmRangeAppend
<1>2. SmSorted(Append(q, e))
  BY SmSortedAppend
<1>3. /\ \A x \in Range(out), y \in Range(Append(q, e)) : x <= y
      /\ \A x \in Range(cur), y \in Range(Append(q, e)) : x <= y
  BY <1>1
<1> DEFINE A == S \ (Range(q) \cup Range(cur) \cup Range(out))
           B == (S \cup {e}) \ (Range(Append(q, e)) \cup Range(cur) \cup Range(out))
<1>4. A \in SUBSET SmEvents /\ B \in SUBSET A /\ Cardinality(A) <= d /\ d \in Nat
  BY <1>1
<1>5. Cardinality(B) <= d
  <2> HIDE DEF A, B
  <2> QED
    BY <1>4, SmLostLess
<1> QED
  BY <1>1, <1>2, <1>3, <1>4, <1>5

\* A queue still full refuses the event and counts it.
LEMMA SmLineRefuse ==
  ASSUME NEW q, NEW cur, NEW out, NEW d, NEW S, NEW e \in SmEvents, SmLine(q, cur, out, d, S)
  PROVE  SmLine(q, cur, out, d + 1, S \cup {e})
<1> USE DEF SmLine
<1> DEFINE A == S \ (Range(q) \cup Range(cur) \cup Range(out))
           B == (S \cup {e}) \ (Range(q) \cup Range(cur) \cup Range(out))
<1>1. A \in SUBSET SmEvents /\ B \in SUBSET (A \cup {e}) /\ Cardinality(A) <= d /\ d \in Nat
  OBVIOUS
<1>2. Cardinality(B) <= d + 1
  <2> HIDE DEF A, B
  <2> QED
    BY <1>1, SmLostMore
<1> QED
  BY <1>1, <1>2

-----------------------------------------------------------------------------
(* The workers. *)

\* A worker's step leaves the tail and the log alone.
LEMMA SmWorkerStep ==
  ASSUME SmIndInv, NEW s \in SmSinks, NEW w, smSink' = [smSink EXCEPT ![s] = w],
         SmWorkerOK(w), SmLine(w.q, w.cur, w.out, w.drops, smSeen[s]),
         UNCHANGED <<smAudit, smLast, smTail, smDown, smFrom, smSeen>>
  PROVE  SmIndInv'
<1>1. smSink' = [t \in SmSinks |-> smSink'[t]] /\ \A t \in SmSinks : smSink'[t] = IF t = s THEN w ELSE smSink[t]
  BY DEF SmIndInv, SmSinksOK
<1>2. SmSinksOK'
  <2> SUFFICES ASSUME NEW t \in SmSinks
               PROVE  /\ SmWorkerOK(smSink'[t])
                      /\ SmLine(smSink'[t].q, smSink'[t].cur, smSink'[t].out, smSink'[t].drops, smSeen[t])
    BY <1>1 DEF SmSinksOK
  <2>1. CASE t = s
    BY <1>1, <2>1
  <2>2. CASE t # s
    BY <1>1, <2>2 DEF SmIndInv, SmSinksOK
  <2> QED
    BY <2>1, <2>2
<1>3. SmTailOK'
  BY DEF SmIndInv, SmTailOK
<1>4. SmSeenOK'
  BY DEF SmIndInv, SmSeenOK, SmReached, SmAsked
<1> QED
  BY <1>2, <1>3, <1>4 DEF SmIndInv

\* What the parts of a worker of SmSinksOK are.
LEMMA SmWorkerParts ==
  ASSUME NEW w, SmWorkerOK(w)
  PROVE  /\ w \in SmWorkers /\ w.at \in SmAts /\ w.q \in Seq(SmEvents) /\ w.cur \in Seq(SmEvents) /\ w.out \in Seq(SmEvents)
         /\ w.backoff \in 0 .. SmMaxBackoff /\ w.drops \in Nat /\ Len(w.q) <= SmQueue /\ Len(w.q) \in Nat
         /\ (w.at \in {"deliver", "wait"} => Len(w.cur) = 1) /\ (w.at \notin {"deliver", "wait"} => w.cur = <<>>)
<1>1. w \in SmWorkers /\ w.at \in SmAts /\ w.q \in SmLists /\ w.cur \in SmLists /\ w.out \in SmLists
      /\ w.backoff \in SmDelays /\ w.drops \in SmCounts
  BY DEF SmWorkerOK, SmWorkers
<1> QED
  BY <1>1 DEF SmWorkerOK, SmLists, SmDelays, SmCounts

\* The parts are in their ranges.
LEMMA SmRanges ==
  /\ "idle" \in SmAts /\ "deliver" \in SmAts /\ "wait" \in SmAts /\ "flush" \in SmAts /\ "gone" \in SmAts
  /\ <<>> \in SmLists /\ SmLists = Seq(SmEvents) /\ SmDelays = 0 .. SmMaxBackoff /\ SmCounts = Nat /\ 0 \in SmDelays
<1>1. SmMaxBackoff \in Nat
  BY SmConstants DEF SmConstants
<1> QED
  BY <1>1 DEF SmAts, SmLists, SmDelays, SmCounts

\* No step of a worker, no failed write breaks the order or the account of its sink.
LEMMA SmWorkersKeep ==
  ASSUME SmIndInv, NEW s \in SmSinks, SmWorker(s) \/ SmWriteFails(s)
  PROVE  SmIndInv'
<1>1. SmWorkerOK(smSink[s]) /\ SmLine(smSink[s].q, smSink[s].cur, smSink[s].out, smSink[s].drops, smSeen[s])
  BY DEF SmIndInv, SmSinksOK
<1>2. PICK w : w = smSink[s]
  OBVIOUS
<1>3. SmWorkerOK(w) /\ SmLine(w.q, w.cur, w.out, w.drops, smSeen[s])
  BY <1>1, <1>2
<1>4. /\ w \in SmWorkers /\ w.q \in Seq(SmEvents) /\ w.cur \in Seq(SmEvents) /\ w.out \in Seq(SmEvents)
      /\ w.backoff \in 0 .. SmMaxBackoff /\ w.drops \in Nat /\ Len(w.q) <= SmQueue /\ Len(w.q) \in Nat
      /\ (w.at \in {"deliver", "wait"} => Len(w.cur) = 1) /\ (w.at \notin {"deliver", "wait"} => w.cur = <<>>)
  BY <1>3, SmWorkerParts
<1>5. SmMaxBackoff \in Nat /\ SmQueue \in Nat
  BY SmConstants DEF SmConstants
<1>6. w.q # <<>> => Tail(w.q) \in SmLists /\ Len(Tail(w.q)) <= SmQueue /\ Head(w.q) \in SmEvents /\ <<Head(w.q)>> \in SmLists
  <2> SUFFICES ASSUME w.q # <<>>
               PROVE  Tail(w.q) \in SmLists /\ Len(Tail(w.q)) <= SmQueue /\ Head(w.q) \in SmEvents /\ <<Head(w.q)>> \in SmLists
    OBVIOUS
  <2>1. Tail(w.q) \in Seq(SmEvents) /\ Len(Tail(w.q)) = Len(w.q) - 1 /\ Head(w.q) \in SmEvents
    BY <1>4, SmRangeTail
  <2>2. <<Head(w.q)>> \in Seq(SmEvents)
    BY <2>1
  <2> QED
    BY <1>4, <1>5, <2>1, <2>2, SmRanges
<1> DEFINE Same == UNCHANGED <<smAudit, smLast, smTail, smDown, smFrom, smSeen>>
           To(x) == smSink' = [smSink EXCEPT ![s] = x]
<1>7. CASE SmTake(s)
  <2> DEFINE x == [w EXCEPT !.at = "deliver", !.cur = <<Head(w.q)>>, !.q = Tail(@)]
  <2>1. w.at = "idle" /\ w.q # <<>> /\ w.cur = <<>> /\ Same /\ To(x)
    BY <1>2, <1>4, <1>7 DEF SmTake, SmSet, SmSame
  <2>2. x \in SmWorkers
    BY <1>4, <1>6, <2>1, SmRanges DEF SmWorkers
  <2>3. x.at = "deliver" /\ x.cur = <<Head(w.q)>> /\ x.q = Tail(w.q) /\ x.drops = w.drops /\ x.out = w.out
    BY <1>4 DEF SmWorkers
  <2>4. SmLine(Tail(w.q), <<Head(w.q)>>, w.out, w.drops, smSeen[s]) /\ Len(<<Head(w.q)>>) = 1
    BY <1>3, <2>1, SmLineTake
  <2> HIDE DEF x
  <2>5. SmWorkerOK(x)
    BY <1>6, <2>1, <2>2, <2>3, <2>4 DEF SmWorkerOK
  <2>6. SmLine(x.q, x.cur, x.out, x.drops, smSeen[s])
    BY <2>3, <2>4
  <2> QED
    BY <2>1, <2>5, <2>6, SmWorkerStep
<1>8. CASE SmWritten(s)
  <2> DEFINE x == [w EXCEPT !.at = "idle", !.cur = <<>>, !.backoff = 0, !.out = @ \o w.cur]
  <2>1. w.at = "deliver" /\ Len(w.cur) = 1 /\ Same /\ To(x)
    BY <1>2, <1>4, <1>8 DEF SmWritten, SmSet, SmSame
  <2>0. SmLine(w.q, <<>>, w.out \o w.cur, w.drops, smSeen[s])
    BY <1>3, <2>1, SmLineOut
  <2>2. SmLine(w.q, <<>>, w.out \o w.cur, w.drops, smSeen[s]) /\ w.out \o w.cur \in SmLists
    BY <2>0, SmRanges DEF SmLine
  <2>3. x \in SmWorkers
    BY <1>4, <2>2, SmRanges DEF SmWorkers
  <2>4. x.at = "idle" /\ x.cur = <<>> /\ x.q = w.q /\ x.drops = w.drops /\ x.out = w.out \o w.cur
    BY <1>4 DEF SmWorkers
  <2> HIDE DEF x
  <2>5. SmWorkerOK(x)
    BY <1>4, <2>3, <2>4 DEF SmWorkerOK
  <2>6. SmLine(x.q, x.cur, x.out, x.drops, smSeen[s])
    BY <2>2, <2>4
  <2> QED
    BY <2>1, <2>5, <2>6, SmWorkerStep
<1>9. CASE SmWriteFails(s)
  <2>1. PICK got \in {<<>>, w.cur} : To([SmHolds(w) EXCEPT !.out = @ \o got])
    BY <1>2, <1>9 DEF SmWriteFails, SmSet
  <2>2. w.at = "deliver" /\ Len(w.cur) = 1 /\ Same
    BY <1>2, <1>4, <1>9 DEF SmWriteFails, SmSame
  <2>3. PICK b : b = IF w.backoff < SmMaxBackoff THEN w.backoff + 1 ELSE w.backoff
    OBVIOUS
  <2>4. b \in SmDelays
    BY <1>4, <1>5, <2>3 DEF SmDelays
  <2> DEFINE y == [w EXCEPT !.at = "wait", !.backoff = b]
             x == [y EXCEPT !.out = @ \o got]
  <2>5. y \in SmWorkers
    BY <1>4, <2>4, SmRanges DEF SmWorkers
  <2>6. y.at = "wait" /\ y.cur = w.cur /\ y.q = w.q /\ y.drops = w.drops /\ y.out = w.out
    BY <1>4 DEF SmWorkers
  <2>7. SmHolds(w) = y
    BY <2>3 DEF SmHolds
  <2>8. SmLine(w.q, w.cur, w.out \o got, w.drops, smSeen[s])
    <3>1. CASE got = <<>>
      <4>1. w.out \o got = w.out
        BY <1>4, <3>1
      <4> QED
        BY <1>3, <4>1
    <3>2. CASE got = w.cur
      BY <1>3, <2>2, <3>2, SmLineOut
    <3> QED
      BY <3>1, <3>2
  <2>9. To(x)
    BY <2>1, <2>7
  <2> HIDE DEF y
  <2>10. w.out \o got \in SmLists
    BY <2>8, SmRanges DEF SmLine
  <2>11. x \in SmWorkers
    BY <2>5, <2>6, <2>10 DEF SmWorkers
  <2>12. x.at = "wait" /\ x.cur = w.cur /\ x.q = w.q /\ x.drops = w.drops /\ x.out = w.out \o got
    BY <2>5, <2>6 DEF SmWorkers
  <2> HIDE DEF x
  <2>13. SmWorkerOK(x)
    BY <1>4, <2>2, <2>11, <2>12 DEF SmWorkerOK
  <2>14. SmLine(x.q, x.cur, x.out, x.drops, smSeen[s])
    BY <2>8, <2>12
  <2> QED
    BY <2>2, <2>9, <2>13, <2>14, SmWorkerStep
<1>10. CASE SmRetry(s)
  <2> DEFINE x == [w EXCEPT !.at = "deliver"]
  <2>1. w.at = "wait" /\ Len(w.cur) = 1 /\ Same /\ To(x)
    BY <1>2, <1>4, <1>10 DEF SmRetry, SmSet, SmSame
  <2>2. x \in SmWorkers
    BY <1>4, SmRanges DEF SmWorkers
  <2>3. x.at = "deliver" /\ x.cur = w.cur /\ x.q = w.q /\ x.drops = w.drops /\ x.out = w.out
    BY <1>4 DEF SmWorkers
  <2> HIDE DEF x
  <2>4. SmWorkerOK(x)
    BY <1>4, <2>1, <2>2, <2>3 DEF SmWorkerOK
  <2>5. SmLine(x.q, x.cur, x.out, x.drops, smSeen[s])
    BY <1>3, <2>3
  <2> QED
    BY <2>1, <2>4, <2>5, SmWorkerStep
<1>11. CASE SmAbandon(s)
  <2> DEFINE x == [w EXCEPT !.at = "idle", !.cur = <<>>, !.drops = @ + 1]
  <2>1. w.at = "wait" /\ Len(w.cur) = 1 /\ Same /\ To(x)
    BY <1>2, <1>4, <1>11 DEF SmAbandon, SmSet, SmSame
  <2>2. SmLine(w.q, <<>>, w.out, w.drops + 1, smSeen[s]) /\ w.drops + 1 \in SmCounts
    BY <1>3, <1>4, <2>1, SmLineAbandon DEF SmCounts
  <2>3. x \in SmWorkers
    BY <1>4, <2>2, SmRanges DEF SmWorkers
  <2>4. x.at = "idle" /\ x.cur = <<>> /\ x.q = w.q /\ x.drops = w.drops + 1 /\ x.out = w.out
    BY <1>4 DEF SmWorkers
  <2> HIDE DEF x
  <2>5. SmWorkerOK(x)
    BY <1>4, <2>3, <2>4 DEF SmWorkerOK
  <2>6. SmLine(x.q, x.cur, x.out, x.drops, smSeen[s])
    BY <2>2, <2>4
  <2> QED
    BY <2>1, <2>5, <2>6, SmWorkerStep
<1>12. CASE SmToFlush(s) \/ SmFlushed(s)
  <2>1. PICK to \in {"flush", "gone"} : To([w EXCEPT !.at = to])
    BY <1>2, <1>12 DEF SmToFlush, SmFlushed, SmSet
  <2> DEFINE x == [w EXCEPT !.at = to]
  <2>2. w.at \in {"idle", "flush"} /\ w.cur = <<>> /\ Same
    BY <1>2, <1>4, <1>12 DEF SmToFlush, SmFlushed, SmSame
  <2>3. x \in SmWorkers
    BY <1>4, <2>1, SmRanges DEF SmWorkers
  <2>4. x.at = to /\ x.cur = w.cur /\ x.q = w.q /\ x.drops = w.drops /\ x.out = w.out
    BY <1>4 DEF SmWorkers
  <2>5. To(x)
    BY <2>1
  <2> HIDE DEF x
  <2>6. SmWorkerOK(x)
    BY <1>4, <2>1, <2>2, <2>3, <2>4 DEF SmWorkerOK
  <2>7. SmLine(x.q, x.cur, x.out, x.drops, smSeen[s])
    BY <1>3, <2>4
  <2> QED
    BY <2>2, <2>5, <2>6, <2>7, SmWorkerStep
<1>13. CASE SmFlush(s)
  <2>1. w.at = "flush" /\ w.cur = <<>> /\ w.q # <<>> /\ Same
    BY <1>2, <1>4, <1>13 DEF SmFlush, SmSame
  <2>2. CASE To([w EXCEPT !.q = Tail(@), !.out = Append(@, Head(w.q))])
    <3> DEFINE x == [w EXCEPT !.q = Tail(@), !.out = Append(@, Head(w.q))]
    <3>1. SmLine(Tail(w.q), <<Head(w.q)>>, w.out, w.drops, smSeen[s]) /\ Len(<<Head(w.q)>>) = 1
      BY <1>3, <2>1, SmLineTake
    <3>2. SmLine(Tail(w.q), <<>>, w.out \o <<Head(w.q)>>, w.drops, smSeen[s])
      BY <3>1, SmLineOut
    <3>3. w.out \o <<Head(w.q)>> = Append(w.out, Head(w.q)) /\ Append(w.out, Head(w.q)) \in SmLists
      BY <1>4, <1>6, <2>1, SmRanges
    <3>4. x \in SmWorkers
      BY <1>4, <1>6, <2>1, <3>3 DEF SmWorkers
    <3>5. x.at = "flush" /\ x.cur = <<>> /\ x.q = Tail(w.q) /\ x.drops = w.drops /\ x.out = Append(w.out, Head(w.q))
      BY <1>4, <2>1 DEF SmWorkers
    <3>6. To(x)
      BY <2>2
    <3> HIDE DEF x
    <3>7. SmWorkerOK(x)
      BY <1>6, <2>1, <3>4, <3>5 DEF SmWorkerOK
    <3>8. SmLine(x.q, x.cur, x.out, x.drops, smSeen[s])
      BY <3>2, <3>3, <3>5
    <3> QED
      BY <2>1, <3>6, <3>7, <3>8, SmWorkerStep
  <2>3. CASE To([w EXCEPT !.q = Tail(@), !.drops = @ + 1])
    <3> DEFINE x == [w EXCEPT !.q = Tail(@), !.drops = @ + 1]
    <3>1. SmLine(Tail(w.q), <<>>, w.out, w.drops + 1, smSeen[s]) /\ w.drops + 1 \in SmCounts
      BY <1>3, <1>4, <2>1, SmLineDrop DEF SmCounts
    <3>2. x \in SmWorkers
      BY <1>4, <1>6, <2>1, <3>1 DEF SmWorkers
    <3>3. x.at = "flush" /\ x.cur = <<>> /\ x.q = Tail(w.q) /\ x.drops = w.drops + 1 /\ x.out = w.out
      BY <1>4, <2>1 DEF SmWorkers
    <3>4. To(x)
      BY <2>3
    <3> HIDE DEF x
    <3>5. SmWorkerOK(x)
      BY <1>6, <2>1, <3>2, <3>3 DEF SmWorkerOK
    <3>6. SmLine(x.q, x.cur, x.out, x.drops, smSeen[s])
      BY <3>1, <3>3
    <3> QED
      BY <2>1, <3>4, <3>5, <3>6, SmWorkerStep
  <2> QED
    BY <1>2, <1>13, <2>2, <2>3 DEF SmFlush, SmSet
<1> QED
  BY <1>7, <1>8, <1>9, <1>10, <1>11, <1>12, <1>13 DEF SmWorker

-----------------------------------------------------------------------------
(* The tail. *)

\* What the tail is made of, and what it counts in.
LEMMA SmTailParts ==
  ASSUME SmTailOK
  PROVE  /\ smTail \in SmTails /\ smTail.at \in SmTailAts /\ smTail.mode \in SmModes /\ smTail.todo \in Seq(SmEvents)
         /\ smTail.nth \in 1 .. SmN /\ smTail.full \in BOOLEAN /\ Len(smTail.todo) \in Nat
         /\ smAudit \in Nat /\ smFrom \in Nat /\ smLast \in Nat /\ smFrom <= smLast /\ smLast <= smAudit /\ smAudit <= SmMaxRows
         /\ SmMaxRows \in Nat /\ SmEvents = 0 .. SmMaxRows + 1 /\ SmN \in Nat
<1>1. smTail \in SmTails /\ smTail.at \in SmTailAts /\ smTail.mode \in SmModes /\ smTail.todo \in SmLists
      /\ smTail.nth \in SmTurns /\ smTail.full \in BOOLEAN
  BY DEF SmTailOK, SmTails
<1>2. SmMaxRows \in Nat /\ SmPrior \in 0 .. SmMaxRows /\ SmN \in Nat
  BY SmConstants, FS_CardinalityType DEF SmConstants, SmN
<1>3. smAudit \in Nat /\ smFrom \in Nat /\ smLast \in Nat /\ smFrom <= smLast /\ smLast <= smAudit /\ smAudit <= SmMaxRows
  BY <1>2 DEF SmTailOK
<1>4. Len(smTail.todo) \in Nat /\ smTail.todo \in Seq(SmEvents)
  BY <1>1 DEF SmLists
<1> QED
  BY <1>1, <1>2, <1>3, <1>4 DEF SmTurns, SmEvents, SmStop

\* The parts of the tail are in their ranges.
LEMMA SmTailRanges ==
  /\ "idle" \in SmTailAts /\ "query" \in SmTailAts /\ "emit" \in SmTailAts /\ "evict" \in SmTailAts
  /\ "insert" \in SmTailAts /\ "gone" \in SmTailAts
  /\ "tick" \in SmModes /\ "final" \in SmModes /\ "stop" \in SmModes /\ "boot" \in SmModes
  /\ <<>> \in SmLists /\ 1 \in SmTurns /\ SmN \in Nat /\ SmN >= 1
<1>1. SmN \in Nat /\ SmN # 0
  BY SmConstants, FS_CardinalityType, FS_EmptySet DEF SmConstants, SmN
<1> QED
  BY <1>1 DEF SmTailAts, SmModes, SmLists, SmTurns

\* The tail moves on with nothing in hand: no sink learns of it.
LEMMA SmTailEmpty ==
  ASSUME SmIndInv, smTail.todo = <<>>, smTail.at # "boot", NEW t \in SmTails, smTail' = t, t.todo = <<>>,
         t.at \in {"idle", "query", "gone"},
         t.at = "query" => t.mode \in {"tick", "final"}, t.at = "idle" => t.mode \in {"boot", "tick"},
         smTail.mode = "stop" => t.mode = "stop",
         UNCHANGED <<smAudit, smLast, smSink, smDown, smFrom, smSeen>>
  PROVE  SmIndInv'
<1>1. SmSinksOK'
  BY DEF SmIndInv, SmSinksOK
<1>2. SmTailOK'
  <2>1. smLast \in Int /\ smAudit \in Int /\ smLast <= smAudit
    BY SmTailParts DEF SmIndInv
  <2>2. Len(t.todo) = 0 /\ smLast + Len(t.todo) <= smAudit /\ \A i \in 1 .. Len(t.todo) : FALSE
    BY <2>1
  <2> QED
    BY <2>2 DEF SmIndInv, SmTailOK
<1>3. SmSeenOK'
  <2>1. \A e, i : SmReached(e, i) => SmReached(e, i)'
    BY DEF SmReached
  <2>2. \A r, i : SmAsked(r, i)' => SmAsked(r, i)
    BY DEF SmAsked
  <2> QED
    BY <2>1, <2>2 DEF SmIndInv, SmSeenOK
<1> QED
  BY <1>1, <1>2, <1>3 DEF SmIndInv

\* The tail takes newer events in hand.
LEMMA SmTailLoads ==
  ASSUME SmIndInv, smTail.todo = <<>>, smTail.mode # "stop", smTail.at # "boot",
         NEW mode \in SmModes, NEW rows \in Seq(SmEvents), rows # <<>>, smTail' = SmEmitting(mode, rows),
         mode = "stop" => rows = <<SmStop>>, mode # "boot",
         mode \in {"tick", "final"} =>
           (\A i \in 1 .. Len(rows) : rows[i] = smLast + i) /\ smLast + Len(rows) <= smAudit,
         UNCHANGED <<smAudit, smLast, smSink, smDown, smFrom, smSeen>>
  PROVE  SmIndInv'
<1>1. SmSinksOK'
  BY DEF SmIndInv, SmSinksOK
<1>2. smTail'.at = "emit" /\ smTail'.mode = mode /\ smTail'.todo = rows /\ smTail'.nth = 1 /\ smTail' \in SmTails
  <2>1. (Len(rows) = SmBatch) \in BOOLEAN /\ rows \in SmLists
    BY DEF SmLists
  <2>2. SmEmitting(mode, rows) \in SmTails
    BY <2>1, SmTailRanges DEF SmEmitting, SmTails
  <2> QED
    BY <2>2 DEF SmEmitting
<1>3. SmTailOK'
  BY <1>2 DEF SmIndInv, SmTailOK
<1>4. Head(rows) \in Int /\ smLast < Head(rows)
  <2>1. Len(rows) >= 1 /\ Len(rows) \in Nat /\ Head(rows) = rows[1]
    OBVIOUS
  <2>2. CASE mode = "stop"
    <3>1. Head(rows) = SmStop
      BY <2>2
    <3> QED
      BY <3>1, SmTailParts DEF SmIndInv, SmStop
  <2>3. CASE mode \in {"tick", "final"}
    <3>1. Head(rows) = smLast + 1
      BY <2>1, <2>3
    <3> QED
      BY <3>1, SmTailParts DEF SmIndInv
  <2> QED
    BY <2>2, <2>3 DEF SmModes
<1>5. SmSeenOK'
  <2>1. smSeen \in [SmSinks -> SUBSET SmEvents] /\ smLast \in Int /\ SmEvents \subseteq Int
    BY SmTailParts DEF SmIndInv, SmSeenOK
  <2>2. ASSUME NEW i \in 1 .. SmN, NEW e \in SmEvents, SmReached(e, i) PROVE SmReached(e, i)'
    BY <1>2, <1>4, <2>1, <2>2 DEF SmReached
  <2>3. ASSUME NEW i \in 1 .. SmN, NEW r, SmAsked(r, i)' PROVE SmAsked(r, i)
    <3>1. ~(i < 1)
      BY SmTailParts DEF SmIndInv
    <3> QED
      BY <1>2, <2>3, <3>1 DEF SmAsked
  <2>4. \A i \in 1 .. SmN : smSeen[SmOrder[i]] \subseteq SmEvents
    BY <2>1, SmConstants DEF SmConstants, SmN, Bijection, Injection
  <2> QED
    BY <2>2, <2>3, <2>4 DEF SmIndInv, SmSeenOK
<1> QED
  BY <1>1, <1>3, <1>5 DEF SmIndInv

\* The end of a pickup.
LEMMA SmAfterKeeps ==
  ASSUME SmIndInv, smTail.todo = <<>>, smTail.at \in {"query", "emit"}, smTail' = SmAfter(smTail.mode),
         UNCHANGED <<smAudit, smLast, smSink, smDown, smFrom, smSeen>>
  PROVE  SmIndInv'
<1>1. smTail \in SmTails /\ smTail.mode \in SmModes /\ SmMaxRows \in Nat
  BY SmTailParts DEF SmIndInv
<1>2. CASE smTail.mode = "final"
  <2>1. smTail' = SmEmitting("stop", <<SmStop>>)
    BY <1>2 DEF SmAfter
  <2>2. <<SmStop>> \in Seq(SmEvents) /\ <<SmStop>> # <<>> /\ "stop" \in SmModes
    BY <1>1 DEF SmEvents, SmStop, SmModes
  <2> QED
    BY <1>2, <2>1, <2>2, SmTailLoads
<1>3. CASE smTail.mode = "stop"
  <2> DEFINE t == [smTail EXCEPT !.at = "gone"]
  <2>1. smTail' = t
    BY <1>3 DEF SmAfter
  <2>2. t \in SmTails
    BY <1>1, SmTailRanges DEF SmTails
  <2>3. t.at = "gone" /\ t.mode = smTail.mode /\ t.todo = <<>>
    BY <1>1 DEF SmTails
  <2> HIDE DEF t
  <2> QED
    BY <1>3, <2>1, <2>2, <2>3, SmTailEmpty
<1>4. CASE smTail.mode \in {"boot", "tick"}
  <2> DEFINE t == [smTail EXCEPT !.at = "idle"]
  <2>1. smTail' = t
    BY <1>4 DEF SmAfter
  <2>2. t \in SmTails
    BY <1>1, SmTailRanges DEF SmTails
  <2>3. t.at = "idle" /\ t.mode = smTail.mode /\ t.todo = <<>>
    BY <1>1 DEF SmTails
  <2> HIDE DEF t
  <2> QED
    BY <1>4, <2>1, <2>2, <2>3, SmTailEmpty
<1> QED
  BY <1>1, <1>2, <1>3, <1>4 DEF SmModes

\* Every sink has one turn.
LEMMA SmOrderIs ==
  /\ SmOrder \in [1 .. SmN -> SmSinks]
  /\ \A i, j \in 1 .. SmN : SmOrder[i] = SmOrder[j] => i = j
  /\ \A s \in SmSinks : \E i \in 1 .. SmN : SmOrder[i] = s
<1>1. SmOrder \in Injection(1 .. SmN, SmSinks) /\ SmOrder \in Surjection(1 .. SmN, SmSinks)
  BY SmConstants DEF SmConstants, SmN, Bijection
<1>2. SmOrder \in [1 .. SmN -> SmSinks] /\ \A i, j \in 1 .. SmN : SmOrder[i] = SmOrder[j] => i = j
  BY <1>1 DEF Injection, IsInjective
<1>3. \A s \in SmSinks : \E i \in 1 .. SmN : SmOrder[i] = s
  BY <1>1 DEF Surjection
<1> QED
  BY <1>2, <1>3

\* What is left of a sequence after its head.
LEMMA SmTailOf ==
  ASSUME NEW S, NEW q \in Seq(S), Len(q) >= 1
  PROVE  /\ Tail(q) \in Seq(S) /\ Len(Tail(q)) = Len(q) - 1
         /\ \A i \in 1 .. Len(Tail(q)) : i + 1 \in 1 .. Len(q) /\ Tail(q)[i] = q[i + 1]
  OBVIOUS

\* An event has been through for the sink whose turn it is: given to it if it wants it.
LEMMA SmHandles ==
  ASSUME SmIndInv, smTail.todo # <<>>, smTail.at \in {"emit", "insert"}, SmHandled,
         NEW s, s = SmOrder[smTail.nth], NEW e, e = Head(smTail.todo), NEW X \in SUBSET {e},
         e \in SmWants[s] => X = {e}, smSeen' = [smSeen EXCEPT ![s] = @ \cup X],
         UNCHANGED <<smAudit, smDown, smFrom>>
  PROVE  SmTailOK' /\ SmSeenOK'
<1>1. /\ smTail \in SmTails /\ smTail.mode \in SmModes /\ smTail.todo \in Seq(SmEvents) /\ smTail.nth \in 1 .. SmN
      /\ Len(smTail.todo) \in Nat /\ smAudit \in Nat /\ smFrom \in Nat /\ smLast \in Nat /\ smFrom <= smLast
      /\ smLast <= smAudit /\ smAudit <= SmMaxRows /\ SmMaxRows \in Nat /\ SmN \in Nat
      /\ SmEvents = 0 .. SmMaxRows + 1
  BY SmTailParts DEF SmIndInv
<1>2. /\ s \in SmSinks /\ \A i \in 1 .. SmN : SmOrder[i] \in SmSinks /\ (SmOrder[i] = s => i = smTail.nth)
  BY <1>1, SmOrderIs
<1>3. Len(smTail.todo) >= 1 /\ e = smTail.todo[1] /\ e \in SmEvents /\ e \in Int
  BY <1>1
<1>4. smSeen \in [SmSinks -> SUBSET SmEvents]
  BY DEF SmIndInv, SmSeenOK
<1>5. smSeen' \in [SmSinks -> SUBSET SmEvents]
  BY <1>2, <1>3, <1>4
<1>6. \A i \in 1 .. SmN : smSeen'[SmOrder[i]] = IF i = smTail.nth THEN smSeen[s] \cup X ELSE smSeen[SmOrder[i]]
  BY <1>2, <1>4
<1>7. ASSUME NEW i \in 1 .. SmN, NEW f \in smSeen'[SmOrder[i]]
      PROVE  f \in Int /\ (f < e \/ (f = e /\ (i < smTail.nth \/ i = smTail.nth)))
  <2>1. f \in Int
    BY <1>1, <1>2, <1>5, <1>7
  <2>2. CASE f \in smSeen[SmOrder[i]]
    <3>1. SmReached(f, i)
      BY <2>2 DEF SmIndInv, SmSeenOK
    <3> QED
      BY <2>1, <3>1 DEF SmReached
  <2>3. CASE f \notin smSeen[SmOrder[i]]
    <3>1. i = smTail.nth /\ f \in X
      BY <1>6, <1>7, <2>3
    <3> QED
      BY <2>1, <3>1
  <2> QED
    BY <2>2, <2>3
<1>8. ASSUME NEW i \in 1 .. SmN, NEW r \in SmWants[SmOrder[i]], SmAsked(r, i) \/ (r = e /\ i = smTail.nth)
      PROVE  r \in smSeen'[SmOrder[i]]
  <2>1. smSeen[SmOrder[i]] \subseteq smSeen'[SmOrder[i]]
    BY <1>2, <1>6
  <2>2. CASE SmAsked(r, i)
    BY <2>1, <2>2 DEF SmIndInv, SmSeenOK
  <2>3. CASE r = e /\ i = smTail.nth
    BY <1>6, <2>3
  <2> QED
    BY <1>8, <2>2, <2>3
<1>9. CASE smTail.nth < SmN
  <2> DEFINE t == [smTail EXCEPT !.at = "emit", !.nth = @ + 1]
  <2>1. smTail' = t /\ smLast' = smLast
    BY <1>9 DEF SmHandled, SmN
  <2>2. smTail.nth + 1 \in SmTurns
    BY <1>1, <1>9 DEF SmTurns
  <2>3. t \in SmTails
    BY <1>1, <2>2, SmTailRanges DEF SmTails
  <2>4. t.at = "emit" /\ t.mode = smTail.mode /\ t.todo = smTail.todo /\ t.nth = smTail.nth + 1
    BY <1>1 DEF SmTails
  <2> HIDE DEF t
  <2>5. SmTailOK'
    BY <2>1, <2>3, <2>4 DEF SmIndInv, SmTailOK
  <2>6. ASSUME NEW i \in 1 .. SmN, NEW f \in smSeen'[SmOrder[i]] PROVE SmReached(f, i)'
    <3>1. i < smTail.nth \/ i = smTail.nth => i < smTail.nth + 1
      BY <1>1
    <3> QED
      BY <1>7, <2>1, <2>4, <2>6, <3>1 DEF SmReached
  <2>7. ASSUME NEW i \in 1 .. SmN, NEW r \in SmWants[SmOrder[i]], SmAsked(r, i)' PROVE r \in smSeen'[SmOrder[i]]
    <3>1. i < smTail.nth + 1 => i < smTail.nth \/ i = smTail.nth
      BY <1>1
    <3>2. SmAsked(r, i) \/ (r = e /\ i = smTail.nth)
      BY <2>1, <2>4, <2>7, <3>1 DEF SmAsked
    <3> QED
      BY <1>8, <3>2
  <2>8. SmSeenOK'
    BY <1>5, <2>6, <2>7 DEF SmSeenOK
  <2> QED
    BY <2>5, <2>8
<1>10. CASE ~(smTail.nth < SmN)
  <2>1. smTail.nth = SmN
    BY <1>1, <1>10
  <2> DEFINE t == [smTail EXCEPT !.at = "emit", !.nth = 1, !.todo = Tail(@)]
  <2>2. smTail' = t /\ smLast' = SmAdvance(e)
    BY <1>10 DEF SmHandled, SmN
  <2>3. Tail(smTail.todo) \in SmLists /\ Len(Tail(smTail.todo)) = Len(smTail.todo) - 1
        /\ \A i \in 1 .. Len(Tail(smTail.todo)) : Tail(smTail.todo)[i] = smTail.todo[i + 1]
    BY <1>1, <1>3, SmTailOf DEF SmLists
  <2>4. t \in SmTails
    BY <1>1, <2>3, SmTailRanges DEF SmTails
  <2>5. t.at = "emit" /\ t.mode = smTail.mode /\ t.todo = Tail(smTail.todo) /\ t.nth = 1
    BY <1>1 DEF SmTails
  <2> HIDE DEF t
  <2>6. \A i \in 1 .. SmN : ~(i < 1) /\ (i < smTail.nth \/ i = smTail.nth)
    BY <1>1, <2>1
  <2>7. CASE smTail.mode \in {"boot", "stop"}
    <3>1. smTail.todo = <<e>> /\ e \in {SmStart, SmStop} /\ (smTail.mode = "boot" => e = 0)
      BY <1>3, <2>7 DEF SmIndInv, SmTailOK, SmStart
    <3>2. smTail'.todo = <<>> /\ smLast' = smLast /\ smTail'.mode = smTail.mode /\ smTail'.at = "emit"
      BY <2>2, <2>5, <3>1 DEF SmAdvance
    <3>3. SmTailOK'
      BY <2>2, <2>4, <2>7, <3>2 DEF SmIndInv, SmTailOK
    <3>4. ASSUME NEW i \in 1 .. SmN, NEW f \in smSeen'[SmOrder[i]] PROVE SmReached(f, i)'
      <4>1. CASE smTail.mode = "stop"
        BY <3>2, <4>1 DEF SmReached
      <4>2. CASE smTail.mode = "boot"
        <5>1. f \in Int /\ f <= smLast
          BY <1>1, <1>7, <3>1, <3>4, <4>2
        <5> QED
          BY <3>2, <5>1 DEF SmReached
      <4> QED
        BY <2>7, <4>1, <4>2
    <3>5. ASSUME NEW i \in 1 .. SmN, NEW r \in SmWants[SmOrder[i]], SmAsked(r, i)' PROVE r \in smSeen'[SmOrder[i]]
      <4>1. SmAsked(r, i)
        BY <3>2, <3>5 DEF SmAsked
      <4> QED
        BY <1>8, <4>1
    <3>6. SmSeenOK'
      BY <1>5, <3>4, <3>5 DEF SmSeenOK
    <3> QED
      BY <3>3, <3>6
  <2>8. CASE smTail.mode \in {"tick", "final"}
    <3>1. /\ \A i \in 1 .. Len(smTail.todo) : smTail.todo[i] = smLast + i
          /\ smLast + Len(smTail.todo) <= smAudit
      BY <2>8 DEF SmIndInv, SmTailOK
    <3>2. e = smLast + 1 /\ e <= smAudit
      <4>1. e = smLast + 1
        BY <1>1, <1>3, <3>1
      <4>2. smLast + 1 <= smLast + Len(smTail.todo)
        BY <1>1, <1>3
      <4> HIDE DEF t
      <4> QED
        BY <1>1, <3>1, <4>1, <4>2
    <3>3. smLast' = smLast + 1
      BY <1>1, <2>2, <3>2 DEF SmAdvance, SmStart, SmStop
    <3>4. /\ \A i \in 1 .. Len(smTail'.todo) : smTail'.todo[i] = smLast' + i
          /\ smLast' + Len(smTail'.todo) <= smAudit /\ smTail'.mode = smTail.mode /\ smTail'.at = "emit"
      <4> DEFINE rest == Tail(smTail.todo)
      <4>1. smTail'.todo = rest /\ smTail'.mode = smTail.mode /\ smTail'.at = "emit"
        BY <2>2, <2>5
      <4>2. \A i \in 1 .. Len(rest) : i + 1 \in 1 .. Len(smTail.todo) /\ rest[i] = smTail.todo[i + 1]
        BY <1>1, <1>3, SmTailOf
      <4>3. Len(rest) = Len(smTail.todo) - 1
        BY <2>3
      <4> HIDE DEF rest
      <4>4. \A i \in 1 .. Len(rest) : rest[i] = smLast + 1 + i
        <5> SUFFICES ASSUME NEW i \in 1 .. Len(rest) PROVE rest[i] = smLast + 1 + i
          OBVIOUS
        <5>1. rest[i] = smLast + (i + 1)
          BY <3>1, <4>2
        <5> QED
          BY <1>1, <5>1
      <4>5. smLast + 1 + Len(rest) <= smAudit
        <5>1. \A l, n, a \in Int : l + n <= a => l + 1 + (n - 1) <= a
          OBVIOUS
        <5>2. smLast \in Int /\ Len(smTail.todo) \in Int /\ smAudit \in Int /\ smLast + Len(smTail.todo) <= smAudit
          BY <1>1, <3>1
        <5>3. smLast + 1 + (Len(smTail.todo) - 1) <= smAudit
          BY <5>1, <5>2, Zenon
        <5> QED
          BY <4>3, <5>3, Zenon
      <4> QED
        BY <3>3, <4>1, <4>4, <4>5
    <3>5. smLast' \in smFrom .. smAudit
      BY <1>1, <3>2, <3>3
    <3>6. SmTailOK'
      BY <2>2, <2>4, <2>8, <3>4, <3>5 DEF SmIndInv, SmTailOK
    <3>7. smTail'.todo # <<>> => Head(smTail'.todo) = smLast + 2
      <4> SUFFICES ASSUME smTail'.todo # <<>> PROVE Head(smTail'.todo) = smLast + 2
        OBVIOUS
      <4>1. smTail'.todo \in Seq(SmEvents) /\ Len(smTail'.todo) >= 1 /\ Head(smTail'.todo) = smTail'.todo[1]
        BY <2>2, <2>3, <2>5 DEF SmLists
      <4> QED
        BY <1>1, <3>3, <3>4, <4>1
    <3>8. ASSUME NEW i \in 1 .. SmN, NEW f \in smSeen'[SmOrder[i]] PROVE SmReached(f, i)'
      <4>0. f \in Int /\ (f < e \/ (f = e /\ (i < smTail.nth \/ i = smTail.nth)))
        BY <1>7, <3>8, Zenon
      <4>1. f \in Int /\ f <= smLast + 1
        BY <1>1, <3>2, <4>0
      <4>2. f < smLast + 2
        BY <1>1, <4>1
      <4> QED
        BY <3>3, <3>7, <4>1, <4>2 DEF SmReached
    <3>9. ASSUME NEW i \in 1 .. SmN, NEW r \in SmWants[SmOrder[i]], SmAsked(r, i)' PROVE r \in smSeen'[SmOrder[i]]
      <4>1. r \in smFrom + 1 .. smLast + 1
        BY <2>2, <2>5, <2>6, <3>3, <3>9 DEF SmAsked
      <4>2. r \in smFrom + 1 .. smLast \/ r = e
        BY <1>1, <3>2, <4>1
      <4>3. r = e => SmAsked(r, i) \/ i = smTail.nth
        BY <2>6, <2>8 DEF SmAsked
      <4> QED
        BY <1>8, <4>2, <4>3 DEF SmAsked
    <3>10. SmSeenOK'
      BY <1>5, <3>8, <3>9 DEF SmSeenOK
    <3> QED
      BY <3>6, <3>10
  <2> QED
    BY <1>1, <2>7, <2>8 DEF SmModes
<1> QED
  BY <1>9, <1>10

\* One sink's queue changes, with what it was given or refused.
LEMMA SmQueueStep ==
  ASSUME SmIndInv, NEW s \in SmSinks, NEW w, NEW S, smSink' = [smSink EXCEPT ![s] = w],
         smSeen' = [smSeen EXCEPT ![s] = S], SmWorkerOK(w), SmLine(w.q, w.cur, w.out, w.drops, S)
  PROVE  SmSinksOK'
<1>1. /\ smSink' = [t \in SmSinks |-> smSink'[t]] /\ \A t \in SmSinks : smSink'[t] = IF t = s THEN w ELSE smSink[t]
  BY DEF SmIndInv, SmSinksOK
<1>2. \A t \in SmSinks : smSeen'[t] = IF t = s THEN S ELSE smSeen[t]
  BY DEF SmIndInv, SmSeenOK
<1> SUFFICES ASSUME NEW t \in SmSinks
             PROVE  /\ SmWorkerOK(smSink'[t])
                    /\ SmLine(smSink'[t].q, smSink'[t].cur, smSink'[t].out, smSink'[t].drops, smSeen'[t])
  BY <1>1 DEF SmSinksOK
<1>3. CASE t = s
  BY <1>1, <1>2, <1>3
<1>4. CASE t # s
  <2>1. smSink'[t] = smSink[t] /\ smSeen'[t] = smSeen[t]
    BY <1>1, <1>2, <1>4
  <2> QED
    BY <2>1 DEF SmIndInv, SmSinksOK
<1> QED
  BY <1>3, <1>4

\* The queue a sink is offered the next event with.
LEMMA SmOffered ==
  ASSUME SmIndInv, smTail.todo # <<>>, NEW s, s = SmOrder[smTail.nth], NEW e, e = Head(smTail.todo), NEW w, w = smSink[s]
  PROVE  /\ s \in SmSinks /\ e \in SmEvents /\ \A x \in smSeen[s] : x <= e
         /\ SmWorkerOK(w) /\ SmLine(w.q, w.cur, w.out, w.drops, smSeen[s])
<1>1. smTail.nth \in 1 .. SmN /\ smTail.todo \in Seq(SmEvents) /\ SmEvents = 0 .. SmMaxRows + 1 /\ SmMaxRows \in Nat
  BY SmTailParts DEF SmIndInv
<1>2. s \in SmSinks
  BY <1>1, SmOrderIs
<1>3. e \in SmEvents /\ e \in Int
  BY <1>1
<1>4. ASSUME NEW x \in smSeen[s] PROVE x <= e
  <2>1. x \in Int
    BY <1>1, <1>2 DEF SmIndInv, SmSeenOK
  <2>2. SmReached(x, smTail.nth)
    BY <1>1 DEF SmIndInv, SmSeenOK
  <2> QED
    BY <1>3, <2>1, <2>2 DEF SmReached
<1> QED
  BY <1>2, <1>3, <1>4 DEF SmIndInv, SmSinksOK

\* The event joins the sink's queue.
LEMMA SmJoins ==
  ASSUME SmIndInv, smTail.todo # <<>>, NEW s, s = SmOrder[smTail.nth], NEW e, e = Head(smTail.todo), NEW w, w = smSink[s],
         Len(w.q) < SmQueue, smSink' = [smSink EXCEPT ![s] = [w EXCEPT !.q = Append(@, e)]],
         smSeen' = [smSeen EXCEPT ![s] = @ \cup {e}]
  PROVE  SmSinksOK'
<1>1. /\ s \in SmSinks /\ e \in SmEvents /\ \A x \in smSeen[s] : x <= e
      /\ SmWorkerOK(w) /\ SmLine(w.q, w.cur, w.out, w.drops, smSeen[s])
  BY SmOffered
<1>2. /\ w \in SmWorkers /\ w.q \in Seq(SmEvents) /\ Len(w.q) \in Nat
      /\ (w.at \in {"deliver", "wait"} => Len(w.cur) = 1) /\ (w.at \notin {"deliver", "wait"} => w.cur = <<>>)
  BY <1>1, SmWorkerParts
<1>3. Append(w.q, e) \in SmLists /\ Len(Append(w.q, e)) <= SmQueue
  <2>1. SmQueue \in Nat
    BY SmConstants DEF SmConstants
  <2>2. Append(w.q, e) \in Seq(SmEvents) /\ Len(Append(w.q, e)) = Len(w.q) + 1
    BY <1>1, <1>2, SmRangeAppend
  <2> QED
    BY <1>2, <2>1, <2>2 DEF SmLists
<1> DEFINE x == [w EXCEPT !.q = Append(@, e)]
<1>4. x \in SmWorkers
  BY <1>2, <1>3 DEF SmWorkers
<1>5. x.at = w.at /\ x.q = Append(w.q, e) /\ x.cur = w.cur /\ x.out = w.out /\ x.drops = w.drops
  BY <1>2 DEF SmWorkers
<1>6. smSink' = [smSink EXCEPT ![s] = x]
  OBVIOUS
<1> HIDE DEF x
<1>7. SmWorkerOK(x)
  BY <1>2, <1>3, <1>4, <1>5 DEF SmWorkerOK
<1>8. SmLine(x.q, x.cur, x.out, x.drops, smSeen[s] \cup {e})
  <2>1. SmLine(Append(w.q, e), w.cur, w.out, w.drops, smSeen[s] \cup {e})
    BY <1>1, SmLineQueue
  <2> QED
    BY <1>5, <2>1
<1>9. smSeen' = [smSeen EXCEPT ![s] = smSeen[s] \cup {e}]
  OBVIOUS
<1> QED
  BY <1>1, <1>6, <1>7, <1>8, <1>9, SmQueueStep

\* A full queue refuses the event.
LEMMA SmRefuses ==
  ASSUME SmIndInv, smTail.todo # <<>>, NEW s, s = SmOrder[smTail.nth], NEW e, e = Head(smTail.todo), NEW w, w = smSink[s],
         smSink' = [smSink EXCEPT ![s] = [w EXCEPT !.drops = @ + 1]],
         smSeen' = [smSeen EXCEPT ![s] = @ \cup {e}]
  PROVE  SmSinksOK'
<1>1. /\ s \in SmSinks /\ e \in SmEvents /\ \A x \in smSeen[s] : x <= e
      /\ SmWorkerOK(w) /\ SmLine(w.q, w.cur, w.out, w.drops, smSeen[s])
  BY SmOffered
<1>2. /\ w \in SmWorkers /\ w.drops \in Nat /\ Len(w.q) <= SmQueue
      /\ (w.at \in {"deliver", "wait"} => Len(w.cur) = 1) /\ (w.at \notin {"deliver", "wait"} => w.cur = <<>>)
  BY <1>1, SmWorkerParts
<1>3. w.drops + 1 \in SmCounts
  BY <1>2 DEF SmCounts
<1> DEFINE x == [w EXCEPT !.drops = @ + 1]
<1>4. x \in SmWorkers
  BY <1>2, <1>3 DEF SmWorkers
<1>5. x.at = w.at /\ x.q = w.q /\ x.cur = w.cur /\ x.out = w.out /\ x.drops = w.drops + 1
  BY <1>2 DEF SmWorkers
<1>6. smSink' = [smSink EXCEPT ![s] = x]
  OBVIOUS
<1> HIDE DEF x
<1>7. SmWorkerOK(x)
  BY <1>2, <1>4, <1>5 DEF SmWorkerOK
<1>8. SmLine(x.q, x.cur, x.out, x.drops, smSeen[s] \cup {e})
  <2>1. SmLine(w.q, w.cur, w.out, w.drops + 1, smSeen[s] \cup {e})
    BY <1>1, SmLineRefuse
  <2> QED
    BY <1>5, <2>1
<1>9. smSeen' = [smSeen EXCEPT ![s] = smSeen[s] \cup {e}]
  OBVIOUS
<1> QED
  BY <1>1, <1>6, <1>7, <1>8, <1>9, SmQueueStep

\* The oldest event makes room, unless the worker was faster.
LEMMA SmEvicts ==
  ASSUME SmIndInv, smTail.todo # <<>>, NEW s, s = SmOrder[smTail.nth],
         smSink' = [smSink EXCEPT ![s] = SmEvicted(@)], smSeen' = smSeen
  PROVE  SmSinksOK'
<1>1. PICK w : w = smSink[s]
  OBVIOUS
<1>2. s \in SmSinks /\ SmWorkerOK(w) /\ SmLine(w.q, w.cur, w.out, w.drops, smSeen[s])
  BY <1>1, SmOffered
<1>3. /\ w \in SmWorkers /\ w.q \in Seq(SmEvents) /\ w.drops \in Nat /\ Len(w.q) <= SmQueue /\ Len(w.q) \in Nat
      /\ (w.at \in {"deliver", "wait"} => Len(w.cur) = 1) /\ (w.at \notin {"deliver", "wait"} => w.cur = <<>>)
  BY <1>2, SmWorkerParts
<1>4. smSeen' = [smSeen EXCEPT ![s] = smSeen[s]]
  BY <1>2 DEF SmIndInv, SmSeenOK
<1>5. CASE w.q = <<>>
  <2>1. smSink' = [smSink EXCEPT ![s] = w]
    BY <1>1, <1>5 DEF SmEvicted
  <2> QED
    BY <1>2, <1>4, <2>1, SmQueueStep
<1>6. CASE w.q # <<>>
  <2> DEFINE x == [w EXCEPT !.q = Tail(@), !.drops = @ + 1]
  <2>1. smSink' = [smSink EXCEPT ![s] = x]
    BY <1>1, <1>6 DEF SmEvicted
  <2>2. SmLine(Tail(w.q), w.cur, w.out, w.drops + 1, smSeen[s]) /\ w.drops + 1 \in SmCounts
    BY <1>2, <1>3, <1>6, SmLineDrop DEF SmCounts
  <2>3. Tail(w.q) \in SmLists /\ Len(Tail(w.q)) <= SmQueue
    <3>1. Tail(w.q) \in Seq(SmEvents) /\ Len(Tail(w.q)) = Len(w.q) - 1 /\ SmQueue \in Nat
      BY <1>3, <1>6, SmRangeTail, SmConstants DEF SmConstants
    <3> QED
      BY <1>3, <3>1 DEF SmLists
  <2>4. x \in SmWorkers
    BY <1>3, <2>2, <2>3 DEF SmWorkers
  <2>5. x.at = w.at /\ x.q = Tail(w.q) /\ x.cur = w.cur /\ x.out = w.out /\ x.drops = w.drops + 1
    BY <1>3 DEF SmWorkers
  <2> HIDE DEF x
  <2>6. SmWorkerOK(x)
    BY <1>3, <2>3, <2>4, <2>5 DEF SmWorkerOK
  <2>7. SmLine(x.q, x.cur, x.out, x.drops, smSeen[s])
    BY <2>2, <2>5
  <2> QED
    BY <1>2, <1>4, <2>1, <2>6, <2>7, SmQueueStep
<1> QED
  BY <1>5, <1>6

\* The tail between two tries of a full queue.
LEMMA SmTurnStays ==
  ASSUME SmIndInv, smTail.todo # <<>>, NEW at \in {"evict", "insert"}, smTail' = [smTail EXCEPT !.at = at],
         UNCHANGED <<smAudit, smLast, smDown, smFrom, smSeen>>
  PROVE  SmTailOK' /\ SmSeenOK'
<1>1. smTail \in SmTails
  BY DEF SmIndInv, SmTailOK
<1>2. smTail' \in SmTails
  BY <1>1, SmTailRanges DEF SmTails
<1>3. smTail'.at = at /\ smTail'.mode = smTail.mode /\ smTail'.todo = smTail.todo /\ smTail'.nth = smTail.nth
  BY <1>1 DEF SmTails
<1>4. SmTailOK'
  BY <1>2, <1>3 DEF SmIndInv, SmTailOK
<1>5. SmSeenOK'
  BY <1>3 DEF SmIndInv, SmSeenOK, SmReached, SmAsked
<1> QED
  BY <1>4, <1>5

\* No step of the tail breaks the account, the order, or the rows' coverage.
LEMMA SmTailKeeps == ASSUME SmIndInv, SmTailStep PROVE SmIndInv'
<1>1. /\ smTail \in SmTails /\ smTail.mode \in SmModes /\ smTail.todo \in Seq(SmEvents) /\ smTail.nth \in 1 .. SmN
      /\ smAudit \in Nat /\ smFrom \in Nat /\ smLast \in Nat /\ smFrom <= smLast
      /\ smLast <= smAudit /\ smAudit <= SmMaxRows /\ SmMaxRows \in Nat /\ SmEvents = 0 .. SmMaxRows + 1
  BY SmTailParts DEF SmIndInv
<1>2. CASE SmBoot
  <2>1. /\ smTail.todo = <<>> /\ smTail.mode = "boot" /\ \A s \in SmSinks : smSeen[s] = {}
        /\ smTail' = SmEmitting("boot", <<SmStart>>) /\ smLast' \in {smAudit, 0} /\ smFrom' = smLast'
        /\ UNCHANGED <<smAudit, smSink, smDown, smSeen>>
    BY <1>2 DEF SmBoot, SmIndInv, SmTailOK
  <2>2. SmSinksOK'
    BY <2>1 DEF SmIndInv, SmSinksOK
  <2>3. <<SmStart>> \in Seq(SmEvents) /\ <<SmStart>> # <<>> /\ Head(<<SmStart>>) = 0
    BY <1>1 DEF SmStart
  <2>4. smTail'.at = "emit" /\ smTail'.mode = "boot" /\ smTail'.todo = <<SmStart>> /\ smTail'.nth = 1
    BY <2>1 DEF SmEmitting
  <2>5. smTail' \in SmTails
    <3>1. (Len(<<SmStart>>) = SmBatch) \in BOOLEAN /\ <<SmStart>> \in SmLists
      BY <2>3 DEF SmLists
    <3> QED
      BY <2>1, <3>1, SmTailRanges DEF SmEmitting, SmTails
  <2>6. smFrom' \in Nat /\ smLast' \in smFrom' .. smAudit'
    BY <1>1, <2>1
  <2>7. SmTailOK'
    BY <2>1, <2>4, <2>5, <2>6 DEF SmIndInv, SmTailOK
  <2>8. SmSeenOK'
    <3>1. ASSUME NEW i \in 1 .. SmN, NEW r, SmAsked(r, i)' PROVE FALSE
      <4>1. r \in smFrom' + 1 .. smLast'
        BY <2>4, <3>1 DEF SmAsked
      <4>2. smFrom' \in Int /\ smLast' = smFrom'
        BY <2>1, <2>6
      <4>3. \A n \in Int : n + 1 .. n = {}
        OBVIOUS
      <4> QED
        BY <4>1, <4>2, <4>3, Zenon
    <3>2. \A i \in 1 .. SmN : smSeen'[SmOrder[i]] = {}
      BY <2>1, SmOrderIs
    <3>3. smSeen' \in [SmSinks -> SUBSET SmEvents]
      BY <2>1 DEF SmIndInv, SmSeenOK
    <3> QED
      BY <3>1, <3>2, <3>3 DEF SmSeenOK
  <2> QED
    BY <2>2, <2>7, <2>8 DEF SmIndInv
<1>3. CASE SmTick
  <2>1. smTail.at = "idle" /\ smTail.todo = <<>> /\ smTail.mode # "stop"
        /\ UNCHANGED <<smAudit, smLast, smSink, smDown, smFrom, smSeen>>
    BY <1>3 DEF SmTick, SmIndInv, SmTailOK
  <2>2. PICK mode \in {"tick", "final"} : smTail' = [smTail EXCEPT !.at = "query", !.mode = mode]
    BY <1>3 DEF SmTick
  <2> DEFINE t == [smTail EXCEPT !.at = "query", !.mode = mode]
  <2>3. t \in SmTails
    <3>1. mode \in SmModes
      BY DEF SmModes
    <3> QED
      BY <1>1, <3>1, SmTailRanges DEF SmTails
  <2>4. t.at = "query" /\ t.mode = mode /\ t.todo = <<>>
    BY <1>1, <2>1 DEF SmTails
  <2>5. smTail' = t
    BY <2>2
  <2> HIDE DEF t
  <2> QED
    BY <2>1, <2>3, <2>4, <2>5, SmTailEmpty
<1>4. CASE SmQueried
  <2> DEFINE k == IF smAudit - smLast < SmBatch THEN smAudit - smLast ELSE SmBatch
             rows == [i \in 1 .. k |-> smLast + i]
  <2>1. /\ smTail.at = "query" /\ smTail.todo = <<>> /\ smTail.mode \in {"tick", "final"}
        /\ smTail' = IF rows = <<>> THEN SmAfter(smTail.mode) ELSE SmEmitting(smTail.mode, rows)
        /\ UNCHANGED <<smAudit, smLast, smSink, smDown, smFrom, smSeen>>
    BY <1>4 DEF SmQueried, SmIndInv, SmTailOK
  <2>2. k \in Nat /\ smLast + k <= smAudit
    BY <1>1, SmConstants DEF SmConstants
  <2> HIDE DEF k
  <2>3. rows \in Seq(SmEvents) /\ Len(rows) = k /\ \A i \in 1 .. Len(rows) : rows[i] = smLast + i
    <3>1. \A i \in 1 .. k : smLast + i \in SmEvents
      BY <1>1, <2>2
    <3> QED
      BY <2>2, <3>1
  <2> HIDE DEF rows
  <2>4. CASE rows = <<>>
    BY <2>1, <2>4, SmAfterKeeps
  <2>5. CASE rows # <<>>
    <3>1. smTail' = SmEmitting(smTail.mode, rows) /\ smTail.mode # "stop" /\ smTail.mode # "boot" /\ smTail.at # "boot"
      BY <2>1, <2>5
    <3>2. (\A i \in 1 .. Len(rows) : rows[i] = smLast + i) /\ smLast + Len(rows) <= smAudit
      BY <2>2, <2>3
    <3> QED
      BY <1>1, <2>1, <2>3, <2>5, <3>1, <3>2, SmTailLoads
  <2> QED
    BY <2>4, <2>5
<1>5. CASE SmQueryFails
  <2>1. /\ smTail.at = "query" /\ smTail.todo = <<>> /\ smTail' = SmAfter(smTail.mode)
        /\ UNCHANGED <<smAudit, smLast, smSink, smDown, smFrom, smSeen>>
    BY <1>5 DEF SmQueryFails, SmIndInv, SmTailOK
  <2> QED
    BY <2>1, SmAfterKeeps
<1>6. CASE SmEmit
  <2> DEFINE e == Head(smTail.todo)
             s == SmOrder[smTail.nth]
             w == smSink[s]
  <2>0. /\ smTail.at = "emit" /\ smTail.todo # <<>> /\ UNCHANGED <<smAudit, smDown, smFrom>>
        /\ \/ e \notin SmWants[s] /\ SmHandled /\ UNCHANGED <<smSink, smSeen>>
           \/ /\ e \in SmWants[s] /\ Len(w.q) < SmQueue
              /\ smSink' = [smSink EXCEPT ![s] = [w EXCEPT !.q = Append(@, e)]]
              /\ smSeen' = [smSeen EXCEPT ![s] = @ \cup {e}] /\ SmHandled
           \/ smTail' = [smTail EXCEPT !.at = "evict"] /\ UNCHANGED <<smSink, smLast, smSeen>>
    BY <1>6 DEF SmEmit
  <2>1. CASE e \notin SmWants[s] /\ SmHandled /\ UNCHANGED <<smSink, smSeen>>
    <3>1. SmSinksOK'
      BY <2>1 DEF SmIndInv, SmSinksOK
    <3>2. smSeen' = [smSeen EXCEPT ![s] = @ \cup {}]
      <4>1. smSeen[s] \cup {} = smSeen[s]
        OBVIOUS
      <4>2. [smSeen EXCEPT ![s] = smSeen[s]] = smSeen
        BY DEF SmIndInv, SmSeenOK
      <4> QED
        BY <2>1, <4>1, <4>2
    <3>3. {} \in SUBSET {e} /\ smTail.at \in {"emit", "insert"}
      BY <2>0
    <3> HIDE DEF e, s
    <3>4. SmTailOK' /\ SmSeenOK'
      BY <2>0, <2>1, <3>2, <3>3, SmHandles DEF e, s
    <3> QED
      BY <3>1, <3>4 DEF SmIndInv
  <2>2. CASE /\ e \in SmWants[s] /\ Len(w.q) < SmQueue
             /\ smSink' = [smSink EXCEPT ![s] = [w EXCEPT !.q = Append(@, e)]]
             /\ smSeen' = [smSeen EXCEPT ![s] = @ \cup {e}] /\ SmHandled
    <3>1. SmSinksOK'
      BY <2>0, <2>2, SmJoins
    <3>2. {e} \in SUBSET {e} /\ smTail.at \in {"emit", "insert"}
      BY <2>0
    <3>3. SmTailOK' /\ SmSeenOK'
      BY <2>0, <2>2, <3>2, SmHandles
    <3> QED
      BY <3>1, <3>3 DEF SmIndInv
  <2>3. CASE smTail' = [smTail EXCEPT !.at = "evict"] /\ UNCHANGED <<smSink, smLast, smSeen>>
    <3>1. SmSinksOK'
      BY <2>3 DEF SmIndInv, SmSinksOK
    <3>2. SmTailOK' /\ SmSeenOK'
      BY <2>0, <2>3, SmTurnStays
    <3> QED
      BY <3>1, <3>2 DEF SmIndInv
  <2> QED
    BY <2>0, <2>1, <2>2, <2>3
<1>7. CASE SmEvict
  <2>1. /\ smTail.at = "evict" /\ smTail.todo # <<>> /\ smTail' = [smTail EXCEPT !.at = "insert"]
        /\ smSink' = [smSink EXCEPT ![SmOrder[smTail.nth]] = SmEvicted(@)]
        /\ UNCHANGED <<smAudit, smLast, smDown, smFrom, smSeen>>
    BY <1>7 DEF SmEvict, SmIndInv, SmTailOK
  <2>2. SmSinksOK'
    BY <2>1, SmEvicts
  <2>3. SmTailOK' /\ SmSeenOK'
    BY <2>1, SmTurnStays
  <2> QED
    BY <2>2, <2>3 DEF SmIndInv
<1>8. CASE SmInsert
  <2> DEFINE e == Head(smTail.todo)
             s == SmOrder[smTail.nth]
             w == smSink[s]
  <2>0. /\ smTail.at = "insert" /\ UNCHANGED <<smAudit, smDown, smFrom>> /\ SmHandled
        /\ smSeen' = [smSeen EXCEPT ![s] = @ \cup {e}]
        /\ smSink' = [smSink EXCEPT ![s] = SmInserted(w, e)]
    BY <1>8 DEF SmInsert
  <2>1. smTail.todo # <<>>
    BY <2>0 DEF SmIndInv, SmTailOK
  <2>2. SmSinksOK'
    <3>1. CASE Len(w.q) < SmQueue
      BY <2>0, <2>1, <3>1, SmJoins DEF SmInserted
    <3>2. CASE ~(Len(w.q) < SmQueue)
      BY <2>0, <2>1, <3>2, SmRefuses DEF SmInserted
    <3> QED
      BY <3>1, <3>2
  <2>3. {e} \in SUBSET {e} /\ smTail.at \in {"emit", "insert"}
    BY <2>0
  <2>4. SmTailOK' /\ SmSeenOK'
    BY <2>0, <2>1, <2>3, SmHandles
  <2> QED
    BY <2>2, <2>4 DEF SmIndInv
<1>9. CASE SmEmitted
  <2>1. /\ smTail.at = "emit" /\ smTail.todo = <<>> /\ UNCHANGED <<smAudit, smLast, smSink, smDown, smFrom, smSeen>>
        /\ \/ smTail.mode \in {"tick", "final"} /\ smTail' = [smTail EXCEPT !.at = "query"]
           \/ smTail' = SmAfter(smTail.mode)
    BY <1>9 DEF SmEmitted
  <2>2. CASE smTail' = SmAfter(smTail.mode)
    BY <2>1, <2>2, SmAfterKeeps
  <2>3. CASE smTail.mode \in {"tick", "final"} /\ smTail' = [smTail EXCEPT !.at = "query"]
    <3> DEFINE t == [smTail EXCEPT !.at = "query"]
    <3>1. t \in SmTails
      BY <1>1, SmTailRanges DEF SmTails
    <3>2. t.at = "query" /\ t.mode = smTail.mode /\ t.todo = <<>>
      BY <1>1, <2>1 DEF SmTails
    <3>3. smTail' = t /\ smTail.at # "boot" /\ smTail.mode # "stop"
      BY <2>1, <2>3
    <3> HIDE DEF t
    <3> QED
      BY <2>1, <2>3, <3>1, <3>2, <3>3, SmTailEmpty
  <2> QED
    BY <2>1, <2>2, <2>3
<1> QED
  BY <1>2, <1>3, <1>4, <1>5, <1>6, <1>7, <1>8, <1>9 DEF SmTailStep

\* The first state.
LEMMA SmInitially == SmInit => SmIndInv
<1> SUFFICES ASSUME SmInit PROVE SmIndInv
  OBVIOUS
<1> DEFINE w == [at |-> "idle", q |-> <<>>, cur |-> <<>>, backoff |-> 0, drops |-> 0, out |-> <<>>]
<1>1. /\ smAudit = SmPrior /\ smLast = 0 /\ smFrom = 0 /\ smDown = "up" /\ smSeen = [s \in SmSinks |-> {}]
      /\ smTail = [at |-> "boot", mode |-> "boot", todo |-> <<>>, nth |-> 1, full |-> FALSE]
      /\ smSink = [s \in SmSinks |-> w]
  BY DEF SmInit
<1>2. SmPrior \in 0 .. SmMaxRows /\ SmMaxRows \in Nat /\ SmQueue \in Nat
  BY SmConstants DEF SmConstants
<1>3. SmWorkerOK(w)
  <2>1. w \in SmWorkers
    <3>1. "idle" \in SmAts /\ <<>> \in SmLists /\ 0 \in SmDelays /\ 0 \in SmCounts
      BY SmRanges
    <3> QED
      BY <3>1 DEF SmWorkers
  <2> QED
    BY <1>2, <2>1 DEF SmWorkerOK
<1>4. SmLine(<<>>, <<>>, <<>>, 0, {})
  <2>1. {} \ (Range(<<>>) \cup Range(<<>>) \cup Range(<<>>)) = {} /\ Range(<<>>) = {}
    BY SmRangeNone
  <2>2. Cardinality({}) = 0
    BY FS_EmptySet
  <2>3. <<>> \in Seq(SmEvents) /\ SmSorted(<<>>)
    BY DEF SmSorted
  <2> QED
    BY <2>1, <2>2, <2>3 DEF SmLine
<1>5. SmSinksOK
  <2>1. \A s \in SmSinks : smSink[s] = w /\ smSeen[s] = {}
    BY <1>1
  <2>2. smSink = [s \in SmSinks |-> smSink[s]]
    BY <1>1
  <2>3. w.q = <<>> /\ w.cur = <<>> /\ w.out = <<>> /\ w.drops = 0
    OBVIOUS
  <2> HIDE DEF w
  <2> QED
    BY <1>3, <1>4, <2>1, <2>2, <2>3 DEF SmSinksOK
<1>6. SmTailOK
  <2>1. smTail \in SmTails
    <3>1. "boot" \in SmTailAts
      BY DEF SmTailAts
    <3> QED
      BY <1>1, <3>1, SmTailRanges DEF SmTails
  <2>2. smTail.at = "boot" /\ smTail.mode = "boot" /\ smTail.todo = <<>>
    BY <1>1
  <2>3. smAudit \in SmPrior .. SmMaxRows /\ smFrom \in Nat /\ smLast \in smFrom .. smAudit
    BY <1>1, <1>2
  <2> QED
    BY <1>1, <2>1, <2>2, <2>3 DEF SmTailOK
<1>7. SmSeenOK
  <2>1. smSeen \in [SmSinks -> SUBSET SmEvents] /\ \A i \in 1 .. SmN : smSeen[SmOrder[i]] = {}
    BY <1>1, SmOrderIs
  <2>2. \A r, i : ~SmAsked(r, i)
    BY <1>1 DEF SmAsked
  <2> QED
    BY <2>1, <2>2 DEF SmSeenOK
<1> QED
  BY <1>5, <1>6, <1>7 DEF SmIndInv

\* The forwarder's inductive invariant, for any sinks, filters, queues and batches.
THEOREM SmInvariant == SmSpec => []SmIndInv
<1>1. ASSUME SmIndInv, [SmNext]_smVars PROVE SmIndInv'
  <2>1. CASE SmAction
    <3>1. /\ smAudit < SmMaxRows /\ smAudit' = smAudit + 1
          /\ UNCHANGED <<smLast, smTail, smSink, smDown, smFrom, smSeen>>
      BY <2>1 DEF SmAction
    <3>2. smAudit' \in SmPrior .. SmMaxRows /\ smLast \in smFrom .. smAudit' /\ smAudit <= smAudit'
      <4>1. smAudit \in SmPrior .. SmMaxRows /\ smLast \in smFrom .. smAudit /\ SmPrior \in Int /\ SmMaxRows \in Int /\ smFrom \in Int
        BY <1>1, SmConstants DEF SmConstants, SmIndInv, SmTailOK
      <4> QED
        BY <3>1, <4>1
    <3>3. smLast + Len(smTail.todo) <= smAudit => smLast + Len(smTail.todo) <= smAudit'
      <4>1. smLast \in Int /\ smAudit \in Int /\ Len(smTail.todo) \in Int /\ smAudit' = smAudit + 1
        BY <1>1, <3>1, SmTailParts DEF SmIndInv
      <4> QED
        BY <4>1
    <3>4. SmTailOK'
      BY <1>1, <3>1, <3>2, <3>3 DEF SmIndInv, SmTailOK
    <3> QED
      BY <1>1, <3>1, <3>4 DEF SmIndInv, SmSinksOK, SmSeenOK, SmReached, SmAsked
  <2>2. CASE SmTailStep
    BY <1>1, <2>2, SmTailKeeps
  <2>3. CASE SmCancelled \/ SmExit
    <3>1. smDown' \in {"daemon", "all", "exit"} /\ UNCHANGED <<smAudit, smLast, smTail, smSink, smFrom, smSeen>>
      BY <2>3 DEF SmCancelled, SmExit
    <3> QED
      BY <1>1, <3>1 DEF SmIndInv, SmTailOK, SmSinksOK, SmSeenOK, SmReached, SmAsked
  <2>4. CASE \E s \in SmSinks : SmWorker(s) \/ SmWriteFails(s)
    BY <1>1, <2>4, SmWorkersKeep
  <2>5. CASE UNCHANGED smVars
    BY <1>1, <2>5 DEF smVars, SmIndInv, SmTailOK, SmSinksOK, SmSeenOK, SmReached, SmAsked
  <2> QED
    BY <1>1, <2>1, <2>2, <2>3, <2>4, <2>5 DEF SmNext
<1> QED
  BY <1>1, SmInitially, PTL DEF SmSpec

\* Whatever the queues, the sinks' failures and the shutdown do: every event a sink was given
\* is delivered, waiting or counted, in the log's order, and the tail skips no row.
THEOREM SmForwards == SmSpec => []SmInv
<1>1. SmIndInv => SmInv
  <2> SUFFICES ASSUME SmIndInv PROVE SmInv
    OBVIOUS
  <2>1. SmConserved
    BY DEF SmIndInv, SmSinksOK, SmLine, SmConserved
  <2>2. SmInOrder
    BY DEF SmIndInv, SmSinksOK, SmLine, SmSorted, SmInOrder
  <2>3. SmNoRowSkipped
    <3> SUFFICES ASSUME NEW s \in SmSinks, NEW r \in smFrom + 1 .. smLast, r \in SmWants[s] PROVE r \in smSeen[s]
      BY DEF SmNoRowSkipped
    <3>1. PICK i \in 1 .. SmN : SmOrder[i] = s
      BY SmOrderIs
    <3>2. SmAsked(r, i)
      BY DEF SmAsked
    <3> QED
      BY <3>1, <3>2 DEF SmIndInv, SmSeenOK
  <2>4. SmTypeOK
    <3>1. \A s \in SmSinks : /\ smSink[s].at \in {"idle", "deliver", "wait", "flush", "gone"}
                             /\ Len(smSink[s].q) <= SmQueue /\ smSink[s].backoff \in 0 .. SmMaxBackoff
      BY SmWorkerParts DEF SmIndInv, SmSinksOK, SmAts
    <3>2. \A s \in SmSinks : Range(smSink[s].out) \subseteq smSeen[s]
      BY DEF SmIndInv, SmSinksOK, SmLine
    <3>3. smTail.nth \in DOMAIN SmOrder /\ smTail.at \in {"boot", "idle", "query", "emit", "evict", "insert", "gone"}
      BY SmTailParts, SmOrderIs DEF SmIndInv, SmTailAts
    <3> QED
      BY <3>1, <3>2, <3>3 DEF SmTypeOK, SmIndInv, SmTailOK
  <2> QED
    BY <2>1, <2>2, <2>3, <2>4 DEF SmInv
<1> QED
  BY <1>1, SmInvariant, PTL

---------------------------------------------------------------------------
(* Notifications. NtSafe is not inductive: that a window is never taken     *)
(* twice rests on what every claim under way is to the stamp (NtClaimOK),   *)
(* that a release does not reopen a window early on the same, and that an   *)
(* owed alert was told on what a critical send has met at every channel it  *)
(* has passed (NtReachedOK) and on where the alert still is (NtOwedOK).     *)

\* What a goroutine has left to do.
NtDegradedKeys == {"degraded ban", "degraded sync"}
NtMsgs == [do : {"send"}, key : NtKeys, sev : NtSeverities]
NtRecs == [do : {"record"}, op : {"ban", "sync"}, err : NtResults]
NtItems == NtMsgs \cup NtRecs
NtHas(s, x) == \E i \in DOMAIN s : s[i] = x
NtTodoOK(s) ==
  /\ s \in Seq(NtItems)
  /\ \A i, j \in DOMAIN s : s[i].do = "record" /\ s[j].do = "record" => i = j
  /\ \A i \in DOMAIN s : s[i].do = "send" /\ s[i].key \in NtDegradedKeys => s[i].sev = "critical"

\* The results it has still to record.
NtDue(s) == IF \E i \in DOMAIN s : s[i].do = "record" THEN 1 ELSE 0
NtAllDue(todo) ==
  NtDue(todo["pipeline"]) + NtDue(todo["retry"]) + NtDue(todo["probe"]) + NtDue(todo["flush"]) + NtDue(todo["check"])

\* A send under way.
NtClaims == NtTimes \cup {NtNever}
NtSends == [key : NtKeys \cup {"none"}, sev : NtSeverities, at : Nat, claim : NtClaims, delivered : BOOLEAN]
NtSendOK(s) ==
  /\ s \in NtSends /\ (s = NtIdle \/ s.key \in NtKeys)
  /\ s.key \in NtDegradedKeys => s.sev = "critical"

NtLimits == [normal : Seq(NtTimes), critical : Seq(NtTimes)]
NtWindowsT == [start : NtClaims, n : Nat]
NtOwing == [key : NtDegradedKeys \cup {"none"}, at : NtTimes]
NtSinces == [fails : Nat, throttles : Nat]
NtCounts == [scans : Nat, fresh : Nat, folded : Nat, fired : Nat, alerts : Nat, carried : Nat]

\* The variables have their types.
NtShape ==
  /\ ntCast \in NtCasts /\ ntNow \in NtTimes /\ ntInputs \in 0 .. ntCast.max /\ ntFaults \in 0 .. NtMaxFaults
  /\ ntStamp \in [NtKeys -> NtClaims] /\ ntSaid \in [NtKeys -> NtClaims]
  /\ ntHistory \in [DOMAIN NtChannels -> NtLimits] /\ ntCrits \in [DOMAIN NtChannels -> Nat]
  /\ DOMAIN ntTodo = NtThreads /\ (\A t \in NtThreads : NtTodoOK(ntTodo[t]))
  /\ DOMAIN ntSend = NtThreads /\ (\A t \in NtThreads : NtSendOK(ntSend[t]))
  /\ ntArmed \in BOOLEAN /\ ntDegraded \in BOOLEAN /\ ntHealthy \in BOOLEAN /\ ntStreak \in Nat
  /\ ntSup \in NtWindowsT /\ ntIneff \in NtWindowsT /\ ntOwed \in NtOwing /\ ntSince \in NtSinces /\ ntCount \in NtCounts

\* A limiter's history is within its quota, and criticals were handed over.
NtQuotasOK ==
  \A c \in DOMAIN NtChannels :
    Len(ntHistory[c].normal) <= NtQuota /\ Len(ntHistory[c].critical) <= NtCritQuota /\ Len(ntHistory[c].critical) <= ntCrits[c]

\* No streak without results.
NtStreakOK == ntStreak + NtAllDue(ntTodo) <= ntInputs

\* A window and the claims on a key: they are a window apart, the stamp is the
\* latest one unless it was given back, and none is open without a reason.
NtApart(a, b) == a = NtNever \/ b - a >= NtDedup
NtKeyOK(k) ==
  /\ ntStamp[k] <= ntNow /\ ntSaid[k] <= ntNow
  /\ ntStamp[k] = NtNever => NtApart(ntSaid[k], ntNow)
  /\ ntStamp[k] # NtNever => ntSaid[k] <= ntStamp[k]
  /\ ntStamp[k] # NtNever => ntSaid[k] = ntStamp[k] \/ \E t \in NtThreads : ntSend[t].key = k /\ ntSend[t].claim = ntStamp[k]
NtClaimOK(t) ==
  LET s == ntSend[t]  k == ntSend[t].key IN
  s.key \in NtKeys =>
    /\ s.claim \in NtTimes /\ s.claim <= ntNow
    /\ ntStamp[k] = NtNever => ntNow - s.claim >= NtDedup
    /\ ntStamp[k] # NtNever => s.claim = ntStamp[k] \/ ntStamp[k] - s.claim >= NtDedup
    /\ s.claim = ntStamp[k] /\ ~s.delivered => NtApart(ntSaid[k], s.claim)
    /\ s.delivered => ntSaid[k] >= s.claim
NtWindowsOK ==
  /\ \A k \in NtKeys : NtKeyOK(k)
  /\ \A t \in NtThreads : NtClaimOK(t)
  /\ \A t, u \in NtThreads : t # u /\ ntSend[t].key = ntSend[u].key /\ ntSend[t].key \in NtKeys => ntSend[t].claim # ntSend[u].claim

\* A channel that took nothing of a critical failed or had its quota.
NtPassed(c, s) == NtAccepts(c, "critical") => s.delivered \/ ntFaults > 0 \/ ntCrits[c] >= NtCritQuota
NtReachedOK ==
  \A t \in NtThreads : ntSend[t].key \in NtKeys /\ ntSend[t].sev = "critical" =>
    \A c \in DOMAIN NtChannels : c < ntSend[t].at => NtPassed(c, ntSend[t])

\* The alert that is owed was told, is being sent or will be, or cannot be.
NtHopeless ==
  \/ ~NtAcceptsCritical \/ ntFaults > 0
  \/ \A c \in DOMAIN NtChannels : NtAccepts(c, "critical") => ntCrits[c] >= NtCritQuota
NtOwedOK ==
  ntOwed.key # "none" =>
    \/ ntSaid[ntOwed.key] # NtNever /\ ntOwed.at - ntSaid[ntOwed.key] < NtDedup
    \/ \E t \in NtThreads : ntSend[t].key = ntOwed.key /\ ntOwed.at - ntSend[t].claim < NtDedup
    \/ \E t \in NtThreads : NtHas(ntTodo[t], NtMsg(ntOwed.key, "critical"))
    \/ NtHopeless
NtOwedNow == ntOwed.at <= ntNow

NtHealthOK == NtHealthHonest /\ (ntSince.fails = 0 => ntStreak = ntSince.throttles)

NtIndInv == /\ NtShape /\ NtQuotasOK /\ NtStreakOK /\ NtWindowsOK /\ NtReachedOK /\ NtOwedOK /\ NtOwedNow
            /\ NtHealthOK /\ NtNothingLost

\* Items are messages to send or results to record.
LEMMA NtItemIs ==
  ASSUME NEW m \in NtItems
  PROVE  \/ m.do = "send" /\ m \in NtMsgs /\ m.key \in NtKeys /\ m.sev \in NtSeverities
         \/ m.do = "record" /\ m \in NtRecs /\ m.op \in {"ban", "sync"} /\ m.err \in NtResults
BY DEF NtItems, NtMsgs, NtRecs

LEMMA NtMsgIs ==
  ASSUME NEW key \in NtKeys, NEW sev \in NtSeverities
  PROVE  NtMsg(key, sev) \in NtMsgs /\ NtMsg(key, sev).do = "send" /\ NtMsg(key, sev).key = key /\ NtMsg(key, sev).sev = sev
BY DEF NtMsg, NtMsgs

LEMMA NtRecIs ==
  ASSUME NEW op \in {"ban", "sync"}, NEW err \in NtResults
  PROVE  NtRec(op, err) \in NtRecs /\ NtRec(op, err).do = "record"
BY DEF NtRec, NtRecs

\* The first thing to do, and the rest.
LEMMA NtTailOK ==
  ASSUME NEW s, NtTodoOK(s), s # <<>>
  PROVE  /\ Head(s) \in NtItems /\ NtTodoOK(Tail(s))
         /\ \A x : NtHas(s, x) => x = Head(s) \/ NtHas(Tail(s), x)
         /\ Head(s).do = "record" => NtDue(Tail(s)) = 0 /\ NtDue(s) = 1
         /\ Head(s).do = "send" => NtDue(Tail(s)) = NtDue(s)
         /\ Head(s).do = "send" /\ Head(s).key \in NtDegradedKeys => Head(s).sev = "critical"
<1>1. s \in Seq(NtItems) /\ Len(s) \in Nat /\ Len(s) >= 1 /\ DOMAIN s = 1 .. Len(s) BY DEF NtTodoOK
<1>2. /\ Tail(s) \in Seq(NtItems) /\ Head(s) = s[1] /\ 1 \in DOMAIN s /\ Head(s) \in NtItems
      /\ DOMAIN Tail(s) = 1 .. Len(s) - 1
  BY <1>1
<1>3. \A i \in DOMAIN Tail(s) : i \in Int /\ i + 1 \in DOMAIN s /\ Tail(s)[i] = s[i + 1] BY <1>1, <1>2
<1>4. \A i \in DOMAIN s : i \in Int /\ (i = 1 \/ (i - 1 \in DOMAIN Tail(s) /\ Tail(s)[i - 1] = s[i])) BY <1>1, <1>2, <1>3
<1>5. NtTodoOK(Tail(s))
  <2>1. ASSUME NEW i \in DOMAIN Tail(s), NEW j \in DOMAIN Tail(s), Tail(s)[i].do = "record", Tail(s)[j].do = "record"
        PROVE  i = j
    <3>1. i + 1 = j + 1 BY <2>1, <1>3 DEF NtTodoOK
    <3>. QED BY <3>1, <1>3
  <2>2. \A i \in DOMAIN Tail(s) : Tail(s)[i].do = "send" /\ Tail(s)[i].key \in NtDegradedKeys => Tail(s)[i].sev = "critical"
    BY <1>3 DEF NtTodoOK
  <2>. QED BY <1>2, <2>1, <2>2 DEF NtTodoOK
<1>6. \A x : NtHas(s, x) => x = Head(s) \/ NtHas(Tail(s), x) BY <1>2, <1>4 DEF NtHas
<1>7. ASSUME Head(s).do = "record" PROVE NtDue(Tail(s)) = 0 /\ NtDue(s) = 1
  <2>1. NtDue(s) = 1 BY <1>2, <1>7 DEF NtDue
  <2>2. ASSUME NEW i \in DOMAIN Tail(s), Tail(s)[i].do = "record" PROVE FALSE
    <3>1. i + 1 = 1 BY <2>2, <1>2, <1>3, <1>7 DEF NtTodoOK
    <3>2. i >= 1 BY <1>1, <1>2
    <3>. QED BY <3>1, <3>2, <1>3
  <2>. QED BY <2>1, <2>2 DEF NtDue
<1>8. ASSUME Head(s).do = "send" PROVE NtDue(Tail(s)) = NtDue(s)
  <2>1. (\E i \in DOMAIN s : s[i].do = "record") <=> (\E i \in DOMAIN Tail(s) : Tail(s)[i].do = "record")
    BY <1>2, <1>3, <1>4, <1>8
  <2>. QED BY <2>1 DEF NtDue
<1>9. Head(s).do = "send" /\ Head(s).key \in NtDegradedKeys => Head(s).sev = "critical" BY <1>2 DEF NtTodoOK
<1>. QED BY <1>2, <1>5, <1>6, <1>7, <1>8, <1>9

\* One thing more to do first.
LEMMA NtConsOK ==
  ASSUME NEW s, NtTodoOK(s), NEW m \in NtItems, m.do = "record" => NtDue(s) = 0,
         m.do = "send" /\ m.key \in NtDegradedKeys => m.sev = "critical"
  PROVE  /\ NtTodoOK(<<m>> \o s) /\ NtDue(<<m>> \o s) = (IF m.do = "record" THEN 1 ELSE NtDue(s))
         /\ NtHas(<<m>> \o s, m) /\ \A x : NtHas(s, x) => NtHas(<<m>> \o s, x)
<1>. DEFINE q == <<m>> \o s
<1>1. s \in Seq(NtItems) /\ Len(s) \in Nat /\ DOMAIN s = 1 .. Len(s) BY DEF NtTodoOK
<1>2. q \in Seq(NtItems) /\ DOMAIN q = 1 .. Len(s) + 1 /\ q[1] = m /\ 1 \in DOMAIN q BY <1>1
<1>3. \A i \in DOMAIN s : i \in Int /\ i + 1 \in DOMAIN q /\ q[i + 1] = s[i] BY <1>1, <1>2
<1>4. \A i \in DOMAIN q : i \in Int /\ (i = 1 \/ (i - 1 \in DOMAIN s /\ s[i - 1] = q[i])) BY <1>1, <1>2
<1>. HIDE DEF q
<1>5. ASSUME NEW i \in DOMAIN q, NEW j \in DOMAIN q, q[i].do = "record", q[j].do = "record" PROVE i = j
  <2>1. CASE m.do = "record"
    <3>1. \A k \in DOMAIN s : s[k].do # "record" BY <2>1 DEF NtDue
    <3>. QED BY <3>1, <1>4, <1>5
  <2>2. CASE m.do # "record"
    <3>1. /\ i - 1 \in DOMAIN s /\ s[i - 1] = q[i] /\ j - 1 \in DOMAIN s /\ s[j - 1] = q[j] BY <1>2, <1>4, <1>5, <2>2
    <3>2. i - 1 = j - 1 BY <3>1, <1>5 DEF NtTodoOK
    <3>. QED BY <3>2, <1>4
  <2>. QED BY <2>1, <2>2
<1>6. \A i \in DOMAIN q : q[i].do = "send" /\ q[i].key \in NtDegradedKeys => q[i].sev = "critical"
  BY <1>2, <1>4 DEF NtTodoOK
<1>7. NtTodoOK(q) BY <1>2, <1>5, <1>6 DEF NtTodoOK
<1>8. NtDue(q) = IF m.do = "record" THEN 1 ELSE NtDue(s)
  <2>1. CASE m.do = "record" BY <1>2, <2>1 DEF NtDue
  <2>2. CASE m.do # "record"
    <3>1. (\E i \in DOMAIN q : q[i].do = "record") <=> (\E i \in DOMAIN s : s[i].do = "record")
      BY <1>2, <1>3, <1>4, <2>2
    <3>. QED BY <3>1, <2>2 DEF NtDue
  <2>. QED BY <2>1, <2>2
<1>9. NtHas(q, m) BY <1>2 DEF NtHas
<1>10. \A x : NtHas(s, x) => NtHas(q, x) BY <1>3 DEF NtHas
<1>. QED BY <1>7, <1>8, <1>9, <1>10 DEF q

LEMMA NtEmptyOK == NtTodoOK(<<>>) /\ NtDue(<<>>) = 0 /\ \A x : ~NtHas(<<>>, x)
BY DEF NtTodoOK, NtDue, NtHas

\* One goroutine's list changes.
LEMMA NtTodoSet ==
  ASSUME DOMAIN ntTodo = NtThreads, \A u \in NtThreads : NtTodoOK(ntTodo[u]), NEW t \in NtThreads, NEW s, NtTodoOK(s),
         ntTodo' = [ntTodo EXCEPT ![t] = s]
  PROVE  /\ DOMAIN ntTodo' = NtThreads /\ ntTodo'[t] = s /\ \A u \in NtThreads \ {t} : ntTodo'[u] = ntTodo[u]
         /\ \A u \in NtThreads : NtTodoOK(ntTodo'[u])
         /\ NtAllDue(ntTodo') = NtAllDue(ntTodo) - NtDue(ntTodo[t]) + NtDue(s)
<1>1. /\ DOMAIN ntTodo' = NtThreads /\ ntTodo'[t] = s /\ \A u \in NtThreads \ {t} : ntTodo'[u] = ntTodo[u]
  OBVIOUS
<1>2. \A u \in NtThreads : NtTodoOK(ntTodo'[u]) BY <1>1
<1>3. \A x : NtDue(x) \in {0, 1} BY DEF NtDue
<1>4. NtThreads = {"pipeline", "retry", "probe", "flush", "check"} BY DEF NtThreads
<1>5. NtAllDue(ntTodo') = NtAllDue(ntTodo) - NtDue(ntTodo[t]) + NtDue(s)
  BY <1>1, <1>3, <1>4 DEF NtAllDue
<1>. QED BY <1>1, <1>2, <1>5

\* Nothing was sent: only lists, health that is not told, and counts change.
LEMMA NtReported ==
  ASSUME NtIndInv, UNCHANGED <<ntCast, ntNow, ntFaults, ntWire, ntDegraded, ntStreak, ntOwed, ntSince>>,
         DOMAIN ntTodo' = NtThreads, \A u \in NtThreads : NtTodoOK(ntTodo'[u]),
         \A u \in NtThreads : \A x : NtHas(ntTodo[u], x) => NtHas(ntTodo'[u], x),
         ntInputs' \in 0 .. ntCast.max, ntStreak + NtAllDue(ntTodo') <= ntInputs',
         ntArmed' \in BOOLEAN, ntHealthy' \in BOOLEAN, ntSup' \in NtWindowsT, ntIneff' \in NtWindowsT,
         ntCount' \in NtCounts, NtNothingLost'
  PROVE  NtIndInv'
<1>1. /\ ntCast' = ntCast /\ ntNow' = ntNow /\ ntFaults' = ntFaults /\ ntStamp' = ntStamp /\ ntHistory' = ntHistory
      /\ ntSend' = ntSend /\ ntSaid' = ntSaid /\ ntCrits' = ntCrits /\ ntDegraded' = ntDegraded
      /\ ntStreak' = ntStreak /\ ntOwed' = ntOwed /\ ntSince' = ntSince
  BY DEF ntWire
<1>2. NtShape' BY <1>1 DEF NtIndInv, NtShape
<1>3. NtQuotasOK' BY <1>1 DEF NtIndInv, NtQuotasOK
<1>4. NtStreakOK' BY <1>1 DEF NtStreakOK
<1>5. NtWindowsOK' BY <1>1 DEF NtIndInv, NtWindowsOK, NtKeyOK, NtClaimOK
<1>6. NtReachedOK' BY <1>1 DEF NtIndInv, NtReachedOK, NtPassed
<1>7. NtOwedOK'
  <2>1. NtOwedOK /\ (NtHopeless => NtHopeless') BY <1>1 DEF NtIndInv, NtHopeless
  <2>. QED BY <1>1, <2>1 DEF NtOwedOK
<1>8. NtOwedNow' BY <1>1 DEF NtIndInv, NtOwedNow
<1>9. NtHealthOK' BY <1>1 DEF NtIndInv, NtHealthOK, NtHealthHonest
<1>. QED BY <1>2, <1>3, <1>4, <1>5, <1>6, <1>7, <1>8, <1>9 DEF NtIndInv

\* A goroutine with nothing to do gets something.
LEMMA NtGiven ==
  ASSUME NtIndInv, NEW t \in NtThreads, NtQuiet(t), NEW s, NtTodoOK(s), ntTodo' = [ntTodo EXCEPT ![t] = s],
         ntInputs' >= ntInputs + NtDue(s), ntInputs' \in Nat
  PROVE  /\ DOMAIN ntTodo' = NtThreads /\ (\A u \in NtThreads : NtTodoOK(ntTodo'[u]))
         /\ \A u \in NtThreads : \A x : NtHas(ntTodo[u], x) => NtHas(ntTodo'[u], x)
         /\ ntStreak + NtAllDue(ntTodo') <= ntInputs'
<1>1. DOMAIN ntTodo = NtThreads /\ (\A u \in NtThreads : NtTodoOK(ntTodo[u])) BY DEF NtIndInv, NtShape
<1>2. ntTodo[t] = <<>> BY DEF NtQuiet
<1>3. /\ DOMAIN ntTodo' = NtThreads /\ (\A u \in NtThreads : NtTodoOK(ntTodo'[u]))
      /\ \A u \in NtThreads \ {t} : ntTodo'[u] = ntTodo[u]
      /\ NtAllDue(ntTodo') = NtAllDue(ntTodo) - NtDue(ntTodo[t]) + NtDue(s)
  BY <1>1, NtTodoSet
<1>4. \A u \in NtThreads : \A x : NtHas(ntTodo[u], x) => NtHas(ntTodo'[u], x)
  <2>. SUFFICES ASSUME NEW u \in NtThreads, NEW x, NtHas(ntTodo[u], x) PROVE NtHas(ntTodo'[u], x) OBVIOUS
  <2>1. u # t BY <1>2, NtEmptyOK
  <2>. QED BY <1>3, <2>1
<1>5. \A x : NtDue(x) \in {0, 1} BY DEF NtDue
<1>6. NtAllDue(ntTodo) \in Int BY <1>5 DEF NtAllDue
<1>7. ntStreak \in Nat /\ ntInputs \in Nat /\ ntStreak + NtAllDue(ntTodo) <= ntInputs
  <2>1. ntCast.max \in Nat BY NtConstants DEF NtIndInv, NtShape
  <2>. QED BY <2>1 DEF NtIndInv, NtShape, NtStreakOK
<1>8. NtDue(ntTodo[t]) = 0 BY <1>2, NtEmptyOK
<1>. QED BY <1>3, <1>4, <1>5, <1>6, <1>7, <1>8

\* Something happened that is worth reporting.
LEMMA NtInputIs ==
  ASSUME NtIndInv, ntInputs < ntCast.max, ntInputs' = ntInputs + 1
  PROVE  ntInputs \in Nat /\ ntInputs' \in Nat /\ ntInputs' \in 0 .. ntCast.max /\ ntInputs' > ntInputs
<1>1. ntCast.max \in Nat BY NtConstants DEF NtIndInv, NtShape
<1>. QED BY <1>1 DEF NtIndInv, NtShape

LEMMA NtFailureMsgOK ==
  ASSUME NEW err, NEW s, NtTodoOK(s)
  PROVE  NtTodoOK(NtFailureMsg(err) \o s) /\ NtDue(NtFailureMsg(err) \o s) = NtDue(s)
<1>1. CASE err \in {"fail", "throttle"}
  <2>. DEFINE m == NtMsg("ban failed", "critical")
  <2>1. m \in NtMsgs /\ m.do = "send" /\ m.key = "ban failed" BY NtMsgIs DEF NtKeys, NtSeverities
  <2>2. NtFailureMsg(err) = <<m>> BY <1>1 DEF NtFailureMsg
  <2>. HIDE DEF m
  <2>3. m \in NtItems /\ m.do # "record" /\ m.key \notin NtDegradedKeys BY <2>1 DEF NtItems, NtDegradedKeys
  <2>. QED BY <2>2, <2>3, NtConsOK
<1>2. CASE err \notin {"fail", "throttle"}
  <2>1. NtFailureMsg(err) = <<>> BY <1>2 DEF NtFailureMsg
  <2>2. <<>> \o s = s BY DEF NtTodoOK
  <2>. QED BY <2>1, <2>2
<1>. QED BY <1>1, <1>2

\* One item, or two.
LEMMA NtOneOK ==
  ASSUME NEW m \in NtItems, m.do = "send" /\ m.key \in NtDegradedKeys => m.sev = "critical"
  PROVE  NtTodoOK(<<m>>) /\ NtDue(<<m>>) = (IF m.do = "record" THEN 1 ELSE 0)
<1>1. <<m>> \o <<>> = <<m>> OBVIOUS
<1>. QED BY <1>1, NtConsOK, NtEmptyOK

\* A message with a key that is no enforcement alert.
LEMMA NtPlainOK ==
  ASSUME NEW key \in NtKeys \ NtDegradedKeys, NEW sev \in NtSeverities
  PROVE  /\ NtMsg(key, sev) \in NtItems /\ NtMsg(key, sev).do # "record" /\ NtMsg(key, sev).key \notin NtDegradedKeys
         /\ NtTodoOK(<<NtMsg(key, sev)>>) /\ NtDue(<<NtMsg(key, sev)>>) = 0
<1>. DEFINE m == NtMsg(key, sev)
<1>1. m \in NtItems /\ m.do # "record" /\ m.key \notin NtDegradedKeys BY NtMsgIs DEF NtItems
<1>. HIDE DEF m
<1>2. NtTodoOK(<<m>>) /\ NtDue(<<m>>) = 0 BY <1>1, NtOneOK
<1>. QED BY <1>1, <1>2 DEF m

LEMMA NtPair == ASSUME NEW a, NEW b PROVE <<a>> \o <<b>> = <<a, b>>
<1>. DEFINE p == <<a>> \o <<b>>
            q == <<a, b>>
<1>1. p \in Seq({a, b}) /\ Len(p) = 2 /\ p[1] = a /\ p[2] = b OBVIOUS
<1>2. q \in Seq({a, b}) /\ Len(q) = 2 /\ q[1] = a /\ q[2] = b OBVIOUS
<1>. HIDE DEF p, q
<1>3. p = [i \in 1 .. 2 |-> p[i]] /\ q = [i \in 1 .. 2 |-> q[i]] BY <1>1, <1>2
<1>4. \A i \in 1 .. 2 : p[i] = q[i] BY <1>1, <1>2
<1>. QED BY <1>3, <1>4 DEF p, q

LEMMA NtBanDispatchedStep ==
  ASSUME NtIndInv, NEW err \in NtResults, NtBanDispatched(err) PROVE NtIndInv'
<1>. DEFINE rec == NtRec("ban", err)
            msg == NtMsg("ban", "warn")
            s == NtFailureMsg(err) \o <<rec, msg>>
<1>1. /\ NtQuiet("pipeline") /\ ntInputs < ntCast.max /\ ntInputs' = ntInputs + 1
      /\ ntTodo' = [ntTodo EXCEPT !["pipeline"] = s]
      /\ UNCHANGED <<ntCast, ntNow, ntFaults, ntHealth, ntFold, ntWire>>
  BY DEF NtBanDispatched, NtInput
<1>2. rec \in NtItems /\ rec.do = "record" BY NtRecIs DEF NtItems
<1>3. NtTodoOK(<<msg>>) /\ NtDue(<<msg>>) = 0
  <2>1. "ban" \in NtKeys \ NtDegradedKeys /\ "warn" \in NtSeverities BY DEF NtKeys, NtDegradedKeys, NtSeverities
  <2>. QED BY <2>1, NtPlainOK
<1>. HIDE DEF rec, msg
<1>4. <<rec>> \o <<msg>> = <<rec, msg>> BY NtPair
<1>5. NtTodoOK(<<rec, msg>>) /\ NtDue(<<rec, msg>>) = 1 BY <1>2, <1>3, <1>4, NtConsOK
<1>6. NtTodoOK(s) /\ NtDue(s) = 1 BY <1>5, NtFailureMsgOK
<1>7. "pipeline" \in NtThreads BY DEF NtThreads
<1>. HIDE DEF s
<1>8. ntInputs' \in 0 .. ntCast.max /\ ntInputs' \in Nat /\ ntInputs' >= ntInputs + 1 BY <1>1, NtInputIs
<1>9. /\ DOMAIN ntTodo' = NtThreads /\ (\A u \in NtThreads : NtTodoOK(ntTodo'[u]))
      /\ \A u \in NtThreads : \A x : NtHas(ntTodo[u], x) => NtHas(ntTodo'[u], x)
      /\ ntStreak + NtAllDue(ntTodo') <= ntInputs'
  BY <1>1, <1>6, <1>7, <1>8, NtGiven
<1>10. ntArmed' \in BOOLEAN /\ ntHealthy' \in BOOLEAN /\ ntSup' \in NtWindowsT /\ ntIneff' \in NtWindowsT /\ ntCount' \in NtCounts
       /\ NtNothingLost'
  BY <1>1 DEF NtIndInv, NtShape, NtNothingLost, ntHealth, ntFold
<1>. QED BY <1>1, <1>8, <1>9, <1>10, NtReported DEF ntHealth

\* A list with one item is given to a goroutine, and an input is counted.
LEMMA NtOneGiven ==
  ASSUME NtIndInv, NEW t \in NtThreads, NtQuiet(t), ntInputs < ntCast.max, ntInputs' = ntInputs + 1,
         NEW s, NtTodoOK(s), ntTodo' = [ntTodo EXCEPT ![t] = s],
         UNCHANGED <<ntCast, ntNow, ntFaults, ntWire, ntDegraded, ntStreak, ntOwed, ntSince>>,
         ntArmed' \in BOOLEAN, ntHealthy' \in BOOLEAN, ntSup' \in NtWindowsT, ntIneff' \in NtWindowsT,
         ntCount' \in NtCounts, NtNothingLost'
  PROVE  NtIndInv'
<1>1. NtDue(s) \in {0, 1} BY DEF NtDue
<1>2. ntInputs \in Nat /\ ntInputs' \in 0 .. ntCast.max /\ ntInputs' \in Nat BY NtInputIs
<1>3. ntInputs' >= ntInputs + NtDue(s) BY <1>1, <1>2
<1>4. /\ DOMAIN ntTodo' = NtThreads /\ (\A u \in NtThreads : NtTodoOK(ntTodo'[u]))
      /\ \A u \in NtThreads : \A x : NtHas(ntTodo[u], x) => NtHas(ntTodo'[u], x)
      /\ ntStreak + NtAllDue(ntTodo') <= ntInputs'
  BY <1>2, <1>3, NtGiven
<1>. QED BY <1>2, <1>4, NtReported

LEMMA NtBanRetriedStep ==
  ASSUME NtIndInv, NEW err \in NtResults, NtBanRetried(err) PROVE NtIndInv'
<1>. DEFINE rec == NtRec("ban", err)
            s == NtFailureMsg(err) \o <<rec>>
<1>1. /\ NtQuiet("retry") /\ ntInputs < ntCast.max /\ ntInputs' = ntInputs + 1
      /\ ntTodo' = [ntTodo EXCEPT !["retry"] = s]
      /\ UNCHANGED <<ntCast, ntNow, ntFaults, ntHealth, ntFold, ntWire>>
  BY DEF NtBanRetried, NtInput
<1>2. rec \in NtItems /\ rec.do # "send" BY NtRecIs DEF NtItems
<1>. HIDE DEF rec
<1>3. NtTodoOK(<<rec>>) BY <1>2, NtOneOK
<1>4. NtTodoOK(s) /\ "retry" \in NtThreads BY <1>3, NtFailureMsgOK DEF NtThreads
<1>. HIDE DEF s
<1>5. ntArmed' \in BOOLEAN /\ ntHealthy' \in BOOLEAN /\ ntSup' \in NtWindowsT /\ ntIneff' \in NtWindowsT /\ ntCount' \in NtCounts
      /\ NtNothingLost'
  BY <1>1 DEF NtIndInv, NtShape, NtNothingLost, ntHealth, ntFold
<1>. QED BY <1>1, <1>4, <1>5, NtOneGiven DEF ntHealth

LEMMA NtProbedStep ==
  ASSUME NtIndInv, NEW err \in NtResults, NtProbed(err) PROVE NtIndInv'
<1>. DEFINE rec == NtRec("sync", err)
            s == <<rec>>
<1>1. /\ NtQuiet("probe") /\ ntInputs < ntCast.max /\ ntInputs' = ntInputs + 1
      /\ ntTodo' = [ntTodo EXCEPT !["probe"] = s]
      /\ UNCHANGED <<ntCast, ntNow, ntFaults, ntHealth, ntFold, ntWire>>
  BY DEF NtProbed, NtInput
<1>2. rec \in NtItems /\ rec.do # "send" BY NtRecIs DEF NtItems
<1>. HIDE DEF rec
<1>4. NtTodoOK(s) /\ "probe" \in NtThreads BY <1>2, NtOneOK DEF NtThreads
<1>. HIDE DEF s
<1>5. ntArmed' \in BOOLEAN /\ ntHealthy' \in BOOLEAN /\ ntSup' \in NtWindowsT /\ ntIneff' \in NtWindowsT /\ ntCount' \in NtCounts
      /\ NtNothingLost'
  BY <1>1 DEF NtIndInv, NtShape, NtNothingLost, ntHealth, ntFold
<1>. QED BY <1>1, <1>4, <1>5, NtOneGiven DEF ntHealth

LEMMA NtSelfCheckStep ==
  ASSUME NtIndInv, NEW ok \in BOOLEAN, NtSelfCheck(ok) PROVE NtIndInv'
<1>. DEFINE s == <<IF ok THEN NtMsg("check recovered", "info") ELSE NtMsg("check degraded", "critical")>>
<1>1. /\ NtQuiet("check") /\ ntInputs < ntCast.max /\ ntInputs' = ntInputs + 1 /\ ntHealthy' = ok
      /\ ntTodo' = [ntTodo EXCEPT !["check"] = s]
      /\ UNCHANGED <<ntCast, ntNow, ntFaults, ntArmed, ntDegraded, ntStreak, ntOwed, ntSince, ntFold, ntWire>>
  BY DEF NtSelfCheck, NtInput
<1>2. {"check recovered", "check degraded"} \subseteq NtKeys \ NtDegradedKeys /\ {"info", "critical"} \subseteq NtSeverities
  BY DEF NtKeys, NtDegradedKeys, NtSeverities
<1>3. NtTodoOK(s) BY <1>2, NtPlainOK
<1>. HIDE DEF s
<1>4. "check" \in NtThreads BY DEF NtThreads
<1>5. ntArmed' \in BOOLEAN /\ ntHealthy' \in BOOLEAN /\ ntSup' \in NtWindowsT /\ ntIneff' \in NtWindowsT /\ ntCount' \in NtCounts
      /\ NtNothingLost'
  BY <1>1 DEF NtIndInv, NtShape, NtNothingLost, ntFold
<1>. QED BY <1>1, <1>3, <1>4, <1>5, NtOneGiven

\* What is on the lists stays there.
LEMMA NtNotGiven ==
  ASSUME NtIndInv, UNCHANGED ntTodo, ntInputs' \in 0 .. ntCast.max, ntInputs' >= ntInputs
  PROVE  /\ DOMAIN ntTodo' = NtThreads /\ (\A u \in NtThreads : NtTodoOK(ntTodo'[u]))
         /\ \A u \in NtThreads : \A x : NtHas(ntTodo[u], x) => NtHas(ntTodo'[u], x)
         /\ ntStreak + NtAllDue(ntTodo') <= ntInputs'
<1>1. DOMAIN ntTodo = NtThreads /\ (\A u \in NtThreads : NtTodoOK(ntTodo[u])) BY DEF NtIndInv, NtShape
<1>2. \A x : NtDue(x) \in {0, 1} BY DEF NtDue
<1>3. NtAllDue(ntTodo) \in Int BY <1>2 DEF NtAllDue
<1>4. ntStreak \in Nat /\ ntInputs \in Nat /\ ntStreak + NtAllDue(ntTodo) <= ntInputs
  <2>1. ntCast.max \in Nat BY NtConstants DEF NtIndInv, NtShape
  <2>. QED BY <2>1 DEF NtIndInv, NtShape, NtStreakOK
<1>5. ntCast.max \in Nat BY NtConstants DEF NtIndInv, NtShape
<1>6. ntInputs' \in Nat BY <1>5
<1>7. ntTodo' = ntTodo OBVIOUS
<1>8. ntStreak + NtAllDue(ntTodo') <= ntInputs' BY <1>3, <1>4, <1>6, <1>7
<1>. QED BY <1>1, <1>7, <1>8

LEMMA NtArmChangesStep == ASSUME NtIndInv, NtArmChanges PROVE NtIndInv'
<1>1. /\ ntInputs < ntCast.max /\ ntInputs' = ntInputs + 1 /\ ntArmed' = ~ntArmed
      /\ UNCHANGED <<ntCast, ntNow, ntFaults, ntTodo, ntDegraded, ntStreak, ntHealthy, ntOwed, ntSince, ntFold, ntWire>>
  BY DEF NtArmChanges
<1>2. ntInputs' \in 0 .. ntCast.max /\ ntInputs' >= ntInputs
  <2>1. ntInputs' \in 0 .. ntCast.max /\ ntInputs \in Nat /\ ntInputs' \in Nat /\ ntInputs' > ntInputs BY <1>1, NtInputIs
  <2>. QED BY <2>1
<1>3. ntArmed' \in BOOLEAN /\ ntHealthy' \in BOOLEAN /\ ntSup' \in NtWindowsT /\ ntIneff' \in NtWindowsT /\ ntCount' \in NtCounts
      /\ NtNothingLost'
  BY <1>1 DEF NtIndInv, NtShape, NtNothingLost, ntFold
<1>4. /\ DOMAIN ntTodo' = NtThreads /\ (\A u \in NtThreads : NtTodoOK(ntTodo'[u]))
      /\ \A u \in NtThreads : \A x : NtHas(ntTodo[u], x) => NtHas(ntTodo'[u], x)
      /\ ntStreak + NtAllDue(ntTodo') <= ntInputs'
  BY <1>1, <1>2, NtNotGiven
<1>. QED BY <1>1, <1>2, <1>3, <1>4, NtReported

\* The folding windows: counts and lists.
LEMMA NtFoldTypes ==
  ASSUME NtIndInv
  PROVE  /\ ntSup.n \in Nat /\ ntSup.start \in NtClaims /\ ntIneff.n \in Nat /\ ntIneff.start \in NtClaims
         /\ ntSup \in NtWindowsT /\ ntIneff \in NtWindowsT /\ ntCount \in NtCounts
         /\ ntCount.scans \in Nat /\ ntCount.fresh \in Nat /\ ntCount.folded \in Nat
         /\ ntCount.fired \in Nat /\ ntCount.alerts \in Nat /\ ntCount.carried \in Nat
         /\ ntCount.scans = ntCount.fresh + ntCount.folded + ntSup.n
         /\ ntCount.fired = ntCount.alerts + ntCount.carried + ntIneff.n
         /\ ntNow \in NtClaims /\ ntArmed \in BOOLEAN /\ ntHealthy \in BOOLEAN
BY DEF NtIndInv, NtShape, NtWindowsT, NtCounts, NtNothingLost, NtClaims

LEMMA NtCountsNat ==
  ASSUME NEW c \in NtCounts
  PROVE  c.scans \in Nat /\ c.fresh \in Nat /\ c.folded \in Nat /\ c.fired \in Nat /\ c.alerts \in Nat /\ c.carried \in Nat
BY DEF NtCounts

LEMMA NtCountFolded ==
  ASSUME NEW c \in NtCounts, NEW n \in Nat, NEW d, d = [c EXCEPT !.folded = @ + n]
  PROVE  /\ d \in NtCounts /\ d.scans = c.scans /\ d.fresh = c.fresh /\ d.folded = c.folded + n
         /\ d.fired = c.fired /\ d.alerts = c.alerts /\ d.carried = c.carried
<1>1. c.folded + n \in Nat BY NtCountsNat
<1>. QED BY <1>1 DEF NtCounts

LEMMA NtScanFoldedStep == ASSUME NtIndInv, NtScanFolded PROVE NtIndInv'
<1>1. /\ ntInputs < ntCast.max /\ ntInputs' = ntInputs + 1 /\ ntSup' = [ntSup EXCEPT !.n = @ + 1]
      /\ ntCount' = [ntCount EXCEPT !.scans = @ + 1]
      /\ UNCHANGED <<ntCast, ntNow, ntFaults, ntTodo, ntHealth, ntIneff, ntWire>>
  BY DEF NtScanFolded, NtInput
<1>2. ntInputs' \in 0 .. ntCast.max /\ ntInputs' >= ntInputs
  <2>1. ntInputs' \in 0 .. ntCast.max /\ ntInputs \in Nat /\ ntInputs' \in Nat /\ ntInputs' > ntInputs BY <1>1, NtInputIs
  <2>. QED BY <2>1
<1>3. ntSup' \in NtWindowsT /\ ntSup'.n = ntSup.n + 1 BY <1>1, NtFoldTypes DEF NtWindowsT
<1>4. /\ ntCount' \in NtCounts /\ ntCount'.scans = ntCount.scans + 1 /\ ntCount'.fresh = ntCount.fresh
      /\ ntCount'.folded = ntCount.folded /\ ntCount'.fired = ntCount.fired
      /\ ntCount'.alerts = ntCount.alerts /\ ntCount'.carried = ntCount.carried
  BY <1>1, NtFoldTypes DEF NtCounts
<1>5. NtNothingLost' BY <1>1, <1>3, <1>4, NtFoldTypes DEF NtNothingLost
<1>6. /\ DOMAIN ntTodo' = NtThreads /\ (\A u \in NtThreads : NtTodoOK(ntTodo'[u]))
      /\ \A u \in NtThreads : \A x : NtHas(ntTodo[u], x) => NtHas(ntTodo'[u], x)
      /\ ntStreak + NtAllDue(ntTodo') <= ntInputs'
  BY <1>1, <1>2, NtNotGiven
<1>. QED BY <1>1, <1>2, <1>3, <1>4, <1>5, <1>6, NtFoldTypes, NtReported DEF ntHealth

\* The summary, if there is one, and the fresh notification.
LEMMA NtScanMsgs ==
  ASSUME NEW b \in BOOLEAN
  PROVE  /\ NtTodoOK((IF b THEN <<NtMsg("scan", "info")>> ELSE <<>>) \o <<NtMsg("scan", "info")>>)
         /\ NtTodoOK(IF b THEN <<NtMsg("scan", "info")>> ELSE <<>>)
         /\ NtDue(IF b THEN <<NtMsg("scan", "info")>> ELSE <<>>) = 0
<1>. DEFINE m == NtMsg("scan", "info")
<1>1. "scan" \in NtKeys \ NtDegradedKeys /\ "info" \in NtSeverities BY DEF NtKeys, NtDegradedKeys, NtSeverities
<1>2. m \in NtItems /\ m.do # "record" /\ m.key \notin NtDegradedKeys /\ NtTodoOK(<<m>>) /\ NtDue(<<m>>) = 0
  BY <1>1, NtPlainOK
<1>. HIDE DEF m
<1>3. NtTodoOK(<<m>> \o <<m>>) BY <1>2, NtConsOK
<1>4. <<>> \o <<m>> = <<m>> OBVIOUS
<1>5. CASE b BY <1>2, <1>3, <1>5 DEF m
<1>6. CASE ~b BY <1>2, <1>4, <1>6, NtEmptyOK DEF m
<1>. QED BY <1>5, <1>6

LEMMA NtScanFreshStep == ASSUME NtIndInv, NtScanFresh PROVE NtIndInv'
<1>. DEFINE s == (IF ntSup.n > 0 THEN <<NtMsg("scan", "info")>> ELSE <<>>) \o <<NtMsg("scan", "info")>>
<1>1. /\ NtQuiet("pipeline") /\ ntInputs < ntCast.max /\ ntInputs' = ntInputs + 1 /\ ntSup' = [start |-> ntNow, n |-> 0]
      /\ ntTodo' = [ntTodo EXCEPT !["pipeline"] = s]
      /\ ntCount' = [ntCount EXCEPT !.scans = @ + 1, !.fresh = @ + 1, !.folded = @ + ntSup.n]
      /\ UNCHANGED <<ntCast, ntNow, ntFaults, ntHealth, ntIneff, ntWire>>
  BY DEF NtScanFresh, NtInput
<1>2. NtTodoOK(s) /\ "pipeline" \in NtThreads BY NtScanMsgs DEF NtThreads
<1>. HIDE DEF s
<1>3. ntSup' \in NtWindowsT /\ ntSup'.n = 0 BY <1>1, NtFoldTypes DEF NtWindowsT
<1>4. /\ ntCount' \in NtCounts /\ ntCount'.scans = ntCount.scans + 1 /\ ntCount'.fresh = ntCount.fresh + 1
      /\ ntCount'.folded = ntCount.folded + ntSup.n /\ ntCount'.fired = ntCount.fired
      /\ ntCount'.alerts = ntCount.alerts /\ ntCount'.carried = ntCount.carried
  <2>. DEFINE c == ntCount
              d == ntCount'
              n == ntSup.n
  <2>1. c \in NtCounts /\ n \in Nat BY NtFoldTypes
  <2>2. d = [c EXCEPT !.scans = c.scans + 1, !.fresh = c.fresh + 1, !.folded = c.folded + n] BY <1>1
  <2>. HIDE DEF c, d, n
  <2>3. c.scans + 1 \in Nat /\ c.fresh + 1 \in Nat /\ c.folded + n \in Nat BY <2>1, NtCountsNat
  <2>4. /\ d \in NtCounts /\ d.scans = c.scans + 1 /\ d.fresh = c.fresh + 1 /\ d.folded = c.folded + n
        /\ d.fired = c.fired /\ d.alerts = c.alerts /\ d.carried = c.carried
    BY <2>1, <2>2, <2>3 DEF NtCounts
  <2>. QED BY <2>4 DEF c, d, n
<1>5. NtNothingLost' BY <1>1, <1>3, <1>4, NtFoldTypes DEF NtNothingLost
<1>. QED BY <1>1, <1>2, <1>3, <1>4, <1>5, NtFoldTypes, NtOneGiven DEF ntHealth

LEMMA NtFlushStep == ASSUME NtIndInv, NtFlush PROVE NtIndInv'
<1>. DEFINE s == IF ntSup.n > 0 THEN <<NtMsg("scan", "info")>> ELSE <<>>
<1>1. /\ NtQuiet("flush") /\ ntSup' = NtClosed /\ ntTodo' = [ntTodo EXCEPT !["flush"] = s]
      /\ ntCount' = [ntCount EXCEPT !.folded = @ + ntSup.n]
      /\ UNCHANGED <<ntCast, ntNow, ntInputs, ntFaults, ntHealth, ntIneff, ntWire>>
  BY DEF NtFlush
<1>2. NtTodoOK(s) /\ NtDue(s) = 0 /\ "flush" \in NtThreads BY NtScanMsgs DEF NtThreads
<1>. HIDE DEF s
<1>3. ntSup' \in NtWindowsT /\ ntSup'.n = 0 BY <1>1 DEF NtWindowsT, NtClosed, NtClaims
<1>4. /\ ntCount' \in NtCounts /\ ntCount'.scans = ntCount.scans /\ ntCount'.fresh = ntCount.fresh
      /\ ntCount'.folded = ntCount.folded + ntSup.n /\ ntCount'.fired = ntCount.fired
      /\ ntCount'.alerts = ntCount.alerts /\ ntCount'.carried = ntCount.carried
  BY <1>1, NtFoldTypes, NtCountFolded
<1>5. NtNothingLost' BY <1>1, <1>3, <1>4, NtFoldTypes DEF NtNothingLost
<1>6. ntInputs' \in 0 .. ntCast.max /\ ntInputs' \in Nat /\ ntInputs' >= ntInputs + NtDue(s)
  <2>1. ntCast.max \in Nat /\ ntInputs \in 0 .. ntCast.max BY NtConstants DEF NtIndInv, NtShape
  <2>. QED BY <1>1, <1>2, <2>1
<1>7. /\ DOMAIN ntTodo' = NtThreads /\ (\A u \in NtThreads : NtTodoOK(ntTodo'[u]))
      /\ \A u \in NtThreads : \A x : NtHas(ntTodo[u], x) => NtHas(ntTodo'[u], x)
      /\ ntStreak + NtAllDue(ntTodo') <= ntInputs'
  BY <1>1, <1>2, <1>6, NtGiven
<1>. QED BY <1>1, <1>3, <1>4, <1>5, <1>6, <1>7, NtFoldTypes, NtReported DEF ntHealth

LEMMA NtFiresStep == ASSUME NtIndInv, NtFires PROVE NtIndInv'
<1>. DEFINE s == <<NtMsg("ineffective", "critical")>>
<1>1. /\ NtQuiet("pipeline") /\ ntInputs < ntCast.max /\ ntInputs' = ntInputs + 1
      /\ UNCHANGED <<ntCast, ntNow, ntFaults, ntHealth, ntSup, ntWire>>
  BY DEF NtFires, NtInput
<1>2. CASE /\ ntIneff' = [ntIneff EXCEPT !.n = @ + 1] /\ ntCount' = [ntCount EXCEPT !.fired = @ + 1] /\ UNCHANGED ntTodo
  <2>1. ntInputs' \in 0 .. ntCast.max /\ ntInputs' >= ntInputs
    <3>1. ntInputs' \in 0 .. ntCast.max /\ ntInputs \in Nat /\ ntInputs' \in Nat /\ ntInputs' > ntInputs BY <1>1, NtInputIs
    <3>. QED BY <3>1
  <2>2. ntIneff' \in NtWindowsT /\ ntIneff'.n = ntIneff.n + 1 BY <1>2, NtFoldTypes DEF NtWindowsT
  <2>3. /\ ntCount' \in NtCounts /\ ntCount'.scans = ntCount.scans /\ ntCount'.fresh = ntCount.fresh
        /\ ntCount'.folded = ntCount.folded /\ ntCount'.fired = ntCount.fired + 1
        /\ ntCount'.alerts = ntCount.alerts /\ ntCount'.carried = ntCount.carried
    BY <1>2, NtFoldTypes DEF NtCounts
  <2>4. NtNothingLost' BY <1>1, <2>2, <2>3, NtFoldTypes DEF NtNothingLost
  <2>5. /\ DOMAIN ntTodo' = NtThreads /\ (\A u \in NtThreads : NtTodoOK(ntTodo'[u]))
        /\ \A u \in NtThreads : \A x : NtHas(ntTodo[u], x) => NtHas(ntTodo'[u], x)
        /\ ntStreak + NtAllDue(ntTodo') <= ntInputs'
    BY <1>2, <2>1, NtNotGiven
  <2>. QED BY <1>1, <2>1, <2>2, <2>3, <2>4, <2>5, NtFoldTypes, NtReported DEF ntHealth
<1>3. CASE /\ ntIneff' = [start |-> ntNow, n |-> 0] /\ ntTodo' = [ntTodo EXCEPT !["pipeline"] = s]
           /\ ntCount' = [ntCount EXCEPT !.fired = @ + 1, !.alerts = @ + 1, !.carried = @ + NtCarried]
  <2>1. "ineffective" \in NtKeys \ NtDegradedKeys /\ "critical" \in NtSeverities BY DEF NtKeys, NtDegradedKeys, NtSeverities
  <2>2. NtTodoOK(s) /\ "pipeline" \in NtThreads BY <2>1, NtPlainOK DEF NtThreads
  <2>. HIDE DEF s
  <2>3. ntIneff' \in NtWindowsT /\ ntIneff'.n = 0 BY <1>3, NtFoldTypes DEF NtWindowsT
  <2>4. /\ ntCount' \in NtCounts /\ ntCount'.scans = ntCount.scans /\ ntCount'.fresh = ntCount.fresh
        /\ ntCount'.folded = ntCount.folded /\ ntCount'.fired = ntCount.fired + 1
        /\ ntCount'.alerts = ntCount.alerts + 1 /\ ntCount'.carried = ntCount.carried + ntIneff.n
    <3>. DEFINE c == ntCount
                d == ntCount'
                n == ntIneff.n
    <3>1. c \in NtCounts /\ n \in Nat BY NtFoldTypes
    <3>2. d = [c EXCEPT !.fired = c.fired + 1, !.alerts = c.alerts + 1, !.carried = c.carried + n] BY <1>3 DEF NtCarried
    <3>. HIDE DEF c, d, n
    <3>3. c.fired + 1 \in Nat /\ c.alerts + 1 \in Nat /\ c.carried + n \in Nat BY <3>1, NtCountsNat
    <3>4. /\ d \in NtCounts /\ d.fired = c.fired + 1 /\ d.alerts = c.alerts + 1 /\ d.carried = c.carried + n
          /\ d.scans = c.scans /\ d.fresh = c.fresh /\ d.folded = c.folded
      BY <3>1, <3>2, <3>3 DEF NtCounts
    <3>. QED BY <3>4 DEF c, d, n
  <2>5. NtNothingLost' BY <1>1, <2>3, <2>4, NtFoldTypes DEF NtNothingLost
  <2>. QED BY <1>1, <1>3, <2>2, <2>3, <2>4, <2>5, NtFoldTypes, NtOneGiven DEF ntHealth
<1>. QED BY <1>2, <1>3 DEF NtFires

\* Clock, stamps and claims are numbers.
LEMMA NtWireTypes ==
  ASSUME NtIndInv
  PROVE  /\ ntNow \in Nat /\ ntNow \in NtTimes /\ NtDedup \in Nat /\ NtDedup >= 1 /\ NtNever = -1
         /\ \A k \in NtKeys : ntStamp[k] \in NtClaims /\ ntStamp[k] \in Int /\ ntStamp[k] >= -1
                              /\ ntSaid[k] \in NtClaims /\ ntSaid[k] \in Int /\ ntSaid[k] >= -1
         /\ \A t \in NtThreads : ntSend[t].claim \in Int /\ ntSend[t].claim \in NtClaims
         /\ \A t \in NtThreads : ntSend[t] = NtIdle \/ ntSend[t].key \in NtKeys
         /\ NtIdle.key = "none" /\ "none" \notin NtKeys /\ ntFaults \in Nat
         /\ ntOwed.at \in Int /\ ntOwed.key \in NtDegradedKeys \cup {"none"}
<1>1. NtShape BY DEF NtIndInv
<1>2. ntNow \in NtTimes /\ NtMaxTime \in Nat /\ NtMaxFaults \in Nat /\ NtDedup \in Nat /\ NtDedup >= 1
  BY <1>1, NtConstants DEF NtShape
<1>3. ntNow \in Nat BY <1>2 DEF NtTimes
<1>4. \A x \in NtClaims : x \in Int /\ x >= -1 BY <1>2 DEF NtClaims, NtTimes, NtNever
<1>5. \A t \in NtThreads : NtSendOK(ntSend[t]) BY <1>1 DEF NtShape
<1>6. \A t \in NtThreads : ntSend[t].claim \in NtClaims BY <1>5 DEF NtSendOK, NtSends
<1>7. ntFaults \in Nat BY <1>1, <1>2 DEF NtShape
<1>8. ntOwed.at \in NtTimes /\ ntOwed.key \in NtDegradedKeys \cup {"none"} BY <1>1 DEF NtShape, NtOwing
<1>9. ntOwed.at \in Int BY <1>8, <1>2 DEF NtTimes
<1>10. \A k \in NtKeys : ntStamp[k] \in NtClaims /\ ntSaid[k] \in NtClaims BY <1>1 DEF NtShape
<1>11. NtIdle.key = "none" /\ "none" \notin NtKeys BY DEF NtIdle, NtKeys
<1>. QED BY <1>2, <1>3, <1>4, <1>5, <1>6, <1>7, <1>8, <1>9, <1>10, <1>11 DEF NtSendOK, NtNever

\* One goroutine's send changes.
LEMMA NtSendSet ==
  ASSUME NtIndInv, NEW t \in NtThreads, NEW s, NtSendOK(s), ntSend' = [ntSend EXCEPT ![t] = s]
  PROVE  /\ DOMAIN ntSend' = NtThreads /\ ntSend'[t] = s /\ (\A u \in NtThreads \ {t} : ntSend'[u] = ntSend[u])
         /\ \A u \in NtThreads : NtSendOK(ntSend'[u])
<1>1. DOMAIN ntSend = NtThreads /\ (\A u \in NtThreads : NtSendOK(ntSend[u])) BY DEF NtIndInv, NtShape
<1>. QED BY <1>1

\* The first thing to do is taken off the list.
LEMMA NtPopped ==
  ASSUME NtIndInv, NEW t \in NtThreads, ntTodo[t] # <<>>, ntTodo' = [ntTodo EXCEPT ![t] = Tail(@)],
         Head(ntTodo[t]).do = "send"
  PROVE  /\ DOMAIN ntTodo' = NtThreads /\ (\A u \in NtThreads : NtTodoOK(ntTodo'[u]))
         /\ NtAllDue(ntTodo') = NtAllDue(ntTodo)
         /\ Head(ntTodo[t]) \in NtMsgs /\ Head(ntTodo[t]).key \in NtKeys /\ Head(ntTodo[t]).sev \in NtSeverities
         /\ Head(ntTodo[t]).key \in NtDegradedKeys => Head(ntTodo[t]).sev = "critical"
         /\ \A u \in NtThreads : \A x : NtHas(ntTodo[u], x) => NtHas(ntTodo'[u], x) \/ (u = t /\ x = Head(ntTodo[t]))
<1>. DEFINE s == Tail(ntTodo[t])
<1>1. DOMAIN ntTodo = NtThreads /\ (\A u \in NtThreads : NtTodoOK(ntTodo[u])) BY DEF NtIndInv, NtShape
<1>2. /\ Head(ntTodo[t]) \in NtItems /\ NtTodoOK(s) /\ NtDue(s) = NtDue(ntTodo[t])
      /\ \A x : NtHas(ntTodo[t], x) => x = Head(ntTodo[t]) \/ NtHas(s, x)
      /\ Head(ntTodo[t]).key \in NtDegradedKeys => Head(ntTodo[t]).sev = "critical"
  BY <1>1, NtTailOK
<1>3. ntTodo' = [ntTodo EXCEPT ![t] = s] OBVIOUS
<1>. HIDE DEF s
<1>4. /\ DOMAIN ntTodo' = NtThreads /\ ntTodo'[t] = s /\ (\A u \in NtThreads \ {t} : ntTodo'[u] = ntTodo[u])
      /\ (\A u \in NtThreads : NtTodoOK(ntTodo'[u]))
      /\ NtAllDue(ntTodo') = NtAllDue(ntTodo) - NtDue(ntTodo[t]) + NtDue(s)
  BY <1>1, <1>2, <1>3, NtTodoSet
<1>5. NtDue(s) \in {0, 1} /\ NtAllDue(ntTodo) \in Int
  <2>1. \A x : NtDue(x) \in {0, 1} BY DEF NtDue
  <2>. QED BY <2>1 DEF NtAllDue
<1>6. NtAllDue(ntTodo') = NtAllDue(ntTodo) BY <1>2, <1>4, <1>5
<1>7. Head(ntTodo[t]) \in NtMsgs /\ Head(ntTodo[t]).key \in NtKeys /\ Head(ntTodo[t]).sev \in NtSeverities
  BY <1>2, NtItemIs
<1>. QED BY <1>2, <1>4, <1>6, <1>7

\* The clock.
LEMMA NtTickStep == ASSUME NtIndInv, NtTick PROVE NtIndInv'
<1>1. /\ ntNow < NtMaxTime /\ ntNow' = ntNow + 1 /\ ntCast' = ntCast /\ ntInputs' = ntInputs /\ ntFaults' = ntFaults
      /\ ntStamp' = ntStamp /\ ntHistory' = ntHistory /\ ntTodo' = ntTodo /\ ntSend' = ntSend /\ ntArmed' = ntArmed
      /\ ntDegraded' = ntDegraded /\ ntStreak' = ntStreak /\ ntHealthy' = ntHealthy /\ ntSup' = ntSup
      /\ ntIneff' = ntIneff /\ ntSaid' = ntSaid /\ ntOwed' = ntOwed /\ ntCrits' = ntCrits /\ ntSince' = ntSince
      /\ ntCount' = ntCount
  BY DEF NtTick, ntHealth, ntFold, ntWire
<1>2. ntNow' \in NtTimes BY <1>1, NtWireTypes, NtConstants DEF NtTimes
<1>3. NtShape' BY <1>1, <1>2 DEF NtIndInv, NtShape
<1>4. NtQuotasOK' BY <1>1 DEF NtIndInv, NtQuotasOK
<1>5. NtStreakOK' BY <1>1 DEF NtIndInv, NtStreakOK
<1>6. NtWindowsOK'
  <2>1. NtWindowsOK BY DEF NtIndInv
  <2>2. ASSUME NEW k \in NtKeys PROVE NtKeyOK(k)'
    <3>1. NtKeyOK(k) BY <2>1 DEF NtWindowsOK
    <3>2. ntNow' = ntNow + 1 /\ ntNow \in Nat /\ ntStamp[k] \in Int /\ ntSaid[k] \in Int /\ NtDedup \in Nat BY <1>1, NtWireTypes
    <3>3. ntStamp'[k] <= ntNow' /\ ntSaid'[k] <= ntNow' BY <1>1, <3>1, <3>2 DEF NtKeyOK
    <3>4. NtApart(ntSaid[k], ntNow) => NtApart(ntSaid'[k], ntNow') BY <1>1, <3>2 DEF NtApart
    <3>. QED BY <1>1, <3>1, <3>3, <3>4 DEF NtKeyOK
  <2>3. ASSUME NEW t \in NtThreads PROVE NtClaimOK(t)'
    <3>1. NtClaimOK(t) BY <2>1 DEF NtWindowsOK
    <3>2. ntNow' = ntNow + 1 /\ ntNow \in Nat /\ ntSend[t].claim \in Int /\ NtDedup \in Nat BY <1>1, NtWireTypes
    <3>. QED BY <1>1, <3>1, <3>2 DEF NtClaimOK, NtApart
  <2>. QED BY <1>1, <2>1, <2>2, <2>3 DEF NtWindowsOK
<1>7. NtReachedOK' BY <1>1 DEF NtIndInv, NtReachedOK, NtPassed
<1>8. NtOwedOK' BY <1>1 DEF NtIndInv, NtOwedOK, NtHopeless
<1>9. NtOwedNow' BY <1>1, NtWireTypes DEF NtIndInv, NtOwedNow
<1>10. NtHealthOK' BY <1>1 DEF NtIndInv, NtHealthOK, NtHealthHonest
<1>11. NtNothingLost' BY <1>1 DEF NtIndInv, NtNothingLost
<1>. QED BY <1>3, <1>4, <1>5, <1>6, <1>7, <1>8, <1>9, <1>10, <1>11 DEF NtIndInv

\* What is remembered of the results since the last success.
NtSinceNow(err) ==
  CASE err = "ok" -> [fails |-> 0, throttles |-> 0]
    [] err = "fail" -> [ntSince EXCEPT !.fails = @ + 1]
    [] err = "throttle" -> [ntSince EXCEPT !.throttles = @ + 1]
    [] err = "refused" -> ntSince

\* One more failure or throttle.
LEMMA NtSinceIs ==
  ASSUME NEW s \in NtSinces
  PROVE  /\ [s EXCEPT !.fails = @ + 1] \in NtSinces /\ [s EXCEPT !.fails = @ + 1].fails = s.fails + 1
         /\ [s EXCEPT !.throttles = @ + 1] \in NtSinces /\ [s EXCEPT !.throttles = @ + 1].throttles = s.throttles + 1
         /\ [s EXCEPT !.throttles = @ + 1].fails = s.fails
         /\ [fails |-> 0, throttles |-> 0] \in NtSinces
BY DEF NtSinces

\* The rule of enfHealth, before and after a result.
LEMMA NtHonestRule ==
  ASSUME NEW f \in Nat, NEW h \in Nat, NEW n \in Nat, NEW d \in BOOLEAN,
         d <=> (f > 0 \/ h >= NtFlip), f = 0 => n = h
  PROVE  (d \/ n + 1 >= NtFlip) <=> (f > 0 \/ h + 1 >= NtFlip)
<1>1. NtFlip \in Nat BY NtConstants
<1>2. CASE f = 0 BY <1>1, <1>2
<1>3. CASE f > 0 BY <1>3
<1>. QED BY <1>2, <1>3

\* enfHealth: what a result does to it.
LEMMA NtHealthStep ==
  ASSUME NtIndInv, NEW err \in NtResults, ntDegraded' = NtDegradedNow(err), ntStreak' = NtStreakNow(err),
         ntSince' = NtSinceNow(err)
  PROVE  NtHealthOK' /\ ntDegraded' \in BOOLEAN /\ ntStreak' \in Nat /\ ntStreak' <= ntStreak + 1 /\ ntSince' \in NtSinces
<1>1. ntDegraded \in BOOLEAN /\ ntStreak \in Nat /\ ntSince \in NtSinces BY DEF NtIndInv, NtShape
<1>2. ntSince.fails \in Nat /\ ntSince.throttles \in Nat BY <1>1 DEF NtSinces
<1>3. /\ ntDegraded <=> (ntSince.fails > 0 \/ ntSince.throttles >= NtFlip)
      /\ ntSince.fails = 0 => ntStreak = ntSince.throttles
  BY DEF NtIndInv, NtHealthOK, NtHealthHonest
<1>4. NtFlip \in Nat /\ NtFlip >= 1 BY NtConstants
<1>. SUFFICES ASSUME TRUE
     PROVE /\ ntDegraded' \in BOOLEAN /\ ntStreak' \in Nat /\ ntStreak' <= ntStreak + 1 /\ ntSince' \in NtSinces
           /\ ntDegraded' <=> (ntSince'.fails > 0 \/ ntSince'.throttles >= NtFlip)
           /\ ntSince'.fails = 0 => ntStreak' = ntSince'.throttles
  BY DEF NtHealthOK, NtHealthHonest
<1>5. CASE err = "ok"
  <2>1. NtDegradedNow(err) = FALSE /\ NtStreakNow(err) = 0 /\ NtSinceNow(err) = [fails |-> 0, throttles |-> 0]
    BY <1>5 DEF NtDegradedNow, NtStreakNow, NtSinceNow
  <2>2. ~ntDegraded' /\ ntDegraded' \in BOOLEAN BY <2>1
  <2>3. ntSince' \in NtSinces /\ ntSince'.fails = 0 /\ ntSince'.throttles = 0 BY <2>1, NtSinceIs DEF NtSinces
  <2>. QED BY <1>1, <1>4, <2>1, <2>2, <2>3
<1>6. CASE err = "fail"
  <2>1. NtDegradedNow(err) = TRUE /\ NtStreakNow(err) = 0 /\ NtSinceNow(err) = [ntSince EXCEPT !.fails = @ + 1]
    BY <1>6 DEF NtDegradedNow, NtStreakNow, NtSinceNow
  <2>2. ntDegraded' /\ ntDegraded' \in BOOLEAN BY <2>1
  <2>3. ntSince' \in NtSinces /\ ntSince'.fails = ntSince.fails + 1 BY <1>1, <2>1, NtSinceIs
  <2>4. ntStreak' = 0 BY <2>1
  <2>. QED BY <1>1, <1>2, <2>4, <2>2, <2>3
<1>7. CASE err = "throttle"
  <2>1. (NtDegradedNow(err) <=> (ntDegraded \/ ntStreak + 1 >= NtFlip)) /\ NtDegradedNow(err) \in BOOLEAN
    BY <1>1, <1>7 DEF NtDegradedNow, NtStreakNow
  <2>2. NtStreakNow(err) = ntStreak + 1 /\ NtSinceNow(err) = [ntSince EXCEPT !.throttles = @ + 1]
    BY <1>7 DEF NtStreakNow, NtSinceNow
  <2>3. ntSince' \in NtSinces /\ ntSince'.fails = ntSince.fails /\ ntSince'.throttles = ntSince.throttles + 1
    BY <1>1, <2>2, NtSinceIs
  <2>4. (ntDegraded \/ ntStreak + 1 >= NtFlip) <=> (ntSince.fails > 0 \/ ntSince.throttles + 1 >= NtFlip)
    BY <1>1, <1>2, <1>3, NtHonestRule
  <2>5. ntDegraded' <=> (ntSince'.fails > 0 \/ ntSince'.throttles >= NtFlip) BY <2>1, <2>3, <2>4
  <2>6. ntDegraded' \in BOOLEAN BY <2>1
  <2>7. ntStreak' = ntStreak + 1 BY <2>2
  <2>. QED BY <1>1, <1>3, <2>3, <2>5, <2>6, <2>7
<1>8. CASE err = "refused"
  <2>1. NtDegradedNow(err) = ntDegraded /\ NtStreakNow(err) = ntStreak /\ NtSinceNow(err) = ntSince
    BY <1>8 DEF NtDegradedNow, NtStreakNow, NtSinceNow
  <2>2. ntDegraded' = ntDegraded /\ ntStreak' = ntStreak /\ ntSince' = ntSince BY <2>1
  <2>. QED BY <1>1, <1>3, <2>2
<1>. QED BY <1>5, <1>6, <1>7, <1>8 DEF NtResults

\* The record taken off, the alert of a transition put in its place.
LEMMA NtAlerted ==
  ASSUME NtIndInv, NEW t \in NtThreads, ntTodo[t] # <<>>, Head(ntTodo[t]).do = "record", NEW alert \in BOOLEAN,
         NEW m, m = NtMsg(NtAlertKey(Head(ntTodo[t]).op), "critical"),
         ntTodo' = [ntTodo EXCEPT ![t] = (IF alert THEN <<m>> ELSE <<>>) \o Tail(ntTodo[t])]
  PROVE  /\ DOMAIN ntTodo' = NtThreads /\ (\A u \in NtThreads : NtTodoOK(ntTodo'[u]))
         /\ NtAllDue(ntTodo') = NtAllDue(ntTodo) - 1 /\ Head(ntTodo[t]).err \in NtResults
         /\ NtAlertKey(Head(ntTodo[t]).op) \in NtDegradedKeys
         /\ alert => NtHas(ntTodo'[t], m)
         /\ \A u \in NtThreads : \A x : NtHas(ntTodo[u], x) /\ x.do = "send" => NtHas(ntTodo'[u], x)
<1>. DEFINE rest == Tail(ntTodo[t])
            s == (IF alert THEN <<m>> ELSE <<>>) \o rest
<1>1. DOMAIN ntTodo = NtThreads /\ (\A u \in NtThreads : NtTodoOK(ntTodo[u])) BY DEF NtIndInv, NtShape
<1>2. /\ Head(ntTodo[t]) \in NtItems /\ NtTodoOK(rest) /\ NtDue(rest) = 0 /\ NtDue(ntTodo[t]) = 1
      /\ \A x : NtHas(ntTodo[t], x) => x = Head(ntTodo[t]) \/ NtHas(rest, x)
  BY <1>1, NtTailOK
<1>3. Head(ntTodo[t]).err \in NtResults /\ Head(ntTodo[t]).op \in {"ban", "sync"} BY <1>2, NtItemIs
<1>4. NtAlertKey(Head(ntTodo[t]).op) \in NtDegradedKeys BY DEF NtAlertKey, NtDegradedKeys
<1>5. m \in NtItems /\ m.do = "send" /\ m.sev = "critical"
  <2>1. NtDegradedKeys \subseteq NtKeys /\ "critical" \in NtSeverities BY DEF NtDegradedKeys, NtKeys, NtSeverities
  <2>. QED BY <1>4, <2>1, NtMsgIs DEF NtItems
<1>. HIDE DEF rest
<1>6. NtTodoOK(s) /\ NtDue(s) = 0 /\ (alert => NtHas(s, m)) /\ \A x : NtHas(rest, x) => NtHas(s, x)
  <2>1. CASE alert
    <3>1. s = <<m>> \o rest BY <2>1
    <3>2. m.do # "record" BY <1>5
    <3>. HIDE DEF s
    <3>. QED BY <1>2, <1>5, <3>1, <3>2, NtConsOK
  <2>2. CASE ~alert
    <3>1. s = <<>> \o rest BY <2>2
    <3>2. <<>> \o rest = rest BY <1>2 DEF NtTodoOK
    <3>. QED BY <1>2, <2>2, <3>1, <3>2
  <2>. QED BY <2>1, <2>2
<1>7. ntTodo' = [ntTodo EXCEPT ![t] = s] BY DEF rest
<1>. HIDE DEF s
<1>8. /\ DOMAIN ntTodo' = NtThreads /\ ntTodo'[t] = s /\ (\A u \in NtThreads \ {t} : ntTodo'[u] = ntTodo[u])
      /\ (\A u \in NtThreads : NtTodoOK(ntTodo'[u]))
      /\ NtAllDue(ntTodo') = NtAllDue(ntTodo) - NtDue(ntTodo[t]) + NtDue(s)
  BY <1>1, <1>6, <1>7, NtTodoSet
<1>9. NtAllDue(ntTodo) \in Int
  <2>1. \A x : NtDue(x) \in {0, 1} BY DEF NtDue
  <2>. QED BY <2>1 DEF NtAllDue
<1>10. NtAllDue(ntTodo') = NtAllDue(ntTodo) - 1 BY <1>2, <1>6, <1>8, <1>9
<1>11. ASSUME NEW u \in NtThreads, NEW x, NtHas(ntTodo[u], x), x.do = "send" PROVE NtHas(ntTodo'[u], x)
  <2>1. CASE u = t
    <3>1. x # Head(ntTodo[t]) BY <1>11
    <3>. QED BY <1>2, <1>6, <1>8, <1>11, <2>1, <3>1
  <2>2. CASE u # t BY <1>8, <1>11, <2>2
  <2>. QED BY <2>1, <2>2
<1>. QED BY <1>3, <1>4, <1>6, <1>8, <1>10, <1>11

LEMMA NtRecordStep == ASSUME NtIndInv, NEW t \in NtThreads, NtRecord(t) PROVE NtIndInv'
<1>. DEFINE r == Head(ntTodo[t])
            alert == ~ntDegraded /\ NtDegradedNow(r.err) /\ ntArmed
            m == NtMsg(NtAlertKey(r.op), "critical")
<1>1. /\ ntTodo[t] # <<>> /\ r.do = "record" /\ ntDegraded' = NtDegradedNow(r.err) /\ ntStreak' = NtStreakNow(r.err)
      /\ ntTodo' = [ntTodo EXCEPT ![t] = (IF alert THEN <<m>> ELSE <<>>) \o Tail(ntTodo[t])]
      /\ ntOwed' = IF alert THEN [key |-> NtAlertKey(r.op), at |-> ntNow]
                   ELSE IF NtDegradedNow(r.err) THEN ntOwed ELSE [key |-> "none", at |-> 0]
      /\ ntSince' = NtSinceNow(r.err)
      /\ UNCHANGED <<ntCast, ntNow, ntInputs, ntFaults, ntArmed, ntHealthy, ntFold, ntWire>>
  BY DEF NtRecord, NtSinceNow
<1>2. alert \in BOOLEAN OBVIOUS
<1>3. /\ DOMAIN ntTodo' = NtThreads /\ (\A u \in NtThreads : NtTodoOK(ntTodo'[u]))
      /\ NtAllDue(ntTodo') = NtAllDue(ntTodo) - 1 /\ r.err \in NtResults /\ NtAlertKey(r.op) \in NtDegradedKeys
      /\ alert => NtHas(ntTodo'[t], m)
      /\ \A u \in NtThreads : \A x : NtHas(ntTodo[u], x) /\ x.do = "send" => NtHas(ntTodo'[u], x)
  <2>1. m = NtMsg(NtAlertKey(Head(ntTodo[t]).op), "critical") OBVIOUS
  <2>. HIDE DEF alert, m
  <2>. QED BY <1>1, <1>2, <2>1, NtAlerted
<1>4. NtHealthOK' /\ ntDegraded' \in BOOLEAN /\ ntStreak' \in Nat /\ ntStreak' <= ntStreak + 1 /\ ntSince' \in NtSinces
  <2>. HIDE DEF r, alert, m
  <2>. QED BY <1>1, <1>3, NtHealthStep
<1>. DEFINE g == NtAlertKey(r.op)
<1>5. /\ ntNow' = ntNow /\ ntCast' = ntCast /\ ntInputs' = ntInputs /\ ntFaults' = ntFaults
      /\ ntStamp' = ntStamp /\ ntHistory' = ntHistory /\ ntSend' = ntSend /\ ntArmed' = ntArmed
      /\ ntHealthy' = ntHealthy /\ ntSup' = ntSup /\ ntIneff' = ntIneff /\ ntSaid' = ntSaid /\ ntCrits' = ntCrits
      /\ ntCount' = ntCount
  BY <1>1 DEF ntFold, ntWire
<1>6. \/ alert /\ ntOwed' = [key |-> g, at |-> ntNow] /\ m = NtMsg(g, "critical")
      \/ ntOwed' = ntOwed
      \/ ntOwed' = [key |-> "none", at |-> 0]
  BY <1>1
<1>. HIDE DEF alert, m, g, r
<1>7. /\ ntOwed' \in NtOwing /\ ntOwed'.at <= ntNow
      /\ ntOwed'.key # "none" => (ntOwed' = ntOwed \/ (alert /\ m = NtMsg(ntOwed'.key, "critical")))
  <2>1. ntNow \in NtTimes /\ ntNow \in Nat /\ 0 \in NtTimes BY NtWireTypes, NtConstants DEF NtTimes
  <2>2. g \in NtDegradedKeys BY <1>3 DEF g
  <2>3. ntOwed \in NtOwing /\ ntOwed.at <= ntNow BY DEF NtIndInv, NtShape, NtOwedNow
  <2>4. CASE alert /\ ntOwed' = [key |-> g, at |-> ntNow] /\ m = NtMsg(g, "critical")
    <3>1. [key |-> g, at |-> ntNow] \in NtOwing BY <2>1, <2>2 DEF NtOwing
    <3>2. ntOwed' \in NtOwing /\ ntOwed'.at = ntNow /\ ntOwed'.key = g BY <2>4, <3>1
    <3>3. alert /\ m = NtMsg(ntOwed'.key, "critical") BY <2>4, <3>2
    <3>4. ntOwed'.at <= ntNow BY <2>1, <3>2
    <3>. QED BY <3>2, <3>3, <3>4, Zenon
  <2>5. CASE ntOwed' = ntOwed BY <2>3, <2>5
  <2>6. CASE ntOwed' = [key |-> "none", at |-> 0]
    <3>1. [key |-> "none", at |-> 0] \in NtOwing BY <2>1 DEF NtOwing
    <3>. QED BY <2>1, <2>6, <3>1
  <2>. QED BY <1>6, <2>4, <2>5, <2>6
<1>8. NtShape' BY <1>3, <1>4, <1>5, <1>7 DEF NtIndInv, NtShape
<1>9. NtQuotasOK' BY <1>5 DEF NtIndInv, NtQuotasOK
<1>10. NtStreakOK'
  <2>1. ntStreak + NtAllDue(ntTodo) <= ntInputs /\ ntStreak \in Nat /\ ntInputs \in Int
    <3>1. ntCast.max \in Nat BY NtConstants DEF NtIndInv, NtShape
    <3>. QED BY <3>1 DEF NtIndInv, NtStreakOK, NtShape
  <2>2. NtAllDue(ntTodo) \in Int
    <3>1. \A x : NtDue(x) \in {0, 1} BY DEF NtDue
    <3>. QED BY <3>1 DEF NtAllDue
  <2>. QED BY <1>3, <1>4, <1>5, <2>1, <2>2 DEF NtStreakOK
<1>11. NtWindowsOK' BY <1>5 DEF NtIndInv, NtWindowsOK, NtKeyOK, NtClaimOK
<1>12. NtReachedOK' BY <1>5 DEF NtIndInv, NtReachedOK, NtPassed
<1>13. NtOwedOK'
  <2>. SUFFICES ASSUME ntOwed'.key # "none"
               PROVE  \/ ntSaid'[ntOwed'.key] # NtNever /\ ntOwed'.at - ntSaid'[ntOwed'.key] < NtDedup
                      \/ \E u \in NtThreads : ntSend'[u].key = ntOwed'.key /\ ntOwed'.at - ntSend'[u].claim < NtDedup
                      \/ \E u \in NtThreads : NtHas(ntTodo'[u], NtMsg(ntOwed'.key, "critical"))
                      \/ NtHopeless'
    BY DEF NtOwedOK
  <2>1. CASE ntOwed' = ntOwed
    <3>1. \/ ntSaid[ntOwed.key] # NtNever /\ ntOwed.at - ntSaid[ntOwed.key] < NtDedup
          \/ \E u \in NtThreads : ntSend[u].key = ntOwed.key /\ ntOwed.at - ntSend[u].claim < NtDedup
          \/ \E u \in NtThreads : NtHas(ntTodo[u], NtMsg(ntOwed.key, "critical"))
          \/ NtHopeless
      BY <2>1 DEF NtIndInv, NtOwedOK
    <3>2. NtHopeless => NtHopeless' BY <1>5 DEF NtHopeless
    <3>3. NtMsg(ntOwed.key, "critical").do = "send" BY DEF NtMsg
    <3>. QED BY <1>3, <1>5, <2>1, <3>1, <3>2, <3>3
  <2>2. CASE alert /\ m = NtMsg(ntOwed'.key, "critical") BY <1>3, <2>2
  <2>. QED BY <1>7, <2>1, <2>2
<1>14. NtOwedNow' BY <1>5, <1>7 DEF NtOwedNow
<1>15. NtNothingLost' BY <1>5 DEF NtIndInv, NtNothingLost
<1>. QED BY <1>4, <1>8, <1>9, <1>10, <1>11, <1>12, <1>13, <1>14, <1>15 DEF NtIndInv

\* A free window: the last delivery and every send of the key are a window old.
LEMMA NtClaimFacts ==
  ASSUME NtIndInv, NEW k \in NtKeys, NtFree(k)
  PROVE  /\ NtApart(ntSaid[k], ntNow)
         /\ \A t \in NtThreads : ntSend[t].key = k => ntNow - ntSend[t].claim >= NtDedup
<1>1. NtKeyOK(k) /\ \A t \in NtThreads : NtClaimOK(t) BY DEF NtIndInv, NtWindowsOK
<1>2. /\ ntNow \in Nat /\ NtDedup \in Nat /\ NtDedup >= 1 /\ NtNever = -1 /\ ntStamp[k] \in Int /\ ntSaid[k] \in Int
      /\ \A t \in NtThreads : ntSend[t].claim \in Int
  BY NtWireTypes
<1>3. NtApart(ntSaid[k], ntNow) BY <1>1, <1>2 DEF NtKeyOK, NtApart, NtFree
<1>4. ASSUME NEW t \in NtThreads, ntSend[t].key = k PROVE ntNow - ntSend[t].claim >= NtDedup
  <2>1. /\ ntStamp[k] = NtNever => ntNow - ntSend[t].claim >= NtDedup
        /\ ntStamp[k] # NtNever => ntSend[t].claim = ntStamp[k] \/ ntStamp[k] - ntSend[t].claim >= NtDedup
    BY <1>1, <1>4 DEF NtClaimOK
  <2>2. ntStamp[k] <= ntNow BY <1>1 DEF NtKeyOK
  <2>. QED BY <1>2, <2>1, <2>2 DEF NtFree
<1>. QED BY <1>3, <1>4

LEMMA NtNewSend ==
  ASSUME NEW k \in NtKeys, NEW v \in NtSeverities, NEW n \in NtTimes, k \in NtDegradedKeys => v = "critical"
  PROVE  LET s == [key |-> k, sev |-> v, at |-> 1, claim |-> n, delivered |-> FALSE] IN
         NtSendOK(s) /\ s # NtIdle /\ s.key = k /\ s.sev = v /\ s.at = 1 /\ s.claim = n /\ ~s.delivered
<1>1. k # "none" BY DEF NtKeys
<1>2. n \in NtClaims BY DEF NtClaims
<1>. QED BY <1>1, <1>2 DEF NtSendOK, NtSends, NtIdle

LEMMA NtClaimStep == ASSUME NtIndInv, NEW t \in NtThreads, NtClaim(t) PROVE NtIndInv'
<1>. DEFINE m == Head(ntTodo[t])
            k == m.key
            s == [key |-> m.key, sev |-> m.sev, at |-> 1, claim |-> ntNow, delivered |-> FALSE]
<1>1. /\ ntSend[t] = NtIdle /\ ntTodo[t] # <<>> /\ m.do = "send" /\ NtFree(k) /\ ntStamp' = [ntStamp EXCEPT ![k] = ntNow]
      /\ ntSend' = [ntSend EXCEPT ![t] = s] /\ ntTodo' = [ntTodo EXCEPT ![t] = Tail(@)]
      /\ UNCHANGED <<ntCast, ntNow, ntInputs, ntFaults, ntHealth, ntFold, ntHistory, ntSaid, ntCrits>>
  BY DEF NtClaim, NtStamped
<1>2. /\ DOMAIN ntTodo' = NtThreads /\ (\A u \in NtThreads : NtTodoOK(ntTodo'[u]))
      /\ NtAllDue(ntTodo') = NtAllDue(ntTodo) /\ m \in NtMsgs /\ k \in NtKeys /\ m.sev \in NtSeverities
      /\ k \in NtDegradedKeys => m.sev = "critical"
      /\ \A u \in NtThreads : \A x : NtHas(ntTodo[u], x) => NtHas(ntTodo'[u], x) \/ (u = t /\ x = m)
  BY <1>1, NtPopped
<1>3. /\ ntCast' = ntCast /\ ntNow' = ntNow /\ ntInputs' = ntInputs /\ ntFaults' = ntFaults /\ ntArmed' = ntArmed
      /\ ntDegraded' = ntDegraded /\ ntStreak' = ntStreak /\ ntHealthy' = ntHealthy /\ ntOwed' = ntOwed
      /\ ntSince' = ntSince /\ ntSup' = ntSup /\ ntIneff' = ntIneff /\ ntCount' = ntCount
      /\ ntHistory' = ntHistory /\ ntSaid' = ntSaid /\ ntCrits' = ntCrits
  BY <1>1 DEF ntHealth, ntFold
<1>4. /\ NtSendOK(s) /\ s # NtIdle /\ s.key = k /\ s.sev = m.sev /\ s.at = 1 /\ s.claim = ntNow /\ ~s.delivered
  <2>1. ntNow \in NtTimes BY NtWireTypes
  <2>. QED BY <1>2, <2>1, NtNewSend
<1>5. NtApart(ntSaid[k], ntNow) /\ \A u \in NtThreads : ntSend[u].key = k => ntNow - ntSend[u].claim >= NtDedup
  BY <1>1, <1>2, NtClaimFacts
<1>. HIDE DEF m, k, s
<1>6. /\ DOMAIN ntSend' = NtThreads /\ ntSend'[t] = s /\ (\A u \in NtThreads \ {t} : ntSend'[u] = ntSend[u])
      /\ \A u \in NtThreads : NtSendOK(ntSend'[u])
  BY <1>1, <1>4, NtSendSet
<1>7. /\ ntStamp \in [NtKeys -> NtClaims] /\ ntNow \in NtTimes /\ ntNow \in NtClaims BY DEF NtIndInv, NtShape, NtClaims
<1>8. /\ ntStamp' \in [NtKeys -> NtClaims] /\ ntStamp'[k] = ntNow /\ \A j \in NtKeys \ {k} : ntStamp'[j] = ntStamp[j]
  BY <1>1, <1>2, <1>7
<1>9. /\ ntNow \in Nat /\ NtDedup \in Nat /\ NtDedup >= 1 /\ NtNever = -1
      /\ \A j \in NtKeys : ntStamp[j] \in Int /\ ntSaid[j] \in Int
      /\ \A u \in NtThreads : ntSend[u].claim \in Int
      /\ NtIdle.key = "none" /\ "none" \notin NtKeys
  BY NtWireTypes
<1>10. NtShape' BY <1>2, <1>3, <1>6, <1>8 DEF NtIndInv, NtShape
<1>11. NtQuotasOK' BY <1>3 DEF NtIndInv, NtQuotasOK
<1>12. NtStreakOK' BY <1>2, <1>3 DEF NtIndInv, NtStreakOK
<1>13. NtWindowsOK'
  <2>1. /\ \A j \in NtKeys : NtKeyOK(j)
        /\ \A u \in NtThreads : NtClaimOK(u)
        /\ \A u, v \in NtThreads : u # v /\ ntSend[u].key = ntSend[v].key /\ ntSend[u].key \in NtKeys => ntSend[u].claim # ntSend[v].claim
    BY DEF NtIndInv, NtWindowsOK
  <2>2. ASSUME NEW j \in NtKeys PROVE NtKeyOK(j)'
    <3>1. CASE j = k
      <4>1. ntSaid[k] <= ntNow BY <2>1, <1>2 DEF NtKeyOK
      <4>2. ntSend'[t].key = k /\ ntSend'[t].claim = ntStamp'[k] BY <1>4, <1>6, <1>8
      <4>. QED BY <1>3, <1>8, <1>9, <3>1, <4>1, <4>2 DEF NtKeyOK
    <3>2. CASE j # k
      <4>1. NtKeyOK(j) /\ ntStamp'[j] = ntStamp[j] BY <1>8, <2>1, <3>2
      <4>2. ASSUME NEW u \in NtThreads, ntSend[u].key = j PROVE ntSend'[u] = ntSend[u] BY <1>1, <1>6, <1>9, <4>2
      <4>. QED BY <1>3, <4>1, <4>2 DEF NtKeyOK
    <3>. QED BY <3>1, <3>2
  <2>3. ASSUME NEW u \in NtThreads PROVE NtClaimOK(u)'
    <3>1. CASE u = t
      <4>1. ntSend'[u].key = k /\ ntSend'[u].claim = ntNow /\ ~ntSend'[u].delivered BY <1>4, <1>6, <3>1
      <4>. QED BY <1>3, <1>5, <1>7, <1>8, <1>9, <4>1 DEF NtClaimOK
    <3>2. CASE u # t /\ ntSend[u].key = k
      <4>1. ntSend'[u] = ntSend[u] /\ NtClaimOK(u) /\ ntNow - ntSend[u].claim >= NtDedup BY <1>5, <1>6, <2>1, <3>2
      <4>. QED BY <1>2, <1>3, <1>8, <1>9, <3>2, <4>1 DEF NtClaimOK
    <3>3. CASE u # t /\ ntSend[u].key # k
      <4>1. ntSend'[u] = ntSend[u] /\ NtClaimOK(u) BY <1>6, <2>1, <3>3
      <4>. QED BY <1>3, <1>8, <3>3, <4>1 DEF NtClaimOK
    <3>. QED BY <3>1, <3>2, <3>3
  <2>4. ASSUME NEW u \in NtThreads, NEW v \in NtThreads, u # v, ntSend'[u].key = ntSend'[v].key, ntSend'[u].key \in NtKeys
        PROVE  ntSend'[u].claim # ntSend'[v].claim
    <3>1. CASE u = t
      <4>1. ntSend'[v] = ntSend[v] /\ ntSend[v].key = k /\ ntSend'[u].claim = ntNow BY <1>4, <1>6, <2>4, <3>1
      <4>2. ntNow - ntSend[v].claim >= NtDedup BY <1>5, <4>1
      <4>. QED BY <1>9, <4>1, <4>2
    <3>2. CASE v = t
      <4>1. ntSend'[u] = ntSend[u] /\ ntSend[u].key = k /\ ntSend'[v].claim = ntNow BY <1>4, <1>6, <2>4, <3>2
      <4>2. ntNow - ntSend[u].claim >= NtDedup BY <1>5, <4>1
      <4>. QED BY <1>9, <4>1, <4>2
    <3>3. CASE u # t /\ v # t BY <1>6, <2>1, <2>4, <3>3
    <3>. QED BY <3>1, <3>2, <3>3
  <2>. QED BY <2>2, <2>3, <2>4 DEF NtWindowsOK
<1>14. NtReachedOK'
  <2>. SUFFICES ASSUME NEW u \in NtThreads, ntSend'[u].key \in NtKeys, ntSend'[u].sev = "critical",
                       NEW c \in DOMAIN NtChannels, c < ntSend'[u].at
                PROVE  NtPassed(c, ntSend[u])'
    BY DEF NtReachedOK
  <2>1. u # t
    <3>1. c \in Int /\ c >= 1 BY NtConstants
    <3>2. ntSend'[t].at = 1 BY <1>4, <1>6
    <3>. QED BY <3>1, <3>2
  <2>2. ntSend'[u] = ntSend[u] BY <1>6, <2>1
  <2>3. NtPassed(c, ntSend[u]) BY <2>2 DEF NtIndInv, NtReachedOK
  <2>. QED BY <1>3, <2>2, <2>3 DEF NtPassed
<1>15. NtOwedOK'
  <2>. SUFFICES ASSUME ntOwed.key # "none"
               PROVE  \/ ntSaid[ntOwed.key] # NtNever /\ ntOwed.at - ntSaid[ntOwed.key] < NtDedup
                      \/ \E u \in NtThreads : ntSend'[u].key = ntOwed.key /\ ntOwed.at - ntSend'[u].claim < NtDedup
                      \/ \E u \in NtThreads : NtHas(ntTodo'[u], NtMsg(ntOwed.key, "critical"))
                      \/ NtHopeless'
    BY <1>3 DEF NtOwedOK
  <2>1. CASE ntSaid[ntOwed.key] # NtNever /\ ntOwed.at - ntSaid[ntOwed.key] < NtDedup BY <2>1
  <2>2. CASE \E u \in NtThreads : ntSend[u].key = ntOwed.key /\ ntOwed.at - ntSend[u].claim < NtDedup
    <3>1. PICK u \in NtThreads : ntSend[u].key = ntOwed.key /\ ntOwed.at - ntSend[u].claim < NtDedup BY <2>2
    <3>2. u # t BY <1>1, <1>9, <3>1
    <3>. QED BY <1>6, <3>1, <3>2
  <2>3. CASE \E u \in NtThreads : NtHas(ntTodo[u], NtMsg(ntOwed.key, "critical"))
    <3>1. PICK u \in NtThreads : NtHas(ntTodo[u], NtMsg(ntOwed.key, "critical")) BY <2>3
    <3>2. CASE NtHas(ntTodo'[u], NtMsg(ntOwed.key, "critical")) BY <3>2
    <3>3. CASE NtMsg(ntOwed.key, "critical") = m
      <4>1. NtMsg(ntOwed.key, "critical").key = ntOwed.key BY DEF NtMsg
      <4>2. k = ntOwed.key BY <3>3, <4>1 DEF k
      <4>3. ntOwed.at <= ntNow /\ ntOwed.at \in Int BY NtWireTypes DEF NtIndInv, NtOwedNow
      <4>4. ntOwed.at - ntSend'[t].claim < NtDedup /\ ntSend'[t].key = ntOwed.key BY <1>4, <1>6, <1>9, <4>2, <4>3
      <4>. QED BY <4>4
    <3>. QED BY <1>2, <3>1, <3>2, <3>3
  <2>4. CASE NtHopeless BY <1>3, <2>4 DEF NtHopeless
  <2>. QED BY <2>1, <2>2, <2>3, <2>4 DEF NtIndInv, NtOwedOK
<1>16. NtOwedNow' BY <1>3 DEF NtIndInv, NtOwedNow
<1>17. NtHealthOK' BY <1>3 DEF NtIndInv, NtHealthOK, NtHealthHonest
<1>18. NtNothingLost' BY <1>3 DEF NtIndInv, NtNothingLost
<1>. QED BY <1>10, <1>11, <1>12, <1>13, <1>14, <1>15, <1>16, <1>17, <1>18 DEF NtIndInv

LEMMA NtDuplicateStep == ASSUME NtIndInv, NEW t \in NtThreads, NtDuplicate(t) PROVE NtIndInv'
<1>. DEFINE m == Head(ntTodo[t])
            k == m.key
<1>1. /\ ntTodo[t] # <<>> /\ m.do = "send" /\ ~NtFree(k) /\ ntTodo' = [ntTodo EXCEPT ![t] = Tail(@)]
      /\ UNCHANGED <<ntCast, ntNow, ntInputs, ntFaults, ntHealth, ntFold, ntWire>>
  BY DEF NtDuplicate
<1>2. /\ DOMAIN ntTodo' = NtThreads /\ (\A u \in NtThreads : NtTodoOK(ntTodo'[u]))
      /\ NtAllDue(ntTodo') = NtAllDue(ntTodo) /\ k \in NtKeys
      /\ \A u \in NtThreads : \A x : NtHas(ntTodo[u], x) => NtHas(ntTodo'[u], x) \/ (u = t /\ x = m)
  BY <1>1, NtPopped
<1>3. /\ ntCast' = ntCast /\ ntNow' = ntNow /\ ntInputs' = ntInputs /\ ntFaults' = ntFaults /\ ntArmed' = ntArmed
      /\ ntDegraded' = ntDegraded /\ ntStreak' = ntStreak /\ ntHealthy' = ntHealthy /\ ntOwed' = ntOwed
      /\ ntSince' = ntSince /\ ntSup' = ntSup /\ ntIneff' = ntIneff /\ ntCount' = ntCount
      /\ ntHistory' = ntHistory /\ ntSaid' = ntSaid /\ ntCrits' = ntCrits /\ ntStamp' = ntStamp /\ ntSend' = ntSend
  BY <1>1 DEF ntHealth, ntFold, ntWire
<1>. HIDE DEF m, k
<1>9. /\ ntNow \in Nat /\ NtDedup \in Nat /\ NtDedup >= 1 /\ NtNever = -1
      /\ \A j \in NtKeys : ntStamp[j] \in Int /\ ntSaid[j] \in Int
  BY NtWireTypes
<1>10. NtShape' BY <1>2, <1>3 DEF NtIndInv, NtShape
<1>11. NtQuotasOK' BY <1>3 DEF NtIndInv, NtQuotasOK
<1>12. NtStreakOK' BY <1>2, <1>3 DEF NtIndInv, NtStreakOK
<1>13. NtWindowsOK' BY <1>3 DEF NtIndInv, NtWindowsOK, NtKeyOK, NtClaimOK
<1>14. NtReachedOK' BY <1>3 DEF NtIndInv, NtReachedOK, NtPassed
<1>15. NtOwedOK'
  <2>. SUFFICES ASSUME ntOwed.key # "none"
               PROVE  \/ ntSaid[ntOwed.key] # NtNever /\ ntOwed.at - ntSaid[ntOwed.key] < NtDedup
                      \/ \E u \in NtThreads : ntSend[u].key = ntOwed.key /\ ntOwed.at - ntSend[u].claim < NtDedup
                      \/ \E u \in NtThreads : NtHas(ntTodo'[u], NtMsg(ntOwed.key, "critical"))
                      \/ NtHopeless'
    BY <1>3 DEF NtOwedOK
  <2>3. CASE \E u \in NtThreads : NtHas(ntTodo[u], NtMsg(ntOwed.key, "critical"))
    <3>1. PICK u \in NtThreads : NtHas(ntTodo[u], NtMsg(ntOwed.key, "critical")) BY <2>3
    <3>2. CASE NtHas(ntTodo'[u], NtMsg(ntOwed.key, "critical")) BY <3>2
    <3>3. CASE NtMsg(ntOwed.key, "critical") = m
      <4>1. NtMsg(ntOwed.key, "critical").key = ntOwed.key BY DEF NtMsg
      <4>2. k = ntOwed.key BY <3>3, <4>1 DEF k
      <4>3. ntOwed.at <= ntNow /\ ntOwed.at \in Int BY NtWireTypes DEF NtIndInv, NtOwedNow
      <4>4. NtKeyOK(k) BY <1>2 DEF NtIndInv, NtWindowsOK
      <4>5. ntStamp[k] # NtNever /\ ntNow - ntStamp[k] < NtDedup BY <1>1, <1>2, <1>9 DEF NtFree
      <4>6. ntOwed.at - ntStamp[k] < NtDedup BY <1>2, <1>9, <4>3, <4>5
      <4>7. ntSaid[k] = ntStamp[k] \/ \E v \in NtThreads : ntSend[v].key = k /\ ntSend[v].claim = ntStamp[k]
        BY <4>4, <4>5 DEF NtKeyOK
      <4>. QED BY <4>2, <4>5, <4>6, <4>7
    <3>. QED BY <1>2, <3>1, <3>2, <3>3
  <2>4. CASE NtHopeless BY <1>3, <2>4 DEF NtHopeless
  <2>. QED BY <2>3, <2>4 DEF NtIndInv, NtOwedOK
<1>16. NtOwedNow' BY <1>3 DEF NtIndInv, NtOwedNow
<1>17. NtHealthOK' BY <1>3 DEF NtIndInv, NtHealthOK, NtHealthHonest
<1>18. NtNothingLost' BY <1>3 DEF NtIndInv, NtNothingLost
<1>. QED BY <1>10, <1>11, <1>12, <1>13, <1>14, <1>15, <1>16, <1>17, <1>18 DEF NtIndInv

\* A send goes on to the next channel.
NtMovesTo(s, ok) == [s EXCEPT !.at = s.at + 1, !.delivered = s.delivered \/ ok]
LEMMA NtMovedOn ==
  ASSUME NEW s, NtSendOK(s), s # NtIdle, NEW ok \in BOOLEAN, NEW q, q = NtMovesTo(s, ok)
  PROVE  /\ NtSendOK(q) /\ q.key = s.key /\ q.sev = s.sev /\ q.claim = s.claim /\ q.at = s.at + 1
         /\ q.delivered <=> (s.delivered \/ ok)
         /\ s.key \in NtKeys /\ s.at \in Nat /\ s.delivered \in BOOLEAN
<1>1. s \in NtSends /\ s.key \in NtKeys BY DEF NtSendOK
<1>2. s.at \in Nat /\ s.delivered \in BOOLEAN BY <1>1 DEF NtSends
<1>3. s.at + 1 \in Nat /\ (s.delivered \/ ok) \in BOOLEAN BY <1>2
<1>4. q \in NtSends BY <1>1, <1>3 DEF NtSends, NtMovesTo
<1>5. /\ q.key = s.key /\ q.sev = s.sev /\ q.claim = s.claim /\ q.at = s.at + 1
      /\ q.delivered <=> (s.delivered \/ ok)
  BY <1>1, <1>2 DEF NtSends, NtMovesTo
<1>. QED BY <1>1, <1>2, <1>4, <1>5 DEF NtSendOK

\* The later of the last delivery and the claim.
LEMMA NtMaxIs == ASSUME NEW a \in Int, NEW b \in Int PROVE Max({a, b}) = IF a >= b THEN a ELSE b
<1>1. Max({a, b}) = CHOOSE x \in {a, b} : \A y \in {a, b} : x >= y BY DEF Max
<1>2. \E x \in {a, b} : \A y \in {a, b} : x >= y
  <2>1. CASE a >= b BY <2>1
  <2>2. CASE b >= a BY <2>2
  <2>. QED BY <2>1, <2>2
<1>3. Max({a, b}) \in {a, b} /\ \A y \in {a, b} : Max({a, b}) >= y BY <1>1, <1>2, Zenon
<1>. QED BY <1>3

\* A channel is done with: skipped, over its quota, or handed the message.
LEMMA NtMoved ==
  ASSUME NtIndInv, NEW t \in NtThreads, NtAtChannel(t), NEW ok \in BOOLEAN,
         NEW q, q = NtMovesTo(ntSend[t], ok),
         ntSend' = [ntSend EXCEPT ![t] = q],
         ntSaid' = (IF ~ok THEN ntSaid ELSE [ntSaid EXCEPT ![ntSend[t].key] = Max({ntSaid[ntSend[t].key], ntSend[t].claim})]),
         UNCHANGED <<ntCast, ntNow, ntInputs, ntTodo, ntHealth, ntFold, ntStamp>>,
         ntHistory' \in [DOMAIN NtChannels -> NtLimits], NtQuotasOK',
         ntCrits' \in [DOMAIN NtChannels -> Nat], \A c \in DOMAIN NtChannels : ntCrits'[c] >= ntCrits[c],
         ntFaults' \in 0 .. NtMaxFaults, ntFaults' >= ntFaults,
         NEW c1, c1 = ntSend[t].at, ntSend[t].sev = "critical" => NtPassed(c1, q)'
  PROVE  NtIndInv'
<1>. DEFINE k == ntSend[t].key
            c0 == ntSend[t].claim
<1>1. ntSend[t] # NtIdle /\ NtSendOK(ntSend[t]) BY DEF NtAtChannel, NtIndInv, NtShape
<1>2. /\ NtSendOK(q) /\ q.key = k /\ q.sev = ntSend[t].sev /\ q.claim = c0 /\ q.at = ntSend[t].at + 1
      /\ q.delivered <=> (ntSend[t].delivered \/ ok)
      /\ k \in NtKeys /\ ntSend[t].at \in Nat /\ ntSend[t].delivered \in BOOLEAN
  <2>. DEFINE s == ntSend[t]
  <2>1. NtSendOK(s) /\ s # NtIdle /\ q = NtMovesTo(s, ok) BY <1>1
  <2>. HIDE DEF s
  <2>2. /\ NtSendOK(q) /\ q.key = s.key /\ q.sev = s.sev /\ q.claim = s.claim /\ q.at = s.at + 1
        /\ q.delivered <=> (s.delivered \/ ok)
        /\ s.key \in NtKeys /\ s.at \in Nat /\ s.delivered \in BOOLEAN
    BY <2>1, NtMovedOn
  <2>. QED BY <2>2 DEF s
<1>3. /\ DOMAIN ntSend' = NtThreads /\ ntSend'[t] = q /\ (\A u \in NtThreads \ {t} : ntSend'[u] = ntSend[u])
      /\ \A u \in NtThreads : NtSendOK(ntSend'[u])
  BY <1>2, NtSendSet
<1>4. /\ ntCast' = ntCast /\ ntNow' = ntNow /\ ntInputs' = ntInputs /\ ntArmed' = ntArmed
      /\ ntDegraded' = ntDegraded /\ ntStreak' = ntStreak /\ ntHealthy' = ntHealthy /\ ntOwed' = ntOwed
      /\ ntSince' = ntSince /\ ntSup' = ntSup /\ ntIneff' = ntIneff /\ ntCount' = ntCount /\ ntTodo' = ntTodo
      /\ ntStamp' = ntStamp
  BY DEF ntHealth, ntFold
<1>5. /\ ntNow \in Nat /\ NtDedup \in Nat /\ NtDedup >= 1 /\ NtNever = -1
      /\ \A j \in NtKeys : ntStamp[j] \in Int /\ ntSaid[j] \in Int /\ ntSaid[j] >= -1
      /\ \A u \in NtThreads : ntSend[u].claim \in Int /\ ntSend[u].claim \in NtClaims
  BY NtWireTypes
<1>6. ntSaid \in [NtKeys -> NtClaims] BY DEF NtIndInv, NtShape
<1>7. /\ ntSaid' \in [NtKeys -> NtClaims] /\ \A j \in NtKeys \ {k} : ntSaid'[j] = ntSaid[j]
      /\ ntSaid'[k] = IF ok /\ c0 >= ntSaid[k] THEN c0 ELSE ntSaid[k]
  <2>1. CASE ~ok BY <1>6, <2>1
  <2>2. CASE ok
    <3>1. ntSaid' = [ntSaid EXCEPT ![k] = Max({ntSaid[k], c0})] BY <2>2
    <3>2. ntSaid[k] \in Int /\ c0 \in Int /\ ntSaid[k] \in NtClaims /\ c0 \in NtClaims BY <1>2, <1>5, <1>6
    <3>3. Max({ntSaid[k], c0}) = IF ntSaid[k] >= c0 THEN ntSaid[k] ELSE c0 BY <3>2, NtMaxIs
    <3>4. Max({ntSaid[k], c0}) \in NtClaims BY <3>2, <3>3
    <3>5. ntSaid' \in [NtKeys -> NtClaims] /\ (\A j \in NtKeys \ {k} : ntSaid'[j] = ntSaid[j]) /\ ntSaid'[k] = Max({ntSaid[k], c0})
      BY <1>2, <1>6, <3>1, <3>4
    <3>6. (IF ntSaid[k] >= c0 THEN ntSaid[k] ELSE c0) = (IF c0 >= ntSaid[k] THEN c0 ELSE ntSaid[k]) BY <3>2
    <3>. QED BY <2>2, <3>3, <3>5, <3>6
  <2>. QED BY <2>1, <2>2
<1>8. /\ \A j \in NtKeys : ntSaid'[j] >= ntSaid[j] /\ ntSaid'[j] \in Int
      /\ \A u \in NtThreads : ntSend'[u].key = ntSend[u].key /\ ntSend'[u].claim = ntSend[u].claim /\ ntSend'[u].sev = ntSend[u].sev
  <2>1. ASSUME NEW j \in NtKeys PROVE ntSaid'[j] >= ntSaid[j] /\ ntSaid'[j] \in Int
    <3>1. CASE j = k BY <1>2, <1>5, <1>7, <3>1
    <3>2. CASE j # k BY <1>5, <1>7, <3>2
    <3>. QED BY <3>1, <3>2
  <2>2. ASSUME NEW u \in NtThreads
        PROVE  ntSend'[u].key = ntSend[u].key /\ ntSend'[u].claim = ntSend[u].claim /\ ntSend'[u].sev = ntSend[u].sev
    <3>1. CASE u = t BY <1>2, <1>3, <3>1
    <3>2. CASE u # t BY <1>3, <3>2
    <3>. QED BY <3>1, <3>2
  <2>. QED BY <2>1, <2>2
<1>. HIDE DEF k, c0
<1>10. NtShape' BY <1>3, <1>4, <1>7 DEF NtIndInv, NtShape
<1>12. NtStreakOK' BY <1>4 DEF NtIndInv, NtStreakOK
<1>13. NtWindowsOK'
  <2>1. /\ \A j \in NtKeys : NtKeyOK(j)
        /\ \A u \in NtThreads : NtClaimOK(u)
        /\ \A u, v \in NtThreads : u # v /\ ntSend[u].key = ntSend[v].key /\ ntSend[u].key \in NtKeys => ntSend[u].claim # ntSend[v].claim
    BY DEF NtIndInv, NtWindowsOK
  <2>2. /\ c0 \in Int /\ c0 <= ntNow /\ c0 >= 0
        /\ ntStamp[k] = NtNever => ntNow - c0 >= NtDedup
        /\ ntStamp[k] # NtNever => c0 = ntStamp[k] \/ ntStamp[k] - c0 >= NtDedup
        /\ c0 = ntStamp[k] /\ ~ntSend[t].delivered => NtApart(ntSaid[k], c0)
        /\ ntSend[t].delivered => ntSaid[k] >= c0
    <3>1. NtClaimOK(t) BY <2>1
    <3>2. c0 \in NtTimes BY <1>2, <3>1 DEF NtClaimOK, k, c0
    <3>3. c0 \in Nat BY <3>2, NtConstants DEF NtTimes
    <3>. QED BY <1>2, <3>1, <3>3 DEF NtClaimOK, k, c0
  <2>3. ASSUME NEW j \in NtKeys PROVE NtKeyOK(j)'
    <3>1. NtKeyOK(j) BY <2>1
    <3>2. CASE j # k
      <4>1. ntSaid'[j] = ntSaid[j] BY <1>7, <3>2
      <4>. QED BY <1>4, <1>8, <3>1, <4>1 DEF NtKeyOK
    <3>3. CASE j = k
      <4>1. ntStamp[k] \in Int /\ ntSaid[k] \in Int /\ ntSaid[k] >= -1 /\ ntSaid'[k] \in Int BY <1>2, <1>5, <1>8
      <4>2. ntSaid[k] <= ntNow /\ ntStamp[k] <= ntNow BY <3>1, <3>3 DEF NtKeyOK
      <4>3. ntSaid'[k] <= ntNow BY <1>5, <1>7, <2>2, <4>1, <4>2
      <4>4. ntStamp[k] = NtNever => NtApart(ntSaid'[k], ntNow)
        BY <1>5, <1>7, <2>2, <3>1, <3>3, <4>1 DEF NtKeyOK, NtApart
      <4>5. ntStamp[k] # NtNever => ntSaid'[k] <= ntStamp[k]
        <5>1. ntSaid'[k] = ntSaid[k] \/ ntSaid'[k] = c0 BY <1>7
        <5>2. ntStamp[k] # NtNever => ntSaid[k] <= ntStamp[k] BY <3>1, <3>3 DEF NtKeyOK
        <5>3. ntStamp[k] # NtNever => c0 <= ntStamp[k] BY <1>5, <2>2, <4>1
        <5>. QED BY <5>1, <5>2, <5>3
      <4>6. ASSUME ntStamp[k] # NtNever
            PROVE  ntSaid'[k] = ntStamp[k] \/ \E u \in NtThreads : ntSend'[u].key = k /\ ntSend'[u].claim = ntStamp[k]
        <5>1. CASE ntSaid[k] = ntStamp[k]
          <6>1. ntSaid'[k] >= ntStamp[k] BY <1>2, <1>8, <5>1
          <6>. QED BY <4>1, <4>5, <4>6, <6>1
        <5>2. CASE \E u \in NtThreads : ntSend[u].key = k /\ ntSend[u].claim = ntStamp[k] BY <1>8, <5>2
        <5>. QED BY <3>1, <3>3, <4>6, <5>1, <5>2 DEF NtKeyOK
      <4>. QED BY <1>4, <3>3, <4>2, <4>3, <4>4, <4>5, <4>6 DEF NtKeyOK
    <3>. QED BY <3>2, <3>3
  <2>4. ASSUME NEW u \in NtThreads PROVE NtClaimOK(u)'
    <3>1. NtClaimOK(u) BY <2>1
    <3>2. CASE u = t
      <4>1. /\ ntSend'[u].key = k /\ ntSend'[u].claim = c0 /\ (ntSend'[u].delivered <=> (ntSend[t].delivered \/ ok))
        BY <1>2, <1>3, <3>2 DEF k, c0
      <4>2. c0 \in NtTimes BY <1>2, <3>1, <3>2 DEF NtClaimOK, k, c0
      <4>3. c0 = ntStamp[k] /\ ~(ntSend[t].delivered \/ ok) => NtApart(ntSaid'[k], c0)
        <5>1. ~ok => ntSaid'[k] = ntSaid[k] BY <1>7
        <5>. QED BY <2>2, <5>1
      <4>4. ntSend[t].delivered \/ ok => ntSaid'[k] >= c0
        <5>1. ntSaid[k] \in Int /\ ntSaid'[k] >= ntSaid[k] /\ ntSaid'[k] \in Int BY <1>2, <1>5, <1>8
        <5>2. CASE ok BY <1>7, <2>2, <5>1, <5>2
        <5>3. CASE ntSend[t].delivered BY <2>2, <5>1, <5>3
        <5>. QED BY <5>2, <5>3
      <4>. QED BY <1>4, <2>2, <4>1, <4>2, <4>3, <4>4 DEF NtClaimOK
    <3>3. CASE u # t /\ ntSend[u].key # k
      <4>1. ntSend'[u] = ntSend[u] BY <1>3, <3>3
      <4>2. ntSend[u].key \in NtKeys => ntSaid'[ntSend[u].key] = ntSaid[ntSend[u].key] BY <1>7, <3>3
      <4>. QED BY <1>4, <3>1, <4>1, <4>2 DEF NtClaimOK
    <3>4. CASE u # t /\ ntSend[u].key = k
      <4>1. ntSend'[u] = ntSend[u] BY <1>3, <3>4
      <4>2. ntSend[u].claim # c0 BY <1>2, <2>1, <3>4 DEF k, c0
      <4>3. /\ ntSend[u].claim \in NtTimes /\ ntSend[u].claim <= ntNow
            /\ ntStamp[k] = NtNever => ntNow - ntSend[u].claim >= NtDedup
            /\ ntStamp[k] # NtNever => ntSend[u].claim = ntStamp[k] \/ ntStamp[k] - ntSend[u].claim >= NtDedup
            /\ ntSend[u].claim = ntStamp[k] /\ ~ntSend[u].delivered => NtApart(ntSaid[k], ntSend[u].claim)
            /\ ntSend[u].delivered => ntSaid[k] >= ntSend[u].claim
        BY <1>2, <3>1, <3>4 DEF NtClaimOK
      <4>4. ntSend[u].claim \in Int /\ ntSaid[k] \in Int /\ ntSaid'[k] \in Int /\ ntSaid'[k] >= ntSaid[k] /\ ntStamp[k] \in Int
        BY <1>2, <1>5, <1>8
      <4>5. ntSend[u].claim = ntStamp[k] /\ ~ntSend[u].delivered => NtApart(ntSaid'[k], ntSend[u].claim)
        <5>. SUFFICES ASSUME ntSend[u].claim = ntStamp[k], ~ntSend[u].delivered PROVE NtApart(ntSaid'[k], ntSend[u].claim)
          OBVIOUS
        <5>1. NtApart(ntSaid[k], ntSend[u].claim) BY <4>3
        <5>2. ntStamp[k] # NtNever
          <6>1. ntSend[u].claim >= 0 BY <4>3, NtConstants DEF NtTimes
          <6>. QED BY <1>5, <6>1
        <5>3. ntStamp[k] - c0 >= NtDedup BY <2>2, <4>2, <5>2
        <5>4. ntSaid'[k] = ntSaid[k] \/ ntSaid'[k] = c0 BY <1>7
        <5>. QED BY <5>1, <5>3, <5>4 DEF NtApart
      <4>6. ntSend[u].delivered => ntSaid'[k] >= ntSend[u].claim BY <4>3, <4>4
      <4>. QED BY <1>4, <3>4, <4>1, <4>3, <4>5, <4>6 DEF NtClaimOK
    <3>. QED BY <3>2, <3>3, <3>4
  <2>5. ASSUME NEW u \in NtThreads, NEW v \in NtThreads, u # v, ntSend'[u].key = ntSend'[v].key, ntSend'[u].key \in NtKeys
        PROVE  ntSend'[u].claim # ntSend'[v].claim
    BY <1>8, <2>1, <2>5
  <2>. QED BY <2>3, <2>4, <2>5 DEF NtWindowsOK
<1>14. NtReachedOK'
  <2>. SUFFICES ASSUME NEW u \in NtThreads, ntSend'[u].key \in NtKeys, ntSend'[u].sev = "critical",
                       NEW c \in DOMAIN NtChannels, c < ntSend'[u].at
                PROVE  NtPassed(c, ntSend[u])'
    BY DEF NtReachedOK
  <2>0. /\ ntFaults \in Nat /\ ntFaults' \in Nat /\ NtCritQuota \in Nat /\ ntCrits[c] \in Nat /\ ntCrits'[c] \in Nat
        /\ ntCrits'[c] >= ntCrits[c]
    BY NtWireTypes, NtConstants DEF NtIndInv, NtShape
  <2>1. CASE u = t /\ c = ntSend[t].at
    <3>1. NtPassed(c1, q)' BY <1>8, <2>1
    <3>2. c = c1 /\ ntSend'[u] = q BY <1>3, <2>1
    <3>. QED BY <3>1, <3>2 DEF NtPassed
  <2>2. CASE u # t \/ c # ntSend[t].at
    <3>1. c < ntSend[u].at
      <4>1. CASE u # t BY <1>3, <4>1
      <4>2. CASE u = t
        <5>1. c \in Nat BY NtConstants
        <5>. QED BY <1>2, <1>3, <2>2, <4>2, <5>1
      <4>. QED BY <4>1, <4>2
    <3>2. NtPassed(c, ntSend[u]) BY <1>8, <3>1 DEF NtIndInv, NtReachedOK
    <3>3. ntSend[u].delivered => ntSend'[u].delivered
      <4>1. CASE u = t BY <1>2, <1>3, <4>1
      <4>2. CASE u # t BY <1>3, <4>2
      <4>. QED BY <4>1, <4>2
    <3>. QED BY <2>0, <3>2, <3>3 DEF NtPassed
  <2>. QED BY <2>1, <2>2
<1>15. NtOwedOK'
  <2>. SUFFICES ASSUME ntOwed.key # "none"
               PROVE  \/ ntSaid'[ntOwed.key] # NtNever /\ ntOwed.at - ntSaid'[ntOwed.key] < NtDedup
                      \/ \E u \in NtThreads : ntSend'[u].key = ntOwed.key /\ ntOwed.at - ntSend'[u].claim < NtDedup
                      \/ \E u \in NtThreads : NtHas(ntTodo[u], NtMsg(ntOwed.key, "critical"))
                      \/ NtHopeless'
    BY <1>4 DEF NtOwedOK
  <2>1. CASE ntSaid[ntOwed.key] # NtNever /\ ntOwed.at - ntSaid[ntOwed.key] < NtDedup
    <3>1. ntOwed.key \in NtKeys /\ ntOwed.at \in Int
      <4>1. ntOwed.at \in Int /\ ntOwed.key \in NtDegradedKeys \cup {"none"} BY NtWireTypes
      <4>. QED BY <4>1 DEF NtDegradedKeys, NtKeys
    <3>2. /\ ntSaid[ntOwed.key] \in Int /\ ntSaid[ntOwed.key] >= -1 /\ ntSaid'[ntOwed.key] >= ntSaid[ntOwed.key]
          /\ ntSaid'[ntOwed.key] \in Int
      BY <1>5, <1>8, <3>1
    <3>3. ntSaid'[ntOwed.key] # NtNever BY <1>5, <2>1, <3>2
    <3>4. ntOwed.at - ntSaid'[ntOwed.key] < NtDedup BY <1>5, <2>1, <3>1, <3>2
    <3>. QED BY <3>3, <3>4
  <2>2. CASE \E u \in NtThreads : ntSend[u].key = ntOwed.key /\ ntOwed.at - ntSend[u].claim < NtDedup BY <1>8, <2>2
  <2>4. CASE NtHopeless
    <3>1. ntFaults \in Nat /\ ntFaults' \in Nat /\ NtCritQuota \in Nat BY NtWireTypes, NtConstants
    <3>2. \A c \in DOMAIN NtChannels : ntCrits[c] \in Nat /\ ntCrits'[c] \in Nat BY DEF NtIndInv, NtShape
    <3>3. \A c \in DOMAIN NtChannels : ntCrits[c] >= NtCritQuota => ntCrits'[c] >= NtCritQuota BY <3>1, <3>2
    <3>4. ntFaults > 0 => ntFaults' > 0 BY <3>1
    <3>. QED BY <2>4, <3>3, <3>4 DEF NtHopeless
  <2>. QED BY <2>1, <2>2, <2>4 DEF NtIndInv, NtOwedOK
<1>16. NtOwedNow' BY <1>4 DEF NtIndInv, NtOwedNow
<1>17. NtHealthOK' BY <1>4 DEF NtIndInv, NtHealthOK, NtHealthHonest
<1>18. NtNothingLost' BY <1>4 DEF NtIndInv, NtNothingLost
<1>. QED BY <1>10, <1>12, <1>13, <1>14, <1>15, <1>16, <1>17, <1>18 DEF NtIndInv

\* The window slid: no longer than it was.
LEMMA NtSlidIs ==
  ASSUME NtIndInv, NEW c \in DOMAIN NtChannels, NEW sev
  PROVE  /\ NtSlid(c, sev) \in Seq(NtTimes) /\ Len(NtSlid(c, sev)) \in Nat
         /\ Len(NtSlid(c, sev)) <= Len(ntHistory[c][NtLimiter(sev)])
<1>. DEFINE h == ntHistory[c][NtLimiter(sev)]
            old == {i \in DOMAIN h : \A j \in 1 .. i : h[j] < ntNow - NtMinute}
            n == Cardinality(old)
<1>1. ntHistory[c] \in NtLimits BY DEF NtIndInv, NtShape
<1>2. NtLimiter(sev) = "critical" \/ NtLimiter(sev) = "normal" BY DEF NtLimiter
<1>3. h \in Seq(NtTimes) BY <1>1, <1>2 DEF NtLimits
<1>4. NtSlid(c, sev) = SubSeq(h, n + 1, Len(h)) BY DEF NtSlid
<1>5. old \subseteq 1 .. Len(h) BY <1>3
<1>6. IsFiniteSet(1 .. Len(h)) BY <1>3, FS_Interval
<1>7. n \in Nat BY <1>5, <1>6, FS_Subset, FS_CardinalityType
<1>. HIDE DEF h, n
<1>8. Len(h) \in Nat BY <1>3
<1>9. SubSeq(h, n + 1, Len(h)) \in Seq(NtTimes) BY <1>3, <1>7, <1>8
<1>10. Len(SubSeq(h, n + 1, Len(h))) = IF n + 1 <= Len(h) THEN Len(h) - n ELSE 0 BY <1>3, <1>7, <1>8
<1>11. Len(SubSeq(h, n + 1, Len(h))) \in Nat /\ Len(SubSeq(h, n + 1, Len(h))) <= Len(h) BY <1>7, <1>8, <1>10
<1>. QED BY <1>4, <1>9, <1>11 DEF h

\* Records of a send are told apart by their fields.
LEMMA NtSameSend ==
  ASSUME NEW a \in NtSends, NEW b \in NtSends, a.key = b.key, a.sev = b.sev, a.at = b.at, a.claim = b.claim,
         a.delivered <=> b.delivered
  PROVE  a = b
<1>1. a.delivered = b.delivered BY DEF NtSends
<1>. QED BY <1>1 DEF NtSends

LEMMA NtMovesAlone ==
  ASSUME NtIndInv, NEW t \in NtThreads, NtAtChannel(t)
  PROVE  [ntSend EXCEPT ![t].at = @ + 1] = [ntSend EXCEPT ![t] = NtMovesTo(ntSend[t], FALSE)]
<1>. DEFINE s == ntSend[t]
            q == [s EXCEPT !.at = @ + 1]
            r == NtMovesTo(s, FALSE)
<1>1. NtSendOK(s) /\ s # NtIdle BY DEF NtIndInv, NtShape, NtAtChannel
<1>. HIDE DEF s
<1>2. s \in NtSends BY <1>1 DEF NtSendOK
<1>3. /\ NtSendOK(r) /\ r.key = s.key /\ r.sev = s.sev /\ r.claim = s.claim /\ r.at = s.at + 1
      /\ r.delivered <=> (s.delivered \/ FALSE)
      /\ s.at \in Nat /\ s.delivered \in BOOLEAN
  <2>. HIDE DEF r
  <2>. QED BY <1>1, NtMovedOn DEF r
<1>4. /\ q \in NtSends /\ q.key = s.key /\ q.sev = s.sev /\ q.claim = s.claim /\ q.at = s.at + 1
      /\ q.delivered <=> s.delivered
  BY <1>2, <1>3 DEF NtSends
<1>5. r \in NtSends BY <1>3 DEF NtSendOK
<1>. HIDE DEF q, r
<1>6. q = r
  <2>1. q.key = r.key /\ q.sev = r.sev /\ q.at = r.at /\ q.claim = r.claim BY <1>3, <1>4
  <2>2. (q.delivered <=> s.delivered) /\ (r.delivered <=> (s.delivered \/ FALSE)) BY <1>3, <1>4, Zenon
  <2>4. q.delivered <=> r.delivered BY <2>2, Zenon
  <2>3. q \in NtSends /\ r \in NtSends BY <1>4, <1>5
  <2>. QED BY <2>1, <2>4, <2>3, NtSameSend
<1>7. [ntSend EXCEPT ![t].at = @ + 1] = [ntSend EXCEPT ![t] = q] BY DEF q, s
<1>8. [ntSend EXCEPT ![t] = q] = [ntSend EXCEPT ![t] = r] BY <1>6
<1>. QED BY <1>7, <1>8 DEF r, s

\* What the wire looks like before a channel is done with.
LEMMA NtAtIs ==
  ASSUME NtIndInv, NEW t \in NtThreads, NtAtChannel(t)
  PROVE  /\ ntSend[t].at \in DOMAIN NtChannels /\ ntSend[t].sev \in NtSeverities
         /\ ntHistory[ntSend[t].at] \in NtLimits
         /\ ntCrits[ntSend[t].at] \in Nat /\ NtCritQuota \in Nat /\ NtQuota \in Nat /\ ntFaults \in 0 .. NtMaxFaults
         /\ ntFaults \in Nat /\ NtMaxFaults \in Nat
         /\ Len(ntHistory[ntSend[t].at].normal) <= NtQuota /\ Len(ntHistory[ntSend[t].at].critical) <= NtCritQuota
         /\ Len(ntHistory[ntSend[t].at].critical) <= ntCrits[ntSend[t].at]
         /\ Len(ntHistory[ntSend[t].at].normal) \in Nat /\ Len(ntHistory[ntSend[t].at].critical) \in Nat
<1>1. ntSend[t].at \in DOMAIN NtChannels BY DEF NtAtChannel
<1>2. ntSend[t].sev \in NtSeverities BY DEF NtIndInv, NtShape, NtSendOK, NtSends
<1>3. ntHistory[ntSend[t].at] \in NtLimits BY <1>1 DEF NtIndInv, NtShape
<1>4. ntHistory[ntSend[t].at].normal \in Seq(NtTimes) /\ ntHistory[ntSend[t].at].critical \in Seq(NtTimes) BY <1>3 DEF NtLimits
<1>5. ntCrits[ntSend[t].at] \in Nat /\ NtCritQuota \in Nat /\ NtQuota \in Nat /\ NtMaxFaults \in Nat BY <1>1, NtConstants DEF NtIndInv, NtShape
<1>6. ntFaults \in 0 .. NtMaxFaults /\ ntFaults \in Nat BY NtWireTypes DEF NtIndInv, NtShape
<1>. QED BY <1>1, <1>2, <1>3, <1>4, <1>5, <1>6 DEF NtIndInv, NtQuotasOK

LEMMA NtSkipStep == ASSUME NtIndInv, NEW t \in NtThreads, NtSkip(t) PROVE NtIndInv'
<1>. SUFFICES ASSUME NEW c1, c1 = ntSend[t].at, NEW v, v = ntSend[t].sev, NEW q, q = NtMovesTo(ntSend[t], FALSE) PROVE NtIndInv'
  OBVIOUS
<1>1. /\ NtAtChannel(t) /\ ~NtAccepts(c1, v) /\ ntSend' = [ntSend EXCEPT ![t].at = @ + 1]
      /\ UNCHANGED <<ntCast, ntNow, ntInputs, ntFaults, ntTodo, ntHealth, ntFold, ntStamp, ntHistory, ntSaid, ntCrits>>
  BY DEF NtSkip
<1>2. ntSend' = [ntSend EXCEPT ![t] = q] BY <1>1, NtMovesAlone
<1>4. /\ ntHistory' \in [DOMAIN NtChannels -> NtLimits] /\ NtQuotasOK' /\ ntCrits' \in [DOMAIN NtChannels -> Nat]
      /\ ntFaults' \in 0 .. NtMaxFaults
  BY <1>1 DEF NtIndInv, NtShape, NtQuotasOK
<1>5. (\A c \in DOMAIN NtChannels : ntCrits'[c] >= ntCrits[c]) /\ ntFaults' >= ntFaults
  BY <1>1, NtWireTypes DEF NtIndInv, NtShape
<1>7. v = "critical" => NtPassed(c1, q)' BY <1>1 DEF NtPassed
<1>. DEFINE said == [ntSaid EXCEPT ![ntSend[t].key] = Max({ntSaid[ntSend[t].key], ntSend[t].claim})]
<1>8. ntSaid' = (IF ~FALSE THEN ntSaid ELSE said) BY <1>1
<1>. QED BY <1>1, <1>2, <1>4, <1>5, <1>7, <1>8, NtMoved

\* A limiter's history replaced.
NtLimitSet(h, sev, s) == [h EXCEPT ![NtLimiter(sev)] = s]
LEMMA NtLimiterSet ==
  ASSUME NEW h \in NtLimits, NEW sev, NEW s \in Seq(NtTimes), NEW g, g = NtLimitSet(h, sev, s)
  PROVE  /\ g \in NtLimits
         /\ NtLimiter(sev) = "critical" => g.critical = s /\ g.normal = h.normal /\ h[NtLimiter(sev)] = h.critical
         /\ NtLimiter(sev) # "critical" => g.normal = s /\ g.critical = h.critical /\ h[NtLimiter(sev)] = h.normal
<1>1. CASE NtLimiter(sev) = "critical"
  <2>1. g = [h EXCEPT !.critical = s] BY <1>1 DEF NtLimitSet
  <2>. QED BY <1>1, <2>1 DEF NtLimits
<1>2. CASE NtLimiter(sev) = "normal"
  <2>1. g = [h EXCEPT !.normal = s] BY <1>2 DEF NtLimitSet
  <2>. QED BY <1>2, <2>1 DEF NtLimits
<1>. QED BY <1>1, <1>2 DEF NtLimiter

LEMMA NtHistorySet ==
  ASSUME NEW c, ntHistory[c] \in NtLimits, NEW sev, NEW s \in Seq(NtTimes), NEW g, g = NtLimitSet(ntHistory[c], sev, s)
  PROVE  /\ g \in NtLimits
         /\ NtLimiter(sev) = "critical" => g.critical = s /\ g.normal = ntHistory[c].normal /\ ntHistory[c][NtLimiter(sev)] = ntHistory[c].critical
         /\ NtLimiter(sev) # "critical" => g.normal = s /\ g.critical = ntHistory[c].critical /\ ntHistory[c][NtLimiter(sev)] = ntHistory[c].normal
<1>. DEFINE h == ntHistory[c]
<1>1. h \in NtLimits /\ g = NtLimitSet(h, sev, s) OBVIOUS
<1>. HIDE DEF h
<1>2. /\ g \in NtLimits
      /\ NtLimiter(sev) = "critical" => g.critical = s /\ g.normal = h.normal /\ h[NtLimiter(sev)] = h.critical
      /\ NtLimiter(sev) # "critical" => g.normal = s /\ g.critical = h.critical /\ h[NtLimiter(sev)] = h.normal
  BY <1>1, NtLimiterSet
<1>. QED BY <1>2 DEF h

LEMMA NtLimitedStep == ASSUME NtIndInv, NEW t \in NtThreads, NtLimited(t) PROVE NtIndInv'
<1>. SUFFICES ASSUME NEW c1, c1 = ntSend[t].at, NEW v, v = ntSend[t].sev, NEW q, q = NtMovesTo(ntSend[t], FALSE),
                     NEW l, l = NtSlid(c1, v), NEW g, g = NtLimitSet(ntHistory[c1], v, l)
              PROVE  NtIndInv'
  OBVIOUS
<1>1. /\ NtAtChannel(t) /\ Len(l) >= NtMaxN(v) /\ ntHistory' = [ntHistory EXCEPT ![c1] = g]
      /\ ntSend' = [ntSend EXCEPT ![t].at = @ + 1]
      /\ UNCHANGED <<ntCast, ntNow, ntInputs, ntFaults, ntTodo, ntHealth, ntFold, ntStamp, ntSaid, ntCrits>>
  BY DEF NtLimited, NtLimitSet
<1>2. ntSend' = [ntSend EXCEPT ![t] = q] BY <1>1, NtMovesAlone
<1>3. /\ c1 \in DOMAIN NtChannels /\ ntHistory[c1] \in NtLimits
      /\ ntCrits[c1] \in Nat /\ NtCritQuota \in Nat /\ NtQuota \in Nat
      /\ Len(ntHistory[c1].normal) <= NtQuota /\ Len(ntHistory[c1].critical) <= NtCritQuota
      /\ Len(ntHistory[c1].critical) <= ntCrits[c1]
      /\ Len(ntHistory[c1].normal) \in Nat /\ Len(ntHistory[c1].critical) \in Nat
  BY <1>1, NtAtIs
<1>4. l \in Seq(NtTimes) /\ Len(l) \in Nat /\ Len(l) <= Len(ntHistory[c1][NtLimiter(v)]) BY <1>3, NtSlidIs
<1>5. /\ g \in NtLimits
      /\ NtLimiter(v) = "critical" => g.critical = l /\ g.normal = ntHistory[c1].normal /\ ntHistory[c1][NtLimiter(v)] = ntHistory[c1].critical
      /\ NtLimiter(v) # "critical" => g.normal = l /\ g.critical = ntHistory[c1].critical /\ ntHistory[c1][NtLimiter(v)] = ntHistory[c1].normal
  <2>1. l \in Seq(NtTimes) BY <1>4
  <2>2. ntHistory[c1] \in NtLimits BY <1>3
  <2>. QED BY <2>1, <2>2, NtHistorySet
<1>6. Len(g.normal) <= NtQuota /\ Len(g.critical) <= NtCritQuota /\ Len(g.critical) <= ntCrits[c1]
  <2>1. CASE NtLimiter(v) = "critical" BY <1>3, <1>4, <1>5, <2>1
  <2>2. CASE NtLimiter(v) # "critical" BY <1>3, <1>4, <1>5, <2>2
  <2>. QED BY <2>1, <2>2
<1>7. /\ ntHistory' \in [DOMAIN NtChannels -> NtLimits] /\ ntHistory'[c1] = g /\ \A c \in DOMAIN NtChannels \ {c1} : ntHistory'[c] = ntHistory[c]
  <2>1. ntHistory \in [DOMAIN NtChannels -> NtLimits] BY DEF NtIndInv, NtShape
  <2>. QED BY <1>1, <1>3, <1>5, <2>1
<1>8. NtQuotasOK'
  <2>1. NtQuotasOK /\ ntCrits' = ntCrits BY <1>1 DEF NtIndInv
  <2>2. ASSUME NEW c \in DOMAIN NtChannels
        PROVE  Len(ntHistory'[c].normal) <= NtQuota /\ Len(ntHistory'[c].critical) <= NtCritQuota /\ Len(ntHistory'[c].critical) <= ntCrits[c]
    <3>1. CASE c = c1 BY <1>6, <1>7, <3>1
    <3>2. CASE c # c1 BY <1>7, <2>1, <3>2 DEF NtQuotasOK
    <3>. QED BY <3>1, <3>2
  <2>. QED BY <2>1, <2>2 DEF NtQuotasOK
<1>9. /\ ntCrits' \in [DOMAIN NtChannels -> Nat] /\ ntFaults' \in 0 .. NtMaxFaults
      /\ (\A c \in DOMAIN NtChannels : ntCrits'[c] >= ntCrits[c]) /\ ntFaults' >= ntFaults
  BY <1>1, NtWireTypes DEF NtIndInv, NtShape
<1>10. v = "critical" => NtPassed(c1, q)'
  <2>1. ASSUME v = "critical" PROVE ntCrits'[c1] >= NtCritQuota
    <3>1. NtLimiter(v) = "critical" /\ NtMaxN(v) = NtCritQuota BY <2>1 DEF NtLimiter, NtMaxN
    <3>2. Len(l) >= NtCritQuota /\ Len(l) <= Len(ntHistory[c1].critical) /\ ntCrits' = ntCrits BY <1>1, <1>4, <1>5, <3>1
    <3>. QED BY <1>3, <1>4, <3>2
  <2>. QED BY <2>1 DEF NtPassed
<1>. DEFINE said == [ntSaid EXCEPT ![ntSend[t].key] = Max({ntSaid[ntSend[t].key], ntSend[t].claim})]
<1>11. ntSaid' = (IF ~FALSE THEN ntSaid ELSE said) BY <1>1
<1>. QED BY <1>1, <1>2, <1>7, <1>8, <1>9, <1>10, <1>11, NtMoved

\* What a channel answers.
LEMMA NtOutcomesOK ==
  ASSUME NEW c \in DOMAIN NtChannels, NEW o \in NtOutcomes(c)
  PROVE  o.ok \in BOOLEAN
<1>. DEFINE R == NtChannels[c].recipients
<1>1. NtChannels[c].kind \in {"telegram", "email", "post"} BY NtConstants
<1>2. o \in NtTelegram(R) \/ o \in NtEmail(R) \/ o \in NtPost(R)
  <2>1. CASE NtChannels[c].kind = "telegram" BY <2>1 DEF NtOutcomes
  <2>2. CASE NtChannels[c].kind = "email" BY <2>2 DEF NtOutcomes
  <2>3. CASE NtChannels[c].kind = "post" BY <2>3 DEF NtOutcomes
  <2>. QED BY <1>1, <2>1, <2>2, <2>3
<1>. HIDE DEF R
<1>3. \E b \in BOOLEAN : \E x : o = [ok |-> b, got |-> x] BY <1>2 DEF NtTelegram, NtEmail, NtPost
<1>. QED BY <1>3

LEMMA NtMovesBoth ==
  ASSUME NtIndInv, NEW t \in NtThreads, NtAtChannel(t), NEW ok \in BOOLEAN
  PROVE  [ntSend EXCEPT ![t].at = @ + 1, ![t].delivered = @ \/ ok] = [ntSend EXCEPT ![t] = NtMovesTo(ntSend[t], ok)]
<1>. DEFINE s == ntSend[t]
            q == [s EXCEPT !.at = @ + 1, !.delivered = @ \/ ok]
            F == [ntSend EXCEPT ![t].at = @ + 1, ![t].delivered = @ \/ ok]
<1>1. DOMAIN ntSend = NtThreads BY DEF NtIndInv, NtShape
<1>2. q = NtMovesTo(ntSend[t], ok) BY DEF NtMovesTo
<1>3. F = [ntSend EXCEPT ![t] = q] BY <1>1
<1>. QED BY <1>2, <1>3

\* The limiter's history once the channel is handed the message.
NtCounted(c, sev) == Append(NtSlid(c, sev), ntNow)

LEMMA NtChannelSendStep == ASSUME NtIndInv, NEW t \in NtThreads, NtChannelSend(t) PROVE NtIndInv'
<1>1. PICK o \in NtOutcomes(ntSend[t].at) :
        /\ ntFaults + (IF o.ok THEN 0 ELSE 1) <= NtMaxFaults
        /\ ntFaults' = ntFaults + (IF o.ok THEN 0 ELSE 1)
        /\ ntSend' = [ntSend EXCEPT ![t].at = @ + 1, ![t].delivered = @ \/ o.ok]
        /\ ntSaid' = IF ~o.ok THEN ntSaid ELSE [ntSaid EXCEPT ![ntSend[t].key] = Max({@, ntSend[t].claim})]
  BY DEF NtChannelSend
<1>. SUFFICES ASSUME NEW c1, c1 = ntSend[t].at, NEW v, v = ntSend[t].sev,
                     NEW ok, ok = o.ok, NEW q, q = NtMovesTo(ntSend[t], ok),
                     NEW l, l = NtCounted(c1, v), NEW g, g = NtLimitSet(ntHistory[c1], v, l)
              PROVE  NtIndInv'
  OBVIOUS
<1>2. /\ NtAtChannel(t) /\ Len(NtSlid(c1, v)) < NtMaxN(v) /\ ntHistory' = [ntHistory EXCEPT ![c1] = g]
      /\ ntCrits' = [ntCrits EXCEPT ![c1] = @ + (IF v = "critical" THEN 1 ELSE 0)]
      /\ UNCHANGED <<ntCast, ntNow, ntInputs, ntTodo, ntHealth, ntFold, ntStamp>>
  BY DEF NtChannelSend, NtLimitSet, NtCounted
<1>3. /\ c1 \in DOMAIN NtChannels /\ ntHistory[c1] \in NtLimits /\ v \in NtSeverities
      /\ ntCrits[c1] \in Nat /\ NtCritQuota \in Nat /\ NtQuota \in Nat /\ ntFaults \in Nat /\ NtMaxFaults \in Nat
      /\ Len(ntHistory[c1].normal) <= NtQuota /\ Len(ntHistory[c1].critical) <= NtCritQuota
      /\ Len(ntHistory[c1].critical) <= ntCrits[c1]
      /\ Len(ntHistory[c1].normal) \in Nat /\ Len(ntHistory[c1].critical) \in Nat
  BY <1>2, NtAtIs
<1>4. ok \in BOOLEAN
  BY <1>3, NtOutcomesOK
<1>5. ntSend' = [ntSend EXCEPT ![t] = q] BY <1>1, <1>2, <1>4, NtMovesBoth
<1>6. l \in Seq(NtTimes) /\ Len(l) \in Nat /\ Len(l) <= Len(ntHistory[c1][NtLimiter(v)]) + 1 /\ Len(l) <= NtMaxN(v)
  <2>1. NtSlid(c1, v) \in Seq(NtTimes) /\ Len(NtSlid(c1, v)) \in Nat /\ Len(NtSlid(c1, v)) <= Len(ntHistory[c1][NtLimiter(v)])
    BY <1>3, NtSlidIs
  <2>2. ntNow \in NtTimes /\ NtMaxN(v) \in Nat BY <1>3, NtWireTypes DEF NtMaxN
  <2>3. l \in Seq(NtTimes) /\ Len(l) = Len(NtSlid(c1, v)) + 1 BY <2>1, <2>2 DEF NtCounted
  <2>4. Len(ntHistory[c1][NtLimiter(v)]) \in Nat BY <1>3 DEF NtLimiter
  <2>. QED BY <1>2, <2>1, <2>2, <2>3, <2>4
<1>7. /\ g \in NtLimits
      /\ NtLimiter(v) = "critical" => g.critical = l /\ g.normal = ntHistory[c1].normal /\ ntHistory[c1][NtLimiter(v)] = ntHistory[c1].critical
      /\ NtLimiter(v) # "critical" => g.normal = l /\ g.critical = ntHistory[c1].critical /\ ntHistory[c1][NtLimiter(v)] = ntHistory[c1].normal
  <2>1. l \in Seq(NtTimes) BY <1>6
  <2>2. ntHistory[c1] \in NtLimits BY <1>3
  <2>. QED BY <2>1, <2>2, NtHistorySet
<1>8. /\ ntHistory' \in [DOMAIN NtChannels -> NtLimits] /\ ntHistory'[c1] = g /\ \A c \in DOMAIN NtChannels \ {c1} : ntHistory'[c] = ntHistory[c]
  <2>1. ntHistory \in [DOMAIN NtChannels -> NtLimits] BY DEF NtIndInv, NtShape
  <2>. QED BY <1>2, <1>3, <1>7, <2>1
<1>9. /\ ntCrits' \in [DOMAIN NtChannels -> Nat] /\ (\A c \in DOMAIN NtChannels : ntCrits'[c] >= ntCrits[c])
      /\ ntCrits'[c1] = ntCrits[c1] + (IF v = "critical" THEN 1 ELSE 0)
  <2>1. ntCrits \in [DOMAIN NtChannels -> Nat] BY DEF NtIndInv, NtShape
  <2>2. ntCrits[c1] + (IF v = "critical" THEN 1 ELSE 0) \in Nat BY <1>3
  <2>3. /\ ntCrits' \in [DOMAIN NtChannels -> Nat] /\ ntCrits'[c1] = ntCrits[c1] + (IF v = "critical" THEN 1 ELSE 0)
        /\ \A c \in DOMAIN NtChannels \ {c1} : ntCrits'[c] = ntCrits[c]
    BY <1>2, <1>3, <2>1, <2>2
  <2>4. ASSUME NEW c \in DOMAIN NtChannels PROVE ntCrits'[c] >= ntCrits[c]
    <3>1. ntCrits[c] \in Nat BY <2>1
    <3>2. CASE c = c1 BY <2>3, <3>1, <3>2
    <3>3. CASE c # c1 BY <2>3, <3>1, <3>3
    <3>. QED BY <3>2, <3>3
  <2>. QED BY <2>3, <2>4
<1>10. Len(g.normal) <= NtQuota /\ Len(g.critical) <= NtCritQuota /\ Len(g.critical) <= ntCrits'[c1]
  <2>1. CASE NtLimiter(v) = "critical"
    <3>1. NtMaxN(v) = NtCritQuota /\ v = "critical" BY <2>1 DEF NtMaxN, NtLimiter
    <3>2. Len(l) <= NtCritQuota /\ Len(l) <= Len(ntHistory[c1].critical) + 1 /\ g.critical = l /\ g.normal = ntHistory[c1].normal
      BY <1>6, <1>7, <2>1, <3>1
    <3>3. ntCrits'[c1] = ntCrits[c1] + 1 BY <1>9, <3>1
    <3>. QED BY <1>3, <1>6, <3>2, <3>3
  <2>2. CASE NtLimiter(v) # "critical"
    <3>1. NtMaxN(v) = NtQuota BY <2>2 DEF NtMaxN
    <3>2. Len(l) <= NtQuota /\ g.normal = l /\ g.critical = ntHistory[c1].critical BY <1>6, <1>7, <2>2, <3>1
    <3>3. ntCrits'[c1] >= ntCrits[c1] /\ ntCrits'[c1] \in Nat BY <1>3, <1>9
    <3>. QED BY <1>3, <3>2, <3>3
  <2>. QED BY <2>1, <2>2
<1>11. NtQuotasOK'
  <2>1. NtQuotasOK BY DEF NtIndInv
  <2>2. ASSUME NEW c \in DOMAIN NtChannels
        PROVE  Len(ntHistory'[c].normal) <= NtQuota /\ Len(ntHistory'[c].critical) <= NtCritQuota /\ Len(ntHistory'[c].critical) <= ntCrits'[c]
    <3>1. CASE c = c1 BY <1>8, <1>10, <3>1
    <3>2. CASE c # c1
      <4>1. /\ Len(ntHistory[c].normal) <= NtQuota /\ Len(ntHistory[c].critical) <= NtCritQuota
            /\ Len(ntHistory[c].critical) <= ntCrits[c] /\ ntCrits'[c] >= ntCrits[c]
        BY <1>9, <2>1 DEF NtQuotasOK
      <4>2. ntHistory[c].critical \in Seq(NtTimes) /\ ntCrits[c] \in Nat /\ ntCrits'[c] \in Nat
        BY <1>9 DEF NtIndInv, NtShape, NtLimits
      <4>3. Len(ntHistory[c].critical) \in Nat BY <4>2
      <4>4. ntHistory'[c] = ntHistory[c] BY <1>8, <3>2
      <4>. QED BY <4>1, <4>2, <4>3, <4>4
    <3>. QED BY <3>1, <3>2
  <2>. QED BY <2>2 DEF NtQuotasOK
<1>12. ntFaults' \in 0 .. NtMaxFaults /\ ntFaults' >= ntFaults /\ (~ok => ntFaults' > 0)
  BY <1>1, <1>3
<1>13. v = "critical" => NtPassed(c1, q)'
  <2>1. CASE ok
    <3>1. NtSendOK(ntSend[t]) /\ ntSend[t] # NtIdle BY <1>2 DEF NtIndInv, NtShape, NtAtChannel
    <3>2. q.delivered <=> (ntSend[t].delivered \/ ok)
      <4>. DEFINE s == ntSend[t]
      <4>1. NtSendOK(s) /\ s # NtIdle /\ q = NtMovesTo(s, ok) BY <3>1
      <4>. HIDE DEF s
      <4>2. q.delivered <=> (s.delivered \/ ok) BY <1>4, <4>1, NtMovedOn
      <4>. QED BY <4>2 DEF s
    <3>. QED BY <2>1, <3>2 DEF NtPassed
  <2>2. CASE ~ok BY <1>12, <2>2 DEF NtPassed
  <2>. QED BY <2>1, <2>2
<1>14. ntSaid' = (IF ~ok THEN ntSaid ELSE [ntSaid EXCEPT ![ntSend[t].key] = Max({ntSaid[ntSend[t].key], ntSend[t].claim})])
  BY <1>1
<1>. HIDE <1>1
<1>. QED BY <1>2, <1>4, <1>5, <1>8, <1>9, <1>11, <1>12, <1>13, <1>14, NtMoved

LEMMA NtIdleIs == NtIdle \in NtSends /\ NtSendOK(NtIdle) /\ NtIdle.key = "none" /\ NtIdle.sev = "info"
<1>1. NtIdle \in NtSends BY NtConstants DEF NtIdle, NtSends, NtSeverities, NtClaims
<1>2. NtIdle.key = "none" /\ NtIdle.sev = "info" BY DEF NtIdle
<1>. QED BY <1>1, <1>2 DEF NtSendOK, NtDegradedKeys

LEMMA NtSentStep == ASSUME NtIndInv, NEW t \in NtThreads, NtSent(t) PROVE NtIndInv'
<1>. SUFFICES ASSUME NEW s, s = ntSend[t], NEW k, k = s.key PROVE NtIndInv' OBVIOUS
<1>1. /\ s # NtIdle /\ s.at > Len(NtChannels) /\ ntSend' = [ntSend EXCEPT ![t] = NtIdle]
      /\ ntStamp' = IF ~s.delivered /\ ntStamp[k] = s.claim THEN [ntStamp EXCEPT ![k] = NtNever] ELSE ntStamp
      /\ UNCHANGED <<ntCast, ntNow, ntInputs, ntFaults, ntTodo, ntHealth, ntFold, ntHistory, ntSaid, ntCrits>>
  BY DEF NtSent, NtReleased
<1>2. /\ ntCast' = ntCast /\ ntNow' = ntNow /\ ntInputs' = ntInputs /\ ntFaults' = ntFaults /\ ntArmed' = ntArmed
      /\ ntDegraded' = ntDegraded /\ ntStreak' = ntStreak /\ ntHealthy' = ntHealthy /\ ntOwed' = ntOwed
      /\ ntSince' = ntSince /\ ntSup' = ntSup /\ ntIneff' = ntIneff /\ ntCount' = ntCount /\ ntTodo' = ntTodo
      /\ ntHistory' = ntHistory /\ ntSaid' = ntSaid /\ ntCrits' = ntCrits
  BY <1>1 DEF ntHealth, ntFold
<1>3. /\ DOMAIN ntSend' = NtThreads /\ ntSend'[t] = NtIdle /\ (\A u \in NtThreads \ {t} : ntSend'[u] = ntSend[u])
      /\ \A u \in NtThreads : NtSendOK(ntSend'[u])
  BY <1>1, NtIdleIs, NtSendSet
<1>4. /\ ntNow \in Nat /\ NtDedup \in Nat /\ NtDedup >= 1 /\ NtNever = -1
      /\ \A j \in NtKeys : ntStamp[j] \in Int /\ ntSaid[j] \in Int /\ ntSaid[j] >= -1
      /\ \A u \in NtThreads : ntSend[u].claim \in Int
      /\ NtIdle.key = "none" /\ "none" \notin NtKeys
  BY NtWireTypes
<1>5. NtSendOK(s) /\ k \in NtKeys /\ s.at \in Nat /\ s.delivered \in BOOLEAN
  <2>1. NtSendOK(s) BY DEF NtIndInv, NtShape
  <2>. QED BY <1>1, <2>1 DEF NtSendOK, NtSends
<1>6. /\ \A j \in NtKeys : NtKeyOK(j)
      /\ \A u \in NtThreads : NtClaimOK(u)
      /\ \A u, v \in NtThreads : u # v /\ ntSend[u].key = ntSend[v].key /\ ntSend[u].key \in NtKeys => ntSend[u].claim # ntSend[v].claim
  BY DEF NtIndInv, NtWindowsOK
<1>7. /\ s.claim \in Int /\ s.claim >= 0 /\ s.claim <= ntNow
      /\ ntStamp[k] = NtNever => ntNow - s.claim >= NtDedup
      /\ ntStamp[k] # NtNever => s.claim = ntStamp[k] \/ ntStamp[k] - s.claim >= NtDedup
      /\ s.claim = ntStamp[k] /\ ~s.delivered => NtApart(ntSaid[k], s.claim)
      /\ s.delivered => ntSaid[k] >= s.claim
  <2>1. NtClaimOK(t) BY <1>6
  <2>2. s.claim \in NtTimes BY <1>5, <2>1 DEF NtClaimOK
  <2>3. s.claim \in Nat BY <2>2, NtConstants DEF NtTimes
  <2>. QED BY <1>5, <2>1, <2>3 DEF NtClaimOK
<1>8. /\ ntStamp' \in [NtKeys -> NtClaims] /\ \A j \in NtKeys \ {k} : ntStamp'[j] = ntStamp[j]
      /\ \/ ~s.delivered /\ ntStamp[k] = s.claim /\ ntStamp'[k] = NtNever
         \/ ~(~s.delivered /\ ntStamp[k] = s.claim) /\ ntStamp'[k] = ntStamp[k]
  <2>1. ntStamp \in [NtKeys -> NtClaims] BY DEF NtIndInv, NtShape
  <2>2. CASE ~s.delivered /\ ntStamp[k] = s.claim
    <3>1. ntStamp' = [ntStamp EXCEPT ![k] = NtNever] /\ NtNever \in NtClaims BY <1>1, <2>2 DEF NtClaims
    <3>. QED BY <1>5, <2>1, <2>2, <3>1
  <2>3. CASE ~(~s.delivered /\ ntStamp[k] = s.claim)
    <3>1. ntStamp' = ntStamp BY <1>1, <2>3
    <3>. QED BY <1>5, <2>1, <2>3, <3>1
  <2>. QED BY <2>2, <2>3
<1>10. NtShape' BY <1>2, <1>3, <1>8 DEF NtIndInv, NtShape
<1>11. NtQuotasOK' BY <1>2 DEF NtIndInv, NtQuotasOK
<1>12. NtStreakOK' BY <1>2 DEF NtIndInv, NtStreakOK
<1>13. NtWindowsOK'
  <2>1. ASSUME NEW j \in NtKeys PROVE NtKeyOK(j)'
    <3>1. NtKeyOK(j) BY <1>6
    <3>2. CASE j # k
      <4>1. ASSUME NEW u \in NtThreads, ntSend[u].key = j PROVE ntSend'[u] = ntSend[u] BY <1>3, <3>2, <4>1
      <4>. QED BY <1>2, <1>8, <3>1, <3>2, <4>1 DEF NtKeyOK
    <3>3. CASE j = k /\ ntStamp'[k] = NtNever
      <4>1. ntStamp[k] \in Int /\ ntSaid[k] \in Int /\ ntSaid[k] <= ntNow /\ NtNever <= ntNow BY <1>4, <1>5, <3>1, <3>3 DEF NtKeyOK
      <4>2. NtApart(ntSaid[k], ntNow)
        <5>1. CASE ntStamp[k] = NtNever BY <3>1, <3>3, <5>1 DEF NtKeyOK
        <5>2. CASE ntStamp[k] # NtNever
          <6>1. NtApart(ntSaid[k], s.claim) BY <1>7, <1>8, <3>3, <5>2
          <6>. QED BY <1>4, <1>7, <4>1, <6>1 DEF NtApart
        <5>. QED BY <5>1, <5>2
      <4>. QED BY <1>2, <3>3, <4>1, <4>2 DEF NtKeyOK
    <3>4. CASE j = k /\ ntStamp'[k] # NtNever
      <4>1. ntStamp'[k] = ntStamp[k] /\ (s.delivered \/ ntStamp[k] # s.claim) BY <1>8, <3>4
      <4>2. ntStamp[k] <= ntNow /\ ntSaid[k] <= ntNow /\ ntSaid[k] <= ntStamp[k] BY <3>1, <3>4, <4>1 DEF NtKeyOK
      <4>3. ntSaid[k] = ntStamp[k] \/ \E u \in NtThreads : ntSend'[u].key = k /\ ntSend'[u].claim = ntStamp[k]
        <5>1. CASE ntSaid[k] = ntStamp[k] BY <5>1
        <5>2. CASE \E u \in NtThreads : ntSend[u].key = k /\ ntSend[u].claim = ntStamp[k]
          <6>1. PICK u \in NtThreads : ntSend[u].key = k /\ ntSend[u].claim = ntStamp[k] BY <5>2
          <6>2. CASE u # t BY <1>3, <6>1, <6>2
          <6>3. CASE u = t
            <7>1. s.claim = ntStamp[k] BY <6>1, <6>3
            <7>2. ntSaid[k] >= ntStamp[k] BY <1>7, <4>1, <7>1
            <7>3. ntSaid[k] \in Int /\ ntStamp[k] \in Int BY <1>4, <1>5
            <7>. QED BY <4>2, <7>2, <7>3
          <6>. QED BY <6>2, <6>3
        <5>. QED BY <3>1, <3>4, <4>1, <5>1, <5>2 DEF NtKeyOK
      <4>. QED BY <1>2, <3>4, <4>1, <4>2, <4>3 DEF NtKeyOK
    <3>. QED BY <3>2, <3>3, <3>4
  <2>2. ASSUME NEW u \in NtThreads PROVE NtClaimOK(u)'
    <3>1. NtClaimOK(u) BY <1>6
    <3>2. CASE u = t
      <4>1. ntSend'[u].key \notin NtKeys BY <1>3, <1>4, <3>2
      <4>. QED BY <4>1 DEF NtClaimOK
    <3>3. CASE u # t /\ ntSend[u].key # k
      <4>1. ntSend'[u] = ntSend[u] BY <1>3, <3>3
      <4>2. ntSend[u].key \in NtKeys => ntStamp'[ntSend[u].key] = ntStamp[ntSend[u].key] BY <1>8, <3>3
      <4>. QED BY <1>2, <3>1, <4>1, <4>2 DEF NtClaimOK
    <3>4. CASE u # t /\ ntSend[u].key = k
      <4>1. ntSend'[u] = ntSend[u] /\ ntSend[u].claim # s.claim BY <1>3, <1>5, <1>6, <3>4
      <4>2. /\ ntSend[u].claim \in NtTimes /\ ntSend[u].claim <= ntNow /\ ntSend[u].claim \in Int
            /\ ntStamp[k] = NtNever => ntNow - ntSend[u].claim >= NtDedup
            /\ ntStamp[k] # NtNever => ntSend[u].claim = ntStamp[k] \/ ntStamp[k] - ntSend[u].claim >= NtDedup
            /\ ntSend[u].claim = ntStamp[k] /\ ~ntSend[u].delivered => NtApart(ntSaid[k], ntSend[u].claim)
            /\ ntSend[u].delivered => ntSaid[k] >= ntSend[u].claim
        BY <1>4, <1>5, <3>1, <3>4 DEF NtClaimOK
      <4>3. CASE ntStamp'[k] = ntStamp[k] BY <1>2, <1>5, <3>4, <4>1, <4>2, <4>3 DEF NtClaimOK
      <4>4. CASE ntStamp'[k] = NtNever /\ ntStamp[k] = s.claim
        <5>1. ntStamp[k] # NtNever /\ ntStamp[k] <= ntNow /\ ntStamp[k] \in Int BY <1>4, <1>7, <4>4
        <5>2. ntNow - ntSend[u].claim >= NtDedup BY <1>4, <4>1, <4>2, <4>4, <5>1
        <5>3. ntSend[u].claim # NtNever
          <6>1. ntSend[u].claim >= 0 BY <4>2, NtConstants DEF NtTimes
          <6>. QED BY <1>4, <6>1
        <5>. QED BY <1>2, <1>5, <3>4, <4>1, <4>2, <4>4, <5>2, <5>3 DEF NtClaimOK
      <4>. QED BY <1>8, <4>3, <4>4
    <3>. QED BY <3>2, <3>3, <3>4
  <2>3. ASSUME NEW u \in NtThreads, NEW v \in NtThreads, u # v, ntSend'[u].key = ntSend'[v].key, ntSend'[u].key \in NtKeys
        PROVE  ntSend'[u].claim # ntSend'[v].claim
    <3>1. u # t /\ v # t BY <1>3, <1>4, <2>3
    <3>. QED BY <1>3, <1>6, <2>3, <3>1
  <2>. QED BY <2>1, <2>2, <2>3 DEF NtWindowsOK
<1>14. NtReachedOK'
  <2>. SUFFICES ASSUME NEW u \in NtThreads, ntSend'[u].key \in NtKeys, ntSend'[u].sev = "critical",
                       NEW c \in DOMAIN NtChannels, c < ntSend'[u].at
                PROVE  NtPassed(c, ntSend[u])'
    BY DEF NtReachedOK
  <2>1. ntSend'[u] = ntSend[u] BY <1>3, <1>4
  <2>2. NtPassed(c, ntSend[u]) BY <2>1 DEF NtIndInv, NtReachedOK
  <2>. QED BY <1>2, <2>1, <2>2 DEF NtPassed
<1>15. NtOwedOK'
  <2>. SUFFICES ASSUME ntOwed.key # "none"
               PROVE  \/ ntSaid[ntOwed.key] # NtNever /\ ntOwed.at - ntSaid[ntOwed.key] < NtDedup
                      \/ \E u \in NtThreads : ntSend'[u].key = ntOwed.key /\ ntOwed.at - ntSend'[u].claim < NtDedup
                      \/ \E u \in NtThreads : NtHas(ntTodo[u], NtMsg(ntOwed.key, "critical"))
                      \/ NtHopeless
    BY <1>2 DEF NtOwedOK, NtHopeless
  <2>1. CASE \E u \in NtThreads : ntSend[u].key = ntOwed.key /\ ntOwed.at - ntSend[u].claim < NtDedup
    <3>1. PICK u \in NtThreads : ntSend[u].key = ntOwed.key /\ ntOwed.at - ntSend[u].claim < NtDedup BY <2>1
    <3>2. CASE u # t BY <1>3, <3>1, <3>2
    <3>3. CASE u = t
      <4>1. k = ntOwed.key /\ ntOwed.at - s.claim < NtDedup BY <3>1, <3>3
      <4>2. ntOwed.at \in Int /\ ntOwed.key \in NtDegradedKeys \cup {"none"} BY NtWireTypes
      <4>3. s.sev = "critical" BY <1>5, <4>1, <4>2 DEF NtSendOK
      <4>4. CASE s.delivered
        <5>1. ntSaid[k] >= s.claim /\ ntSaid[k] \in Int BY <1>4, <1>5, <1>7, <4>4
        <5>2. ntSaid[k] # NtNever /\ ntOwed.at - ntSaid[k] < NtDedup BY <1>4, <1>7, <4>1, <4>2, <5>1
        <5>. QED BY <4>1, <5>2
      <4>5. CASE ~s.delivered
        <5>1. ASSUME NEW c \in DOMAIN NtChannels, NtAccepts(c, "critical") PROVE ntFaults > 0 \/ ntCrits[c] >= NtCritQuota
          <6>1. c \in Int /\ c <= Len(NtChannels) /\ Len(NtChannels) \in Nat BY NtConstants
          <6>2. c < s.at BY <1>1, <1>5, <6>1
          <6>3. NtPassed(c, s) BY <1>5, <4>3, <6>2 DEF NtIndInv, NtReachedOK
          <6>. QED BY <4>5, <5>1, <6>3 DEF NtPassed
        <5>. QED BY <5>1 DEF NtHopeless
      <4>. QED BY <4>4, <4>5
    <3>. QED BY <3>2, <3>3
  <2>. QED BY <2>1 DEF NtIndInv, NtOwedOK
<1>16. NtOwedNow' BY <1>2 DEF NtIndInv, NtOwedNow
<1>17. NtHealthOK' BY <1>2 DEF NtIndInv, NtHealthOK, NtHealthHonest
<1>18. NtNothingLost' BY <1>2 DEF NtIndInv, NtNothingLost
<1>. QED BY <1>10, <1>11, <1>12, <1>13, <1>14, <1>15, <1>16, <1>17, <1>18 DEF NtIndInv

LEMMA NtInitStep == ASSUME NtInit PROVE NtIndInv
<1>. USE NtConstants
<1>1. /\ ntCast \in NtCasts /\ ntNow = 0 /\ ntInputs = 0 /\ ntFaults = 0
      /\ ntStamp = [k \in NtKeys |-> NtNever] /\ ntSaid = [k \in NtKeys |-> NtNever]
      /\ ntHistory = [c \in DOMAIN NtChannels |-> [normal |-> <<>>, critical |-> <<>>]]
      /\ ntTodo = [t \in NtThreads |-> <<>>] /\ ntSend = [t \in NtThreads |-> NtIdle]
      /\ ntArmed = TRUE /\ ntDegraded = FALSE /\ ntStreak = 0 /\ ntHealthy = TRUE
      /\ ntSup = NtClosed /\ ntIneff = NtClosed /\ ntOwed = [key |-> "none", at |-> 0]
      /\ ntCrits = [c \in DOMAIN NtChannels |-> 0] /\ ntSince = [fails |-> 0, throttles |-> 0]
      /\ ntCount = [scans |-> 0, fresh |-> 0, folded |-> 0, fired |-> 0, alerts |-> 0, carried |-> 0]
  BY DEF NtInit
<1>2. ntCast.max \in Nat /\ 0 \in NtTimes /\ NtNever \in NtClaims /\ NtNever = -1 /\ 0 \in 0 .. NtMaxFaults
      /\ ntInputs \in 0 .. ntCast.max
  BY <1>1 DEF NtTimes, NtClaims, NtNever
<1>3. ntHistory \in [DOMAIN NtChannels -> NtLimits] /\ \A c \in DOMAIN NtChannels : ntHistory[c].normal = <<>> /\ ntHistory[c].critical = <<>>
  BY <1>1 DEF NtLimits
<1>4. NtClosed \in NtWindowsT /\ NtClosed.n = 0 BY <1>2 DEF NtClosed, NtWindowsT
<1>5. ntOwed \in NtOwing /\ ntOwed.at = 0 /\ ntOwed.key = "none" BY <1>1, <1>2 DEF NtOwing
<1>6. ntSince \in NtSinces /\ ntSince.fails = 0 /\ ntSince.throttles = 0 BY <1>1 DEF NtSinces
<1>7. ntCount \in NtCounts /\ ntCount.scans = 0 /\ ntCount.fresh = 0 /\ ntCount.folded = 0 /\ ntCount.fired = 0
      /\ ntCount.alerts = 0 /\ ntCount.carried = 0
  BY <1>1 DEF NtCounts
<1>8. DOMAIN ntTodo = NtThreads /\ (\A t \in NtThreads : NtTodoOK(ntTodo[t])) BY <1>1, NtEmptyOK
<1>9. DOMAIN ntSend = NtThreads /\ (\A t \in NtThreads : NtSendOK(ntSend[t]) /\ ntSend[t].key \notin NtKeys)
  <2>1. "none" \notin NtKeys BY DEF NtKeys
  <2>. QED BY <1>1, <2>1, NtIdleIs
<1>10. NtShape
  <2>1. ntStamp \in [NtKeys -> NtClaims] /\ ntSaid \in [NtKeys -> NtClaims] /\ ntCrits \in [DOMAIN NtChannels -> Nat] BY <1>1, <1>2
  <2>2. ntArmed \in BOOLEAN /\ ntDegraded \in BOOLEAN /\ ntHealthy \in BOOLEAN /\ ntStreak \in Nat BY <1>1
  <2>3. ntSup \in NtWindowsT /\ ntIneff \in NtWindowsT BY <1>1, <1>4
  <2>4. ntCast \in NtCasts /\ ntNow \in NtTimes /\ ntFaults \in 0 .. NtMaxFaults BY <1>1, <1>2
  <2>. QED BY <1>2, <1>3, <1>5, <1>6, <1>7, <1>8, <1>9, <2>1, <2>2, <2>3, <2>4 DEF NtShape
<1>11. NtQuotasOK
  <2>1. NtQuota \in Nat /\ NtCritQuota \in Nat /\ Len(<<>>) = 0 OBVIOUS
  <2>2. \A c \in DOMAIN NtChannels : ntCrits[c] = 0 BY <1>1
  <2>. QED BY <1>3, <2>1, <2>2 DEF NtQuotasOK
<1>12. NtStreakOK
  <2>1. NtAllDue(ntTodo) = 0 BY <1>1, NtEmptyOK DEF NtAllDue, NtThreads
  <2>. QED BY <1>1, <2>1 DEF NtStreakOK
<1>13. NtWindowsOK
  <2>1. \A k \in NtKeys : ntStamp[k] = NtNever /\ ntSaid[k] = NtNever BY <1>1
  <2>2. \A k \in NtKeys : NtKeyOK(k) BY <1>1, <1>2, <2>1 DEF NtKeyOK, NtApart
  <2>3. \A t \in NtThreads : NtClaimOK(t) BY <1>9 DEF NtClaimOK
  <2>. QED BY <1>9, <2>2, <2>3 DEF NtWindowsOK
<1>14. NtReachedOK BY <1>9 DEF NtReachedOK
<1>15. NtOwedOK BY <1>5 DEF NtOwedOK
<1>16. NtOwedNow BY <1>1, <1>5 DEF NtOwedNow
<1>17. NtHealthOK
  <2>1. NtFlip \in Nat /\ NtFlip >= 1 OBVIOUS
  <2>2. ~ntDegraded /\ ntStreak = 0 BY <1>1
  <2>. QED BY <1>6, <2>1, <2>2 DEF NtHealthOK, NtHealthHonest
<1>18. NtNothingLost
  <2>1. ntSup.n = 0 /\ ntIneff.n = 0 BY <1>1, <1>4
  <2>. QED BY <1>7, <2>1 DEF NtNothingLost
<1>. QED BY <1>10, <1>11, <1>12, <1>13, <1>14, <1>15, <1>16, <1>17, <1>18 DEF NtIndInv

LEMMA NtStutters == ASSUME NtIndInv, UNCHANGED ntVars PROVE NtIndInv'
<1>1. /\ UNCHANGED <<ntCast, ntNow, ntFaults, ntWire, ntDegraded, ntStreak, ntOwed, ntSince>>
      /\ ntTodo' = ntTodo /\ ntInputs' = ntInputs /\ ntArmed' = ntArmed /\ ntHealthy' = ntHealthy /\ ntSup' = ntSup
      /\ ntIneff' = ntIneff /\ ntCount' = ntCount
  BY DEF ntVars, ntHealth, ntFold, ntWire
<1>2. ntInputs' \in 0 .. ntCast.max /\ ntInputs' >= ntInputs
  <2>1. ntCast.max \in Nat /\ ntInputs \in 0 .. ntCast.max BY NtConstants DEF NtIndInv, NtShape
  <2>. QED BY <1>1, <2>1
<1>3. /\ DOMAIN ntTodo' = NtThreads /\ (\A u \in NtThreads : NtTodoOK(ntTodo'[u]))
      /\ \A u \in NtThreads : \A x : NtHas(ntTodo[u], x) => NtHas(ntTodo'[u], x)
      /\ ntStreak + NtAllDue(ntTodo') <= ntInputs'
  BY <1>1, <1>2, NtNotGiven
<1>4. NtNothingLost' BY <1>1 DEF NtIndInv, NtNothingLost
<1>. QED BY <1>1, <1>2, <1>3, <1>4, NtFoldTypes, NtReported

LEMMA NtNextStep == ASSUME NtIndInv, [NtNext]_ntVars PROVE NtIndInv'
<1>1. ASSUME NEW t \in NtThreads, NtSending(t) PROVE NtIndInv'
  BY <1>1, NtClaimStep, NtDuplicateStep, NtSkipStep, NtLimitedStep, NtChannelSendStep, NtSentStep, NtRecordStep DEF NtSending
<1>2. ASSUME NEW err \in NtResults, NtBanDispatched(err) \/ NtBanRetried(err) \/ NtProbed(err) PROVE NtIndInv'
  BY <1>2, NtBanDispatchedStep, NtBanRetriedStep, NtProbedStep
<1>3. ASSUME NEW ok \in BOOLEAN, NtSelfCheck(ok) PROVE NtIndInv' BY <1>3, NtSelfCheckStep
<1>4. CASE NtArmChanges \/ NtScanFolded \/ NtScanFresh \/ NtFlush \/ NtFires \/ NtTick
  BY <1>4, NtArmChangesStep, NtScanFoldedStep, NtScanFreshStep, NtFlushStep, NtFiresStep, NtTickStep
<1>5. CASE UNCHANGED ntVars BY <1>5, NtStutters
<1>. QED BY <1>1, <1>2, <1>3, <1>4, <1>5 DEF NtNext

\* The invariant of the notifications: what every claim, window, limiter and
\* list looks like between any two steps of the goroutines that send.
THEOREM NtInvariant == NtSpec => []NtIndInv
<1>1. NtInit => NtIndInv BY NtInitStep
<1>2. NtIndInv /\ [NtNext]_ntVars => NtIndInv' BY NtNextStep
<1>. QED BY <1>1, <1>2, PTL DEF NtSpec

\* What the operator was told, in a state of the invariant.
LEMMA NtStatesSafe ==
  ASSUME NtIndInv PROVE NtTypeOK /\ NtStampHonest /\ NtDegradedTold /\ NtHealthHonest /\ NtNothingLost
<1>1. NtTypeOK
  <2>1. /\ ntNow \in NtTimes /\ ntInputs \in 0 .. ntCast.max /\ ntFaults \in 0 .. NtMaxFaults
        /\ ntStamp \in [NtKeys -> NtTimes \cup {NtNever}] /\ {ntArmed, ntDegraded, ntHealthy} \subseteq BOOLEAN
    BY DEF NtIndInv, NtShape, NtClaims
  <2>2. \A c \in DOMAIN NtChannels : Len(ntHistory[c].normal) <= NtQuota /\ Len(ntHistory[c].critical) <= NtCritQuota
    BY DEF NtIndInv, NtQuotasOK
  <2>3. \A t \in NtThreads : ntSend[t].claim \in NtTimes \cup {NtNever} BY NtWireTypes DEF NtClaims
  <2>4. ntStreak \in 0 .. ntCast.max
    <3>1. \A x : NtDue(x) \in {0, 1} BY DEF NtDue
    <3>2. NtAllDue(ntTodo) \in Nat BY <3>1 DEF NtAllDue
    <3>3. ntCast.max \in Nat BY NtConstants DEF NtIndInv, NtShape
    <3>4. ntStreak \in Nat /\ ntInputs \in 0 .. ntCast.max /\ ntStreak + NtAllDue(ntTodo) <= ntInputs
      BY DEF NtIndInv, NtShape, NtStreakOK
    <3>. QED BY <3>2, <3>3, <3>4
  <2>. QED BY <2>1, <2>2, <2>3, <2>4 DEF NtTypeOK
<1>2. NtStampHonest BY DEF NtIndInv, NtWindowsOK, NtKeyOK, NtStampHonest
<1>3. NtDegradedTold
  <2>. SUFFICES ASSUME ntOwed.key # "none", \A t \in NtThreads : NtQuiet(t), NtAcceptsCritical
               PROVE  \/ ntSaid[ntOwed.key] # NtNever /\ ntOwed.at - ntSaid[ntOwed.key] < NtDedup
                      \/ ntFaults > 0
                      \/ \A c \in DOMAIN NtChannels : NtAccepts(c, "critical") => ntCrits[c] >= NtCritQuota
    BY DEF NtDegradedTold
  <2>1. \A t \in NtThreads : ntTodo[t] = <<>> /\ ntSend[t].key = "none" BY NtIdleIs DEF NtQuiet
  <2>2. \A t \in NtThreads : ~NtHas(ntTodo[t], NtMsg(ntOwed.key, "critical")) BY <2>1, NtEmptyOK
  <2>. QED BY <2>1, <2>2 DEF NtIndInv, NtOwedOK, NtHopeless
<1>. QED BY <1>1, <1>2, <1>3 DEF NtIndInv, NtHealthOK

\* Nothing is told twice in a window: the step that takes one.
LEMMA NtClaimsApart ==
  ASSUME NtIndInv, [NtNext]_ntVars
  PROVE  \A t \in NtThreads : ntSend[t] = NtIdle /\ ntSend'[t] # NtIdle =>
           LET k == ntSend'[t].key IN
             /\ ntSaid[k] # NtNever => ntNow - ntSaid[k] >= NtDedup
             /\ \A u \in NtThreads \ {t} : ntSend[u].key = k => ntNow - ntSend[u].claim >= NtDedup
<1>. SUFFICES ASSUME NEW t \in NtThreads, ntSend[t] = NtIdle, ntSend'[t] # NtIdle
     PROVE  /\ ntSaid[ntSend'[t].key] # NtNever => ntNow - ntSaid[ntSend'[t].key] >= NtDedup
            /\ \A u \in NtThreads \ {t} : ntSend[u].key = ntSend'[t].key => ntNow - ntSend[u].claim >= NtDedup
  OBVIOUS
<1>0. DOMAIN ntSend = NtThreads BY DEF NtIndInv, NtShape
<1>1. ntSend' # ntSend OBVIOUS
<1>2. PICK u \in NtThreads : NtSending(u)
  BY <1>1 DEF NtNext, ntVars, ntWire, NtBanDispatched, NtBanRetried, NtProbed, NtSelfCheck, NtArmChanges, NtScanFolded,
            NtScanFresh, NtFlush, NtFires, NtTick
<1>3. u = t
  <2>1. ASSUME u # t PROVE ntSend'[t] = ntSend[t]
    BY <1>0, <1>1, <1>2, <2>1 DEF NtSending, NtClaim, NtDuplicate, NtSkip, NtLimited, NtChannelSend, NtSent, NtRecord, ntWire
  <2>. QED BY <2>1
<1>4. NtClaim(t)
  BY <1>0, <1>1, <1>2, <1>3 DEF NtSending, NtDuplicate, NtSkip, NtLimited, NtChannelSend, NtSent, NtRecord, NtAtChannel, ntWire
<1>5. /\ ntTodo[t] # <<>> /\ Head(ntTodo[t]).do = "send" /\ NtFree(Head(ntTodo[t]).key)
      /\ ntTodo' = [ntTodo EXCEPT ![t] = Tail(@)]
      /\ ntSend' = [ntSend EXCEPT ![t] = [key |-> Head(ntTodo[t]).key, sev |-> Head(ntTodo[t]).sev, at |-> 1,
                                          claim |-> ntNow, delivered |-> FALSE]]
  BY <1>4 DEF NtClaim
<1>6. Head(ntTodo[t]).key \in NtKeys BY <1>5, NtPopped
<1>7. ntSend'[t].key = Head(ntTodo[t]).key BY <1>0, <1>5
<1>8. /\ NtApart(ntSaid[ntSend'[t].key], ntNow)
      /\ \A v \in NtThreads : ntSend[v].key = ntSend'[t].key => ntNow - ntSend[v].claim >= NtDedup
  BY <1>5, <1>6, <1>7, NtClaimFacts
<1>. QED BY <1>8 DEF NtApart

\* Claims, quotas, folding and health, with any number of sends under way: a
\* notification is not repeated inside its window (claimDedup, releaseDedup), a
\* closed window was told or is being told, an armed daemon that is DEGRADED
\* has said so unless a channel failed or had its reserved criticals, DEGRADED
\* has its reason (recordEnforceResult), and folding keeps the counts.
THEOREM NotifyIsSafe == NtSpec => NtSafe
<1>1. NtIndInv => NtTypeOK /\ NtStampHonest /\ NtDegradedTold /\ NtHealthHonest /\ NtNothingLost BY NtStatesSafe
<1>2. NtIndInv /\ [NtNext]_ntVars =>
        [\A t \in NtThreads : ntSend[t] = NtIdle /\ ntSend'[t] # NtIdle =>
           LET k == ntSend'[t].key IN
             /\ ntSaid[k] # NtNever => ntNow - ntSaid[k] >= NtDedup
             /\ \A u \in NtThreads \ {t} : ntSend[u].key = k => ntNow - ntSend[u].claim >= NtDedup]_ntVars
  BY NtClaimsApart
<1>. QED BY <1>1, <1>2, NtInvariant, PTL DEF NtSpec, NtSafe, NtNoRepeat
=============================================================================

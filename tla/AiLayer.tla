------------------------------ MODULE AiLayer ------------------------------
(***************************************************************************)
(* The asynchronous AI layer: the bounded drop-oldest queue of grey-zone   *)
(* episodes (internal/daemon/aiasync.go), its single worker, the round     *)
(* trip cache -> budget -> provider -> bind -> cache of consultProvider    *)
(* (daemon.go) and the provider chain, retry loop, daily budget and        *)
(* verdict cache of internal/ai.                                           *)
(*                                                                         *)
(* A cooldown mark is kept as the time it still has to run, so             *)
(* `now - lastDone < aiAsyncPerIPCooldown` is aiCool[ip] > 0 and pruning   *)
(* elapsed marks changes nothing.  A token is one unit of usage.           *)
(***************************************************************************)
EXTENDS Integers, Sequences, FiniteSets, SequencesExt

CONSTANTS AiIPs,          \* addresses whose score is in the ambiguous band
          AiStatic,       \* those on the static allowlist the providers clamp
          AiSig,          \* behaviorKey: the traffic signature of an address
          AiCap,          \* queue capacity
          AiCooldown,     \* aiAsyncPerIPCooldown, in ticks
          AiBackoff,      \* aiAsyncErrorBackoff, in ticks
          AiKinds,        \* the provider kind of each chain entry, in order
          AiDaily,        \* token_budget_daily of an entry
          AiMaxRetries,   \* aiMaxRetries
          AiDelayCap      \* aiRetryAfterCap, in units of aiBackoffBase

ASSUME AiAssumption ==
    /\ AiStatic \subseteq AiIPs
    /\ AiCap \in Nat \ {0} /\ AiDaily \in Nat \ {0} /\ AiMaxRetries \in Nat
    /\ AiBackoff \in Nat /\ AiCooldown \in Nat /\ AiBackoff < AiCooldown
    /\ AiKinds \in Seq({"anthropic", "openai", "ollama"}) /\ AiKinds # <<>>
    /\ AiDelayCap \in Nat \ {0}

VARIABLES
    aiChain,    \* ai.providers is set: the provider is a ChainProvider
    aiItems,    \* aiAsyncQueue.items, oldest first
    aiPending,  \* aiAsyncQueue.pending
    aiCool,     \* remaining cooldown per address (lastDone)
    aiPusher,   \* the pipeline goroutine: "idle", or about to signal
    aiSignal,   \* the one-slot wake-up channel
    aiW,        \* the worker goroutine
    aiCache,    \* verdicts per signature; {} is a miss
    aiSpent,    \* tokens recorded today per chain entry
    aiAge       \* history: ticks since the last answer for an address, capped

aiVars == <<aiChain, aiItems, aiPending, aiCool, aiPusher, aiSignal, aiW,
            aiCache, aiSpent, aiAge>>

\* A verdict: the address it names and whether the provider's allowlist clamp
\* zeroed it (the "+allowlist-clamp" source suffix).
AiVerdict == [ip : AiIPs, clamped : BOOLEAN]
AiIdle == [pc |-> "idle", ip |-> CHOOSE i \in AiIPs : TRUE, entry |-> 1,
           attempt |-> 0, use |-> 0, waited |-> 0, vs |-> {}, replied |-> FALSE]
AiPcs == {"idle", "empty", "wait", "rate", "consult", "call", "decide"}
AiMaxUse == AiMaxRetries + 1

AiTypeOK ==
    /\ aiChain \in BOOLEAN /\ aiPusher \in {"idle", "signal"} /\ aiSignal \in BOOLEAN
    /\ aiItems \in Seq(AiIPs) /\ Len(aiItems) <= AiCap
    /\ aiPending \subseteq AiIPs
    /\ aiCool \in [AiIPs -> 0..AiCooldown] /\ aiAge \in [AiIPs -> 0..AiCooldown]
    /\ aiW.pc \in AiPcs /\ aiW.entry \in 1..Len(AiKinds) + 1 /\ aiW.vs \subseteq AiVerdict
    /\ \A i \in AiIPs : aiCache[AiSig[i]] \subseteq AiVerdict

AiInit ==
    /\ aiChain \in BOOLEAN
    /\ aiItems = <<>> /\ aiPending = {} /\ aiPusher = "idle" /\ aiSignal = FALSE
    /\ aiCool = [i \in AiIPs |-> 0] /\ aiAge = [i \in AiIPs |-> AiCooldown]
    /\ aiW = AiIdle
    /\ aiCache = [s \in {AiSig[i] : i \in AiIPs} |-> {}]
    /\ aiSpent = [e \in DOMAIN AiKinds |-> 0]

---------------------------------------------------------------------------
(* Budget: TodayUsage of one provider against its daily limit.             *)

\* Budget.Exceeded over Budget.Current.
AiExceeded(e) == aiSpent[e] >= AiDaily

\* aiEligible after the band test.  The active-ban guard answers anything
\* here (BanLifecycle owns the bans), and a failed ban lookup consults
\* anyway; an exhausted or unreadable budget does not.  In chain mode the
\* daemon's own budget has no limit.
AiEligible == aiChain \/ ~AiExceeded(1)

\* Budget.Consume: the usage is recorded, or the store refuses and it is lost.
AiConsume(e, use) == aiSpent' \in {aiSpent, [aiSpent EXCEPT ![e] = @ + use]}

(* Verdict cache.                                                          *)

\* Cache.Get: the entry of the signature, re-targeted to the asking address.
AiCacheGet(ip) == {[v EXCEPT !.ip = ip] : v \in aiCache[AiSig[ip]]}

\* Cache.Set: clamped verdicts are never stored; nothing left, nothing set.
AiCacheSet(ip, vs) ==
    LET stored == {v \in vs : ~v.clamped}
    IN  aiCache' = IF stored = {} THEN aiCache ELSE [aiCache EXCEPT ![AiSig[ip]] = stored]

\* bindVerdictsToIP, and boundToBatch of the providers: drop what names
\* another address.
AiBind(vs, ip) == {v \in vs : v.ip = ip}

\* clamp of the providers: an allowlisted target loses its score.
AiClamp(vs) == {[v EXCEPT !.clamped = v.ip \in AiStatic] : v \in vs}

(* Providers.  One call: an error without usage, a reply that cannot be    *)
(* parsed (its tokens are spent), or parsed results for any addresses.     *)
(* "limited" is the typed 429; after is its Retry-After, -1 when absent.   *)

AiFailed(use, after) == [ok |-> FALSE, use |-> use, after |-> after, vs |-> {}]
AiParsed == {[ok |-> TRUE, use |-> 1, after |-> -1,
              vs |-> {[ip |-> i, clamped |-> FALSE] : i \in s}] : s \in SUBSET AiIPs}
AiAfters == {-1, 0, AiDelayCap + 1}

AiCallAnthropic == {AiFailed(u, -1) : u \in 0..1} \cup {AiFailed(0, a) : a \in AiAfters} \cup AiParsed
AiCallOpenAI == {AiFailed(u, -1) : u \in 0..1} \cup {AiFailed(0, a) : a \in AiAfters} \cup AiParsed
\* ollama has no 429 case: every bad status is a plain error.
AiCallOllama == {AiFailed(u, -1) : u \in 0..1} \cup AiParsed

AiCallOnce(e) ==
    CASE AiKinds[e] = "openai" -> AiCallOpenAI
      [] AiKinds[e] = "ollama" -> AiCallOllama
      [] OTHER -> AiCallAnthropic

\* retryDelay: a parsed Retry-After or the exponential backoff, both capped.
AiRetryDelay(after, attempt) ==
    LET d == IF after >= 0 THEN after ELSE 2^attempt
    IN  IF d > AiDelayCap THEN AiDelayCap ELSE d

---------------------------------------------------------------------------
(* The queue.                                                              *)

\* aiAsyncQueue.push, under the mutex; the wake-up is sent after the unlock.
AiPush(ip) ==
    /\ aiPusher = "idle"
    /\ AiEligible /\ ip \notin aiPending /\ aiCool[ip] = 0
    /\ LET full == Len(aiItems) >= AiCap
           kept == IF full THEN Tail(aiItems) ELSE aiItems
       IN  /\ aiItems' = Append(kept, ip)
           /\ aiPending' = (aiPending \ (IF full THEN {Head(aiItems)} ELSE {})) \cup {ip}
    /\ aiPusher' = "signal"
    /\ UNCHANGED <<aiChain, aiCool, aiSignal, aiW, aiCache, aiSpent, aiAge>>

\* Mutant: an unbuffered signal, lost unless the worker already waits.
AiPushSignalUnbuffered ==
    /\ aiPusher = "signal" /\ aiPusher' = "idle" /\ aiSignal' = (aiSignal \/ aiW.pc = "wait")
    /\ UNCHANGED <<aiChain, aiItems, aiPending, aiCool, aiW, aiCache, aiSpent, aiAge>>

\* The non-blocking send to the one-slot channel.
AiPushSignal ==
    /\ aiPusher = "signal" /\ aiPusher' = "idle" /\ aiSignal' = TRUE
    /\ UNCHANGED <<aiChain, aiItems, aiPending, aiCool, aiW, aiCache, aiSpent, aiAge>>

\* done: the address leaves pending and a mark is set, the full cooldown
\* after an answer, the short backoff otherwise.
AiDone(answered) ==
    /\ aiPending' = aiPending \ {aiW.ip}
    /\ aiCool' = [aiCool EXCEPT ![aiW.ip] = IF answered THEN AiCooldown ELSE AiBackoff]
    /\ aiAge' = IF answered THEN [aiAge EXCEPT ![aiW.ip] = 0] ELSE aiAge
    /\ aiW' = AiIdle

\* Mutant: the mark goes when the item is popped, not when it is done.
AiPopForgets ==
    /\ aiW.pc = "idle" /\ aiItems # <<>>
    /\ aiW' = [AiIdle EXCEPT !.pc = "rate", !.ip = Head(aiItems)] /\ aiItems' = Tail(aiItems)
    /\ aiPending' = aiPending \ {Head(aiItems)}
    /\ UNCHANGED <<aiChain, aiCool, aiPusher, aiSignal, aiCache, aiSpent, aiAge>>

\* pop: the mark stays.  An empty queue sends the worker to its select.
AiPop ==
    /\ aiW.pc = "idle"
    /\ IF aiItems = <<>>
       THEN aiW' = [aiW EXCEPT !.pc = "empty"] /\ UNCHANGED aiItems
       ELSE aiW' = [AiIdle EXCEPT !.pc = "rate", !.ip = Head(aiItems)] /\ aiItems' = Tail(aiItems)
    /\ UNCHANGED <<aiChain, aiPending, aiCool, aiPusher, aiSignal, aiCache, aiSpent, aiAge>>

\* The worker reaches its select after the queue's lock is released.
AiBlock ==
    /\ aiW.pc = "empty" /\ aiW' = [aiW EXCEPT !.pc = "wait"]
    /\ UNCHANGED <<aiChain, aiItems, aiPending, aiCool, aiPusher, aiSignal, aiCache, aiSpent, aiAge>>

AiWake ==
    /\ aiW.pc = "wait" /\ aiSignal
    /\ aiSignal' = FALSE /\ aiW' = AiIdle
    /\ UNCHANGED <<aiChain, aiItems, aiPending, aiCool, aiPusher, aiCache, aiSpent, aiAge>>

\* processAIAsyncItem, front gates: the address may have been banned or
\* runtime-allowlisted since it was queued, a budget query may fail, the
\* cleaner may leave nothing.
AiGate ==
    /\ aiW.pc = "rate"
    /\ \/ AiDone(FALSE)
       \/ /\ AiEligible
          /\ aiW' = [aiW EXCEPT !.pc = "consult"]
          /\ UNCHANGED <<aiPending, aiCool, aiAge>>
    /\ UNCHANGED <<aiChain, aiItems, aiPusher, aiSignal, aiCache, aiSpent>>

---------------------------------------------------------------------------
(* consultProvider.                                                        *)

AiConsultCached ==
    /\ aiW.pc = "consult" /\ AiCacheGet(aiW.ip) # {}
    /\ aiW' = [aiW EXCEPT !.pc = "decide", !.vs = AiBind(AiCacheGet(aiW.ip), aiW.ip), !.replied = TRUE]
    /\ UNCHANGED <<aiChain, aiItems, aiPending, aiCool, aiPusher, aiSignal, aiCache, aiSpent, aiAge>>

\* A miss: the budget query fails (no answer), or the provider is called.
AiConsultMiss ==
    /\ aiW.pc = "consult" /\ AiCacheGet(aiW.ip) = {}
    /\ \/ AiDone(FALSE)
       \/ aiW' = [aiW EXCEPT !.pc = "call"] /\ UNCHANGED <<aiPending, aiCool, aiAge>>
    /\ UNCHANGED <<aiChain, aiItems, aiPusher, aiSignal, aiCache, aiSpent>>

\* ChainProvider.Analyze skips an entry whose budget is exhausted or cannot
\* be read.
AiChainSkip ==
    /\ aiW.pc = "call" /\ aiChain /\ aiW.entry <= Len(AiKinds) /\ aiW.attempt = 0
    /\ aiW' = [aiW EXCEPT !.entry = @ + 1]
    /\ UNCHANGED <<aiChain, aiItems, aiPending, aiCool, aiPusher, aiSignal, aiCache, aiSpent, aiAge>>

\* ChainProvider.Analyze with every entry failed or skipped returns no
\* verdicts and NO error: consultProvider takes that as an answer.
AiChainExhausted ==
    /\ aiW.pc = "call" /\ aiW.entry > Len(AiKinds)
    /\ aiW' = [aiW EXCEPT !.pc = "decide"]
    /\ UNCHANGED <<aiChain, aiItems, aiPending, aiCool, aiPusher, aiSignal, aiCache, aiSpent, aiAge>>

\* An attempt of the entry the call has reached; its budget is read before
\* the first one.
AiCalling ==
    /\ aiW.pc = "call" /\ aiW.entry <= Len(AiKinds)
    /\ aiChain => ~(aiW.attempt = 0 /\ AiExceeded(aiW.entry))
    /\ UNCHANGED <<aiChain, aiItems, aiPusher, aiSignal>>

\* analyzeWithRetry: a failed attempt that is not the last sleeps and retries.
AiRetry ==
    /\ AiCalling /\ aiW.attempt < AiMaxRetries
    /\ \E r \in AiCallOnce(aiW.entry) :
        /\ ~r.ok
        /\ aiW' = [aiW EXCEPT !.attempt = @ + 1, !.use = @ + r.use,
                              !.waited = @ + AiRetryDelay(r.after, aiW.attempt)]
    /\ UNCHANGED <<aiPending, aiCool, aiAge, aiCache, aiSpent>>

\* The last attempt failed: on to the next entry, or without a chain the
\* error that leaves the episode unanswered.  Analyze returns the
\* accumulated usage with the error, and neither caller records it.
AiGiveUp ==
    /\ AiCalling /\ aiW.attempt = AiMaxRetries
    /\ \E r \in AiCallOnce(aiW.entry) : ~r.ok
    /\ IF aiChain
       THEN /\ aiW' = [aiW EXCEPT !.entry = @ + 1, !.attempt = 0, !.use = 0, !.waited = 0]
            /\ UNCHANGED <<aiPending, aiCool, aiAge>>
       ELSE AiDone(FALSE)
    /\ UNCHANGED <<aiCache, aiSpent>>

\* A reply: the usage is recorded, the verdicts bound, clamped and cached.
AiReply ==
    /\ AiCalling
    /\ \E r \in AiCallOnce(aiW.entry) :
        LET vs == AiClamp(AiBind(r.vs, aiW.ip))
        IN  /\ r.ok
            /\ AiConsume(aiW.entry, aiW.use + r.use)
            /\ AiCacheSet(aiW.ip, vs)
            /\ aiW' = [aiW EXCEPT !.pc = "decide", !.vs = vs, !.replied = TRUE]
    /\ UNCHANGED <<aiPending, aiCool, aiAge>>

\* processAIAsyncItem, the tail: nothing to say, allowlisted meanwhile, or
\* Decide and dispatch (BanLifecycle) over aiW.vs.  Every path is an answer.
AiDecide ==
    /\ aiW.pc = "decide"
    /\ AiDone(TRUE)
    /\ UNCHANGED <<aiChain, aiItems, aiPusher, aiSignal, aiCache, aiSpent>>

---------------------------------------------------------------------------
(* The clock.                                                              *)

\* Time passes: marks run down.
AiTick ==
    /\ \E i \in AiIPs : aiCool[i] > 0
    /\ aiCool' = [i \in AiIPs |-> IF aiCool[i] = 0 THEN 0 ELSE aiCool[i] - 1]
    /\ aiAge' = [i \in AiIPs |-> IF aiAge[i] = AiCooldown THEN AiCooldown ELSE aiAge[i] + 1]
    /\ UNCHANGED <<aiChain, aiItems, aiPending, aiPusher, aiSignal, aiW, aiCache, aiSpent>>

\* Cache.Evict, or an expired entry deleted on access.
AiCacheExpire ==
    /\ \E s \in DOMAIN aiCache : aiCache[s] # {} /\ aiCache' = [aiCache EXCEPT ![s] = {}]
    /\ UNCHANGED <<aiChain, aiItems, aiPending, aiCool, aiPusher, aiSignal, aiW, aiSpent, aiAge>>

\* A new UTC day: TodayUsage starts from zero.
AiNewDay ==
    /\ \E e \in DOMAIN aiSpent : aiSpent[e] > 0
    /\ aiSpent' = [e \in DOMAIN aiSpent |-> 0]
    /\ UNCHANGED <<aiChain, aiItems, aiPending, aiCool, aiPusher, aiSignal, aiW, aiCache, aiAge>>

AiWorker == AiPop \/ AiBlock \/ AiWake \/ AiGate \/ AiConsultCached \/ AiConsultMiss
            \/ AiChainSkip \/ AiChainExhausted \/ AiRetry \/ AiGiveUp \/ AiReply \/ AiDecide

AiNext ==
    \/ \E ip \in AiIPs : AiPush(ip)
    \/ AiPushSignal \/ AiWorker \/ AiTick \/ AiCacheExpire \/ AiNewDay

\* The worker and the pipeline goroutine are scheduled; every provider call
\* ends (client timeout, bounded retries).
AiSpec == AiInit /\ [][AiNext]_aiVars /\ WF_aiVars(AiWorker) /\ WF_aiVars(AiPushSignal)

---------------------------------------------------------------------------
(* Properties.                                                             *)

\* The pending marks are exactly the addresses queued or in flight, each of
\* them once (aiasync.go: one entry per IP from push until the analysis is
\* done): a mark left behind would mute the address for the life of the
\* daemon, a mark lost would let a burst pay for the same analysis twice.
AiPendingExact ==
    LET flying == IF aiW.pc \in {"idle", "empty", "wait"} THEN {} ELSE {aiW.ip}
    IN  /\ aiPending = ToSet(aiItems) \cup flying
        /\ IsInjective(aiItems) /\ flying \cap ToSet(aiItems) = {}

\* Two answered analyses of an address are a full cooldown apart, whatever
\* happened between them (drops, errors, re-queues).
AiCooldownHolds ==
    [][aiW'.pc = "consult" /\ aiW.pc # "consult" => aiAge[aiW.ip] >= AiCooldown]_aiVars

\* What reaches the decision engine names the analysed address, and is a
\* clamped verdict only if that very address is allowlisted: neither a model
\* naming a victim nor a cache entry shared by signature can get through.
AiVerdictsBound ==
    aiW.pc = "decide" =>
        \A v \in aiW.vs : v.ip = aiW.ip /\ (v.clamped => v.ip \in AiStatic)

\* The recorded spend of a provider overshoots its daily budget by less than
\* the usage of one analysis.
AiBudgetBound == \A e \in DOMAIN aiSpent : aiSpent[e] < AiDaily + AiMaxUse

\* The sleeps of one provider are bounded by the cap for each retry, whatever
\* Retry-After the server sends.
AiStallBound == aiW.waited <= AiMaxRetries * AiDelayCap

\* Every episode ends: no pending mark sticks, and the one-slot signal never
\* loses the wake-up of a queued item.
AiEpisodeEnds == \A ip \in AiIPs : []<>(ip \notin aiPending)

\* The queue's marks, the verdicts, the spend and the sleeps of the AI layer stay
\* within what aiasync.go and the providers promise, through full queues,
\* re-queues, cache hits, provider failures and a chain of providers.
AiInv == AiTypeOK /\ AiPendingExact /\ AiVerdictsBound /\ AiBudgetBound /\ AiStallBound

\* An episode is analysed at most once a cooldown and always comes to an end.
AiEpisodes == AiCooldownHolds /\ AiEpisodeEnds
=============================================================================

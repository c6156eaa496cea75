# EzyShield: TLA+ models, model checking and proofs

EzyShield reads the logs of a host, scores the addresses it finds there and bans
them: a daemon decides, a privileged helper writes nftables sets, and optional
edge providers block upstream. A mistake locks an administrator out or silently
stops enforcing. This directory models the parts of the code where such mistakes
come from the order of events rather than from a single function: from the log
file that rotates under its reader to the edge list that somebody else edits.

- [1 The system](#1-the-system)
- [2 Modules and code](#2-modules-and-code)
- [3 Runs](#3-runs)
- [4 Fairness](#4-fairness)
- [5 Proofs](#5-proofs)
- [6 Disagreements and races](#6-disagreements-and-races)
- [7 What is not modelled](#7-what-is-not-modelled)
- [8 Plan](#8-plan)

Paths are relative to the repository. `PROJECT.json` holds the map from every
definition to the lines it models, the hazards and the mutants.

## 1 The system

### 1.1 Components

| Component | State | Operations | Hard part | What makes it correct |
|---|---|---|---|---|
| Runtime allowlist (`internal/daemon`, `internal/store`) | the `allowlist` table, `Daemon.runtimeAllowlist`, `Gate.extra`, the kernel's `@allowed` set | allow, unallow, expiry sweep, restore at startup | four copies written in separate steps by several goroutines | the copies agree when nothing runs; the policy's own entries are accepted always |
| Ban lifecycle (`internal/decision`, `internal/daemon`) | `bans_active`, the kernel's blocked set, the strike lock, `enforceMu` | Decide, dispatch, ban, unban, allow's lift, disable_all | decisions, verbs and reconciles in flight at the same time | a lifted ban stays lifted, an allowed address is not blocked again, a fresh ban is kept |
| Reconcile (`syncEnforcer`) | a snapshot of the store, the gate's filter | at startup, on a probe tick, after the sweep, after disable_all | snapshot and write are apart; RPCs fail in between | never deletes what was just applied; converges |
| Gate, SSH peers and re-check (`gate.go`, `sshpeers.go`, `authpeers.go`, `sshrecheck.go`) | two caches with an age, a bounded queue with due times and budgets | refuse, probe, schedule, requeue, drop | stale peers, loginctl failing, queue at its bound | nobody logged in is banned; no refused ban is lost |
| Deferred enforcement (`gatedban.go`) | a queue entry with an attempt budget | retry | the ban may be gone when the retry fires | bounded attempts; no revival |
| Armed flag and window (`arm.go`) | policy.yaml, `Policy.armed`, the window's row | arm, arm --for, arm --keep, disarm, checkArmWindow | three writes without a lock, crashes, failing writes | file and flag agree; a passed deadline disarms |
| Enforcer helper (`internal/enforcerd`) | `Server.blocked` (cache), `names`, `pinned`, the kernel | add, del, list, flush, allow_*, feeds_sync | element timeouts, replace in two invocations, overlap, restart | the cache tells the truth; the reconcile repairs |
| File tail (`collector/filetail.go`) | descriptor, offset, watch, partial line | open, watch, drain, re-open | rotation between any two calls | no line twice or glued; the new file is read |
| Collector supervision (`daemon.go`, `collhealth.go`, docker, journald) | back-off, failure counts, health, channels | start, fail, back off, alert, drain | flapping sources, panics, two ways to stop | one alert per outage, sources come back, a drain ends and loses nothing |
| Aggregation and rules (`aggregate`, `rules`, `eventsagg.go`) | samples, overflow slots, hourly counters, watermarks | add, judge, strike, flush, prune | caps, bucket edges, crashes between strike and watermark | new evidence only; no evidence hidden |
| Decision ladder (`decision/engine.go`, `notifyedge.go`, `manualban.go`) | strikes and suppression counters in the store; the minute's counter and the notify_only edges in memory | guard, count, mark, escalate, cap, audit | two callers, operators without the strike lock, restarts, failing reads | no rung twice or skipped; the cap; no false or missing alarm |
| AI layer (`aiasync.go`, `internal/ai`) | queue, pending marks, cooldowns, cache, budgets | push, pop, consult, retry, decide | full queue, failing and slow providers | once per cooldown, within budget, verdicts about the analysed address |
| Event stream (`eventbus.go`, `watch_live.go`, `dashboard/bus.go`) | subscriber channels, the poll's last id, tabs' queues | publish, subscribe, reconnect, poll, broadcast | slow readers, restarts, bursts | a slow reader harms itself only; no audit row skipped or repeated |
| Notifications and health (`internal/notify`, `notifysuppress.go`, `enfstate.go`) | dedup stamps, quotas, folding windows, ACTIVE or DEGRADED | claim, send, release, fold, flush, record | concurrent senders, failing channels, floods | told once, told at all, counts kept |
| Feeds (`internal/feeds`, `daemon/feeds.go`) | cache with validators, flags, desired sets | fetch, refresh on demand, block, observe | overlapping refreshes, 304 and cut bodies | the kernel set converges; flags are current |
| Edge enforcers (`internal/enforce`) | mirror of a list, zone rules, IP sets | ban, unban, Sync, flush, rebuild | lost replies, other writers, capacity, throttling | others' entries untouched; the edge follows the store |
| SIEM (`siem.go`, `internal/siem`) | cursor, bounded queues, connections | tail, enqueue, deliver, flush | full queues, broken connections, shutdown | in order, nothing uncounted, no row skipped |
| Dashboard (`internal/dashboard`) | sessions in two indexes, throttle, roles | login, request, logout, reload | parallel guesses, role changes mid-request | indexes agree, guessing bounded, roles current |
| Plugins (`internal/plugin`) | process, queue, failure window, breaker | call, serve, restart, disable, stop | hangs, late answers, crash loops | own answer, bounded restarts, nobody hangs |
| Setup (`cmd/ezyshield/init*.go`, `configwizard*.go`) | config, policy, .env, backups, units, group | wizard, scripted init, component editors | interruption anywhere, hand edits | nothing of the operator's is lost; done means complete |
| Self update (`update.go`, `internal/update`) | two binaries, temp files | check, verify, download, install | edited release, half an install | a verified pair, no silent downgrade |
| Parsers, retention, reports, enrichment, migration, CLI | | | | see section 7 |

### 1.2 How they interact

```
 log files, journald, docker -> collectors -> parsers -> aggregate/rules -> decision engine
   FileTail      Supervise                                  Detect             |
                                                             |                 |
                                                        AI worker      bans_active (store)
                                                         AiLayer               |
 operator -> control socket -> verbs ---------------> enforceMu ---> gate ---> enforcers
              ArmWindow           |                 BanLifecycle    SshPeers    |      |
                            allowlist table                            helper's socket edge APIs
                              Allowlist                                 EnforcerServer Edge*
                                  |                                            |
              runtimeAllowlist, Gate.extra, @allowed                cache, nftables sets <- Feeds
                                                                               |
              probe tick, sweep, startup -> syncEnforcer ----------------------+
 audit rows, events -> Notify, EventStream, Siem, Dashboard      plugins: Plugin
 the engine's own record of strikes and bans: Ladder      installation: Setup, EdgeSetup, Update
```

Each control-socket connection has a goroutine of its own. So have the
pipeline, the AI worker, the SSH re-check, the deferred retry, the reconcile
probe, the two sweeps, the arm-window check, every feed, every SIEM sink and
every collector. `enforceMu` serialises what they do to the kernel; the strike
lock serialises two decisions about one address; `mutateMu` serialises the verbs
in the helper. Everything else interleaves. The store, policy.yaml and the
kernel survive a restart of the daemon; the kernel alone survives a restart of
the helper.

## 2 Modules and code

| Module | Models | Code |
|---|---|---|
| `Allowlist` | the four copies and the operations on them | `daemon.go` reloadAllowlist, syncEnforcerAllowlist, runExpireAllows; `socket.go` handleAllow, handleUnallow; `nftables.go` SyncAllowlist |
| `BanLifecycle` (extends `Allowlist`) | decision, dispatch, gate, deferred retry, reconcile, manual ban and unban, allow's lift, disable_all | `decision/engine.go` Decide; `daemon.go` dispatch, syncEnforcer, runExpireBans; `socket.go`; `gatedban.go`; `disableall.go`; `gate.go` |
| `ArmWindow` | the armed flag and the auto-revert window | `arm.go`, `config/policy.go` |
| `SshPeers` | peer and session caches, the gate's answer, the re-check queue | `sshpeers.go`, `authpeers.go`, `sshrecheck.go` |
| `FileTail` | the tailer against a logger that rotates | `filetail.go`, `lines.go` |
| `Supervise` | runCollector, health, docker and journald sources, shutdown | `daemon.go`, `collhealth.go`, `docker*.go`, `journald.go` |
| `Detect` | windows, overflow slots, rule overlays, hourly counters | `aggregate.go`, `rules/engine.go`, `eventsagg.go`, `daemon.go` |
| `Ladder` | rungs, rate cap and exemption, ban_ineffective, pre-permanent alert, notify_only edges | `decision/engine.go`, `notifyedge.go`, `manualban.go`, `config/policy.go`; `store.go` |
| `AiLayer` | queue, worker, cooldown, cache, budget, retry, chain | `aiasync.go`, `internal/ai` |
| `EventStream` | the daemon's bus and `watch`; the dashboard's poll and tabs | `eventbus.go`, `socket.go`, `watch_live.go`, `dashboard/bus.go`, `websocket.go` |
| `EnforcerServer` | the helper's verbs against kernel and cache, and the Sync client | `enforcerd/server.go`, `automerge.go`, `nft.go`; `enforce/nftables.go` Sync |
| `EdgeShare` | what a shared Cloudflare list expects of an instance (abstract) | |
| `EdgeLists` | the list enforcer; implements `EdgeShare` | `cloudflare_lists.go` |
| `EdgeZones` | rules per zone | `cloudflare.go` |
| `EdgeSets` | AWS WAF and Bunny | `awswaf.go`, `bunny.go`, `multi.go` |
| `Feeds` | fetch, refresh, block, observe | `feeds/feeds.go`, `daemon/feeds.go`, `run.go` |
| `Notify` | dispatcher, folding, enforcement health | `notify/*.go`, `notifysuppress.go`, `ineffective.go`, `enfstate.go`, `selfcheck.go` |
| `Dashboard` | login, throttle, sessions, roles, writes | `internal/dashboard` |
| `Siem` | tail, sinks, shutdown | `siem.go`, `siem/transport.go` |
| `Plugin` | calls, supervisor, process | `plugin/runtime.go` |
| `Setup` | wizard, scripted init, component editors | `init*.go`, `configwizard*.go`, `config/save.go` |
| `EdgeSetup` | the edge accounts over several runs | `init_cdn*.go`, `cf_preflight.go`, `configwizard.go` |
| `Update` | the two-binary update | `update.go`, `internal/update` |
| `AllowRepair` (extends `Allowlist`) | a history variable: did operations on the allowlist overlap or fail since a re-syncing one last began alone | |
| `Allowlist_proofs`, `BanLifecycle_proofs`, `EnforcerServer_proofs`, `Dashboard_proofs` | the theorems about the module named | |
| `EdgeLists_proofs` | the theorems about `EdgeLists`, `EdgeZones`, `EdgeSets`, `EdgeSetup` | |
| `Ladder_proofs` | the theorems about `Ladder`, `Update`, `Setup` | |
| `Watch_proofs` | the theorems about `ArmWindow`, `EventStream`, `Supervise`, `SshPeers`, `FileTail`, `AiLayer` | |
| `Services_proofs` | the theorems about `Feeds`, `Plugin`, `Siem`, `Notify` | |
| `MC*` | the instances TLC checks | |

**Abstraction.** An address is a model value and a prefix the set of addresses it
covers, so `Contains` is membership and `Overlaps` a non-empty intersection. A
ban is real with a TTL, real without one, or simulated. Scores and verdicts are
abstracted to the choice whether Decide commits. A log line is the sequence of
the logger's writes it consists of (`FileTail`), a line handed over
(`Supervise`), or the set of rules it hits (`Detect`). A feed's file is a
numbered version with its set of entries; a release is what its checksums,
signature and binaries say of each other (`Update`); a secret is absent, a
placeholder or real (`Setup`). In `Allowlist` and `BanLifecycle` a TTL running
out is an event that may happen at any time, within the order the code
guarantees: an element never precedes the row it was written for, because
`ttlSeconds` rounds up. The modules that are about time (`EnforcerServer`,
`SshPeers`, `Detect`, `Ladder`, `AiLayer`, `Notify`, `Dashboard`, `Plugin`) have a clock
or ages.

**Granularity.** A step is what one goroutine does between two points where
another may run: a read or a transaction of the store, a section under one lock,
one system call, one HTTP exchange, one invocation of nft. Reads and writes in
one SQL transaction are one step; a read of the store followed by a write of a
slice is two. A critical section of `enforceMu` consists of several steps, with
`enforceMu` as a variable, because the goroutines that do not take it run in
between.

**Actions and code.** The actions carry the names of the functions they model,
with the step appended where a function is several (`SyncSnapshot`, `SyncGate`,
`SyncApply` are syncEnforcer; `CheckRead` to `CheckDelete` are checkArmWindow;
`AddStart` to `AddCache` are the verb add). A failure is an action or a disjunct
of its own. The modules extended by one suite prefix their names (`Ft`, `Cs`,
`Dt`, `Ai`, `Sp`, `Ev`, `Ls`, `Ez`, `Es`, `Fd`, `Nt`, `Db`, `Sm`, `Pl`, `Su`,
`Cd`, `Up`, `Ld`). In the core modules failures are admitted by the constant `Env`
(`store`, `enforcer`, `nft`, `file`, `crash`, `peers`, `flush`, `expiry`,
`allow_expiry`, `time`, `tick`, and `quiesce` and `calm` for the event after
which the environment sends nothing new); in the others the constants
`...MaxFaults` bound them.

**History variables.** Some variables stand for nothing in the code and record
what a property compares with: `ftOut`, `spOwed`, `lsTheirs`, `lsBlind`, `ntSaid`,
`ntCount`, `smSeen`, `dbGuesses`, `plStarts`, `suHad`, `upWaived`,
`ldLeaky`, `ldBlind`, `ldPasses`, `raced`. No guard of an action
reads them.

Where the modules meet: `BanLifecycle` sees the helper as a set that an RPC
changes or does not; `EnforcerServer` opens that RPC up. `BanLifecycle` sees the
peers as what the gate's caches report; `SshPeers` opens the caches up. It sees
Decide's strike as one commit that happens or not; `Ladder` opens the section
under the strike lock up, from the guard to the delivery of its alerts.
`Supervise` sees a source as up, down, denied or gone; `FileTail` opens one
source up. `BanLifecycle`'s LocalFlush is `disable --local-only`, which uses the
helper's own verb, so the cache follows and the next `list` shows it. A set
emptied behind the helper's back is only in `EnforcerServer` (ExternalFlush,
`DriftSpec`), because what `list` answers then is the point.

**Refinement.** `EdgeShare` is the contract of a list that several servers
share: an instance lists addresses nobody lists, never a protected one, takes
back only its own entries and leaves everybody else's alone. `EdgeLists` is
checked to implement it (`LsSharesList`, `Share == INSTANCE EdgeShare WITH
listed <- lsEdge, theirs <- lsTheirs, ...`) and proved to (section 5): the
abstract list is the one at Cloudflare, not the mirror, so every lost reply and
every stale mirror is a step the contract must allow.

## 3 Runs

| Run | Checks | Instance |
|---|---|---|
| `allow` | AllowTypeOK, StaticAlwaysAccepted, CopiesAgree | two connections and the sweep with failing store and helper and crashes, the operators allowing and revoking a prefix of two addresses and the policy's own entry |
| `ban_race` | TypeOK, FreshBanKept, AllowNeverReapplied | two deciding goroutines, an operator with every verb, probe, sweep, retry, TTL expiry, peers, helper failures |
| `ban_lift` | NoRevival | store failures and allow expiry |
| `ban_live` | Converges | helper failures, peers, local flushes, crashes, then quiescence |
| `watch` | FtInv, TailCatchesUp, CsInv, SuperviseLive, DtSafe, AiInv, AiEpisodes, SpSafe, SpResolved, ArmInv, Reverts, EvInv, EvWatchReturns | from a log line to a decision and to the operator's screen |
| `enforce` | CacheMatchesKernel, Backstop, LsInv, LsSharesList, EzInv, EsSafe, EdgesHeal, FdInv, FdConverges | where bans and feed entries take effect |
| `services` | NtSafe, DbSafe, SmInv, SiemCatchesUp, PlInv, PlNobodyHangs | what the daemon offers beside banning |
| `durable` | SuSafe, CdInv, UpSafe, LdSafe | what must come out right on disk: the installation, and the engine's record of strikes and bans |
| `ban_boot` | AllowNeverReapplied: **violated** | one decision, an allow, a restart |
| `ban_panic` | DisableAllClean: **violated** | one decision, disable_all |
| `ban_prefix` | PrefixBanPersists: **violated** | a prefix ban, a reconcile |
| `enf_drift` | Backstop under DriftSpec: **violated** | the helper without failures, and another user of nft |

**Suites.** The components of one suite share no state the properties look at, so
their product would only multiply states. A suite has a variable `focus` that
never changes: a behaviour moves one component and leaves the others in an
initial state of theirs. Every component is explored exactly as it would be
alone. A component's fairness is restricted to its focus and uses the
component's own variables as subscript. `ArmWindow`, `Ladder` and `EventStream`
use the same device for several instances of one module (`scene`, `ldScene`,
`evFace`).

**Composed properties.** Most properties of the suites are conjunctions of named
parts, each with its own comment where it is defined; a run that reports one
names the part or its line. What they say:

- **CopiesAgree** (ViewNeverLags, KernelMirrorExact). When no operation on the
  allowlist runs, the pipeline's slice and the gate's list are the table, and the
  kernel accepts the table and the policy, no more and no less, unless
  operations overlapped or calls failed: then the race of section 6 may have
  driven them apart, and the next revocation, expiry or restart that has the
  daemon to itself repairs every copy. An allow alone does not, since it pushes
  its own entry only.
- **StaticAlwaysAccepted.** Whatever interleaves, fails or restarts, no step
  takes a policy entry out of `@allowed`, not even the revocation of a runtime
  entry that equals it (issue #404).
- **FreshBanKept.** While a reconcile is between snapshot and write, an address
  that is in the kernel with a real row is in its desired state, deliberately
  left out, or about to be dispatched again. This is what `enforceMu` (issue
  #575) is for: the mutant that does not wait for it breaks it.
- **AllowNeverReapplied.** After `allow` has replied, no decision in flight, no
  deferred retry and no reconcile blocks a covered address. It holds while the
  daemon runs and fails across a restart (`ban_boot`).
- **NoRevival.** Only a dispatch in flight or a manual ban about to be recorded
  puts an address without a row into the kernel.
- **Converges.** Left alone, the kernel ends up blocking exactly the stored real
  bans nothing guards.
- **FtInv, TailCatchesUp.** No line is delivered twice or glued from two files;
  once rotations stop, the file at the path is read to its end, unless a rename
  and a create both fell between the collector's open and its watch.
- **CsInv, SuperviseLive.** No send on the closed channel, a graceful drain loses
  no line, status and notification agree; a readable source is read again, an
  unreadable one is reported (but for docker's filesystem fallback), a shutdown
  ends.
- **DtSafe.** A rule fires on evidence after the last strike only, and fires on
  all of it: sample cap, flush, prune, eviction of others and restarts hide
  nothing, within one bucket and one hour of slack.
- **AiInv, AiEpisodes.** Pending marks are exactly what is queued or in flight;
  verdicts name the analysed address; budget and sleeps are bounded; an address
  is analysed once per cooldown and every episode ends.
- **SpSafe, SpResolved.** Nobody with a session older than the caches' lifetimes
  is banned; a re-check looks at a newer list; refused bans are not lost and are
  settled once the events stop.
- **ArmInv, Reverts.** Between verbs, a restart would begin with what the daemon
  does now (one operator, no deadline running out); a passed deadline is acted
  upon even when policy.yaml cannot be written.
- **EvInv, EvWatchReturns.** A slow watcher misses only what its own full channel
  missed; the dashboard neither skips nor repeats a row while its queue holds; a
  watcher that got through once comes back.
- **CacheMatchesKernel, Backstop.** Between two verbs of the helper, cache and
  kernel agree on the permanent elements in both directions: one is what a
  reconcile needs to add, the other what it needs to remove. Once failures stop,
  the reconcile makes the set what the store says, whatever half-done
  replacement, absorption, flush or switch it finds.
- **LsInv, LsSharesList.** The mirror is what the instance owns at the edge unless
  it is marked stale or a reply was lost; the shared list is only touched as
  `EdgeShare` allows.
- **EzInv, EsSafe.** A zone that was pushed last without overlap blocks exactly
  what is wanted; AWS and Bunny lose no other writer's entry and list an address
  once, within their cap.
- **EdgesHeal** (LsMirrorHeals, EsConverges). A stale mirror is always rebuilt, and
  AWS and Bunny converge to the newest bans that fit.
- **FdInv, FdConverges.** A validator belongs to the set a 304 would hand out,
  flags are current, and the kernel's feed set ends up being the unguarded
  entries of the current files.
- **NtSafe.** Nothing is repeated in a dedup window, a closed window was told,
  DEGRADED is announced unless the channels failed or the reserve is used up,
  DEGRADED has a reason, folding keeps the counts.
- **DbSafe.** The session indexes agree and keep the cap; parallel guesses exceed
  the throttle by the requests in flight at most, and one account's by a second
  round of the throttle, for requests that outlast a lockout are lost to the clean
  slate behind it; the throttle's map is bounded; a reload applies to every request
  whose role is checked after it.
- **SmInv, SiemCatchesUp.** Every event is written, waiting or counted as dropped;
  order is kept; the tail skips no row; sinks that answer again get everything.
- **PlInv, PlNobodyHangs.** A caller gets the answer to its own request, starts
  are bounded per hour, one process runs, no caller waits for ever.
- **SuSafe, CdInv, UpSafe.** Interrupted anywhere and run again: secrets (but for
  a torn write of .env) and hand edits survive, done means complete; edge
  accounts stay distinct and proven; an update that reports success installed a
  verified pair.
- **LdSafe.** Two callers of Decide never give an address the same rung twice or
  skip one; no minute sees more than twice the cap of counted bans, manual ones
  included; a ban is called ineffective for events of its own only; a ban the
  ladder makes permanent after an ineffective one is announced; an observe-band
  event without an audit row is covered by one in its window.

**Bounds.** One or two addresses are enough because the goroutines interact
through a single address (row, element, strike lock) or through a prefix that
covers two; a second address matters only for overlap and for the panic button's
"every". Two deciding goroutines, one operator and the system's own goroutines
give every pair of actors the code has, and a third decision has nothing to race
that the second has not. `MaxAttempts` is 2 where the budget matters (one retry
and exhaustion), 1 in the runs about something else. TTLs of up to two ticks
distinguish fresh, nearly over, over and permanent. In the core runs nothing
else is bounded: operators, ticks, retries, failures and crashes may occur any
number of times.

In the suites every bound is a named constant. Queues, channels, caps and budgets
have room for one to three, so that full, nearly full and evicting all happen
(`AiCap`, `SpMaxPending`, `EvBuf`, `EvLimit`, `DtMaxSamp`, `DtMaxIPs`, `EsCap`,
`SmQueue`, `PlQueue`, `DbCap`, `CsMidCap`). Inputs are bounded by what it takes to
fill them and go on (`FtMaxWrites` 4: two lines in each of two files;
`DtMaxEvents` 3: a threshold and one more; `LsMaxChanges`, `EzMaxChanges` 2: a
ban and its unban while a push is on its way; `SmMaxRows` 3; `DbMaxTries` 4 to 6: two
more than the global maximum for the throttle's map, and for one account two rounds
of guesses and those in flight, with `DbGlobalMax` 4 so that the global limit does
not hide the account's). Clocks run past one window and into the next
(`DtMaxTime`, `NtMaxTime`, `DbMaxTime`, `PlMaxTime`). Faults are one or two per
behaviour: one to cause the state, one to hit its repair. Two runs of an
installer (`SuMaxRuns`, `CdMaxRuns`, `UpMaxRuns`) are one that fails and one that
finds what it left. `Ladder` has four scenes: one address through the whole
ladder with two callers and a fault; one address with the operator's verbs and a
cap of two; two addresses with one edge; two addresses under a cap of one.
`LdMaxStrikes` 3 goes one past the two rungs, `LdMaxCount` 3 one past the
thresholds of two.

`ban_race` uses symmetry over the two deciding goroutines, which no definition
tells apart; the runs with liveness properties use none.

**Deadlock** is checked in `allow` and the `ban_*` and `enf_drift` runs: those
systems always have a next step. The suites bound inputs, so their behaviours
may end; there it is off.

**Mutants.** Every property of a passing run has a mutant in the module it is
about, named after the definition it replaces (`AcquireNoWait`,
`FtIsRotationAny`, `LsOwnsAll`, ...). Each is a plausible slip in the code,
several of them the code before one of its fixed issues (#37, #383, #404, #575,
#608), and TLC refutes the property when it takes the definition's place.

## 4 Fairness

- *Goroutines and tickers.* A goroutine that can go on goes on, and a ticker
  ticks: weak fairness of its steps. The probe, the sweeps, runArmWindow, the
  retry, the AI worker, the re-checker, the SIEM tail and workers, the feed
  loops, the plugin supervisor and the tailer are loops that end only with the
  process.
- *Locks.* A Go mutex hands itself over to a waiter it has starved for a
  millisecond. A goroutine that waits for `enforceMu`, `mutateMu` or `pushMu`
  again and again while others take it therefore gets it: strong fairness for
  the steps that begin with Lock (`Fairness` in `BanLifecycle`, SyncStep in
  `EnforcerServer`, LsFlush in `EdgeLists`).
- *Time* passes where a step waits for it (SpTick, PlTick, Tick).
- *The other end* answers only where the code bounds the wait: a plugin's reply
  or its timeout (PlReply includes it), an HTTP call or its failure. The daemon
  that a watch client reconnects to is restarted (EvRestart), by systemd.
- *Nothing else is fair.* Operators, detections, failures, crashes, rotations and
  flushes may happen forever or never, within the bounds. Converges and Backstop
  speak of what holds after the environment has quiesced, if it does; Reverts
  holds while the operators go on. It is checked in
  the scene without crashes: a daemon that is killed before each check finishes
  reverts nothing.

## 5 Proofs

TLAPS checks the proofs for every value of the constants: any number of
addresses, prefixes, connections, goroutines, collectors, feeds and requests,
any capacity, budget, threshold and window, and any bound of section 3. So the
theorems say that nothing in these properties depends on how small the runs'
instances are.

| Theorem | States | Of the runs' properties |
|---|---|---|
| `Allowlist_proofs!AllowTypeCorrect` | AllowSpec => []AllowTypeOK | AllowTypeOK |
| `Allowlist_proofs!StaticSupremacy` | AllowSpec => []StaticAlwaysAccepted | StaticAlwaysAccepted |
| `Allowlist_proofs!RepairInvariant`, `CopiesRepaired` | RepairSpec => []CopiesAgree | CopiesAgree |
| `BanLifecycle_proofs!TypeCorrect` | Spec => []TypeOK | TypeOK |
| `BanLifecycle_proofs!ReconcileKeepsFreshBans` | Spec => []FreshBanKept | FreshBanKept |
| `BanLifecycle_proofs!LiftedStaysLifted` | "expiry" \notin Env => (Spec => NoRevival) | NoRevival |
| `BanLifecycle_proofs!AllowedStaysUnblocked` | OneOperator(c) => (Spec => AllowNeverReapplied) | AllowNeverReapplied |
| `EnforcerServer_proofs!EnforcerInvariant`, `HelperAgrees` | Spec => []CacheMatchesKernel | CacheMatchesKernel |
| `EdgeLists_proofs!LsInvariant`, `LsMirrorIsExact` | LsSpec => []LsInv | LsInv |
| `EdgeLists_proofs!LsImplementsShare` | LsSpec => LsSharesList (the refinement of `EdgeShare`) | LsSharesList |
| `EdgeLists_proofs!EzInvariant`, `EzZonesAreExact` | EzSpec => []EzInv | EzInv |
| `EdgeLists_proofs!EsInvariant`, `EsEdgesAreShared` | EsSpec => EsSafe | EsSafe |
| `EdgeLists_proofs!CdInvariant`, `CdKeepsApart` | CdSpec => []CdInv | CdInv |
| `Watch_proofs!AiInvariant`, `AiLayerIsSound` | AiSpec => []AiInv | AiInv |
| `Watch_proofs!AiAnalysesAreApart` | AiSpec => AiCooldownHolds | a part of AiEpisodes |
| `Watch_proofs!ArmInvariant`, `ArmFileMatches` | Spec => []ArmInv | ArmInv |
| `Watch_proofs!EvInvariant`, `EvStreamsAreExact` | EvSpec => []EvInv | EvInv |
| `Watch_proofs!CsInvariant`, `CsCollectorsAreAccounted` | CsSpec => []CsInv | CsInv |
| `Watch_proofs!SpInvariant`, `SshGateIsSafe` | SpSpec => SpSafe | SpSafe |
| `Watch_proofs!FtInvariant`, `FtDeliversOnce` | FtSpec => []FtInv | FtInv |
| `Ladder_proofs!LdInvariant`, `LdEngineIsSafe` | LdMinIn # 1 => (LdSpec => LdSafe) | LdSafe |
| `Ladder_proofs!UpInvariant`, `UpdateIsSafe` | UpSpec => UpSafe | UpSafe |
| `Ladder_proofs!SuInvariant`, `SetupIsSafe` | SuSpec => SuSafe | SuSafe |
| `Services_proofs!FdInvariant`, `FdFeedsAreSound` | FdSpec => []FdInv | FdInv |
| `Services_proofs!PlInvariant`, `PlPluginsAreTame` | PlSpec => []PlInv | PlInv |
| `Services_proofs!SmInvariant`, `SmForwards` | SmSpec => []SmInv | SmInv |
| `Services_proofs!NtInvariant`, `NotifyIsSafe` | NtSpec => NtSafe | NtSafe |
| `Dashboard_proofs!DbInvariant`, `DashboardIsSafe` | DbLockout = DbWindow => (DbSpec => DbSafe) | DbSafe |

So every safety property that a passing run checks is a theorem, but for DtSafe.

**Assumptions** are the named ASSUMEs of the modules; TLC evaluates them in
every run. They say what the configuration's validation and the code's constants
give: sets of addresses are disjoint from the names of goroutines, prefixes are
non-empty, capacities and budgets are positive, a burst fits a page
(`EvConstants`), a back-off is shorter than the cooldown (`AiAssumption`), a
feed's file lists entries of the instance. Four theorems need more and say so:

- *LiftedStaysLifted* has no TTL running out, as NoRevival says of itself: a ban
  whose time runs out while a reconcile or a retry already has it in hand is
  applied once more, which is no revival of a lifted one. `ban_lift` has no TTL
  running out either.
- *AllowedStaysUnblocked* has one operator command at a time, a store that can be
  read, no runtime entry that elapses and no restart (`OneOperator`); goroutines
  that decide, reconciles, retries, TTLs, the peers, helper failures and local
  flushes are any. With a restart the property is false (`ban_boot`); so it is
  with two commands at once, an `allow` and an `unallow` of the same entry, or
  with a failing store, under which the gate may lag behind the table (section 6).
- *DashboardIsSafe* needs a lockout as long as the window, as `throttle.go:28-29`
  has it. With a longer one the locked entries outlive the stamps of the global
  list that paid for them, and the throttle's map may grow beyond its bound
  (DbThrottleBounded). The other parts of DbSafe do not use the hypothesis.
- *LdEngineIsSafe* needs `ban_ineffective_min_events_in_grace` other than 1. With
  1, which `config/policy.go:127` accepts, the first event that a manual ban
  suppresses marks the ban ineffective before BumpLastSeen has created the
  offender row. MarkBanIneffective updates no row, and the promotion to permanent
  that follows is silent: LdPermanentLoud fails. The attempt to prove it without
  the hypothesis showed this, and TLC confirms it with `LdMinIn = 1`.

**Inductive invariants.** No property above but the type invariants of the core is
inductive. What each had to be strengthened with, and why:

- *Allowlist.* A re-sync deletes what it listed and does not want, so the
  invariant says what it wants: `HandsOK`, a goroutine between resync_list and
  resync_push holds a list with the static entries in it, and one about to push
  serves an `allow` of a prefix. For CopiesAgree, `Trail` says what an operation
  has made agree by the time it is at a step, and `OneAtWork` that without
  overlap there is one operation to ask. Only an `allow` builds on the state it
  found, which is why its trail has a line about the kernel and the others' have
  none.
- *BanLifecycle.* `BanInv == TypeInv /\ MutexOK /\ FreshBanKept`. `TypeInv` adds
  what the goroutines hold between their steps: a strike about to be committed
  names a single address and a row value, a ban about to be applied is a real
  one. `MutexOK` says that a goroutine inside a critical section holds
  `enforceMu`, so no other writer of the kernel is between a reconcile's snapshot
  and its write. FreshBanKept then has one idea per kind of step: a step that
  takes or holds the mutex as someone else leaves no reconcile in the middle
  (`FreshIdle`); a step that adds neither an element nor a real row and takes
  back no dispatch preserves it (`FreshFrame`); a strike's commit adds a row
  outside the mutex, but with it a pending dispatch; SyncGate moves addresses
  from wanted to left out. NoRevival adds that the desired state of a reconcile
  and the ban of a retry are backed by rows. AllowNeverReapplied adds `ShieldOK`: an
  entry an `allow` has settled is on the runtime list (`EntryOK`), and whoever is
  past the gate with a covered address was admitted before it and meets its lift
  (`GuardOK`).
- *EnforcerServer.* Cache and kernel agree outside the element the verb in
  progress names, about which each label says something (`AddHands`,
  `AddedHands`, `GoneHands`); the verb holds `mutateMu` (`LockOK`). Agreement on
  permanent elements alone does not survive: an addition takes an element the
  cache does not know for one the kernel does not hold, so a live element of the
  kernel must be in the cache, and for no less time.
- *EdgeLists.* Between the batches of a push the edge is the mirror plus what was
  added or minus what was deleted (`LsSoFar`); rows are never protected
  (`LsRowsOK`), others' items never ours (`LsTheirsOK`), an absent list empty
  (`LsListOK`). The refinement is a step simulation from the same invariant.
- *EdgeZones.* `EzIndInv`: a zone is at rest and the IDs mirror its rules
  (`EzRestOK`), or one push is under way and the zone lies between the two
  blocklists, rule by rule (`EzPushOK`). Overlapping pushes and lost replies are
  exempt until the next quiet push has repaired the zone. That the expressions
  together cover the set (`EzChunksCover`) is arithmetic on an address' position.
- *EdgeSets.* A call under way has room for its address, and what a reconcile has
  filled and what it has left are apart (`EsCachesOK`); a lock token still good
  stands for the content that was read (`EsEdgesOK`).
- *EdgeSetup.* The accounts a run has gathered differ from one another and from the
  old ones that stay (`CdKept`), the one in hand is named, proven and tokened as
  far as its step says (`CdHand`), a provider that was attempted is enabled, told
  of or still in its subflow (`CdTrack`). The merge is a recursion over the
  accounts.
- *AiLayer.* When the budget was read and what has been used since
  (`AiFundsOK`); the cache holds no clamped verdict (`AiCacheOK`); the age of an
  answer and its mark add up to the cooldown (`AiMarksOK`).
- *ArmWindow.* policy.yaml runs ahead of the flag exactly while the connection is
  between its two writes, and holds what it is about to set (`ArmAhead`).
- *EventStream.* What the poll has fetched and not handed out (`EvCovered`), and
  that no queue holds a row the bus has not counted (`EvTabOK`).
- *Supervise.* CsDrainComplete counts lines over all collectors. Their sum is the
  cardinality of the set of slots taken in the mids (`CsWaiting`), which a send
  changes by one element; `CsAccountOK` is the balance, `CsChannelsOK` says who
  may still hold lines. One story per outage needs that DEGRADED is the streak at
  its threshold (`CsStoryOK`).
- *Ladder.* The strike lock (`LdLockOK`), the ages of the counted bans
  (`LdWindowOK`), the count of suppressed events that tells a replaced row from
  the one the guard read (`LdDiagOK`), the offender row behind a ban that counts
  events (`LdLoudOK`), the audit row behind an edge in memory (`LdEdgesOK`).
- *SshPeers.* The cached list is a look at the peers as old as it says
  (`SpCachesOK`); a queued address' due time and the age of its refusal add up to
  the delay, so its re-check looks at a younger list (`SpDelayOK`).
- *FileTail.* The files hold writes in order and the newest inode the newest ones
  (`FtFilesOK`); what the collector reads next continues the partial line in its
  hands and is newer than all it has delivered (`FtReadingOK`).
- *Update.* What a run knows of its release at each step: version, agreement of the
  checksums, current binaries, the temporary files (`UpRunOK`).
- *Setup.* What a command has left on disk by the time it is at a step
  (`SuDiskOK`), and what .env will hold once the write in progress is through
  (`SuLinesOK`, `SuHeldOK`): a secret is in the file or still to come.
- *Feeds.* What a refresh carries between its steps is the file of its tag and has
  passed the guardrails (`FdJobsOK`); only observing feeds flag (`FdFlagsOK`).
- *Plugin.* A line with the id of the round trip is its caller's (`PlLinesOK`); at
  most one process runs, the latest (`PlProcOK`), every recent start is counted
  as a failure or is the running process (`PlCountOK`), and ids only
  grow (`PlTripOK`).

- *Siem.* The rows the tail has in hand (`SmTailOK`), the sinks it has come to with
  the first of them (`SmSeenOK`), and that what a sink was given lies in its
  output, its worker's hands and its queue, in this order, but for what its drops
  count (`SmSinksOK`).
- *Notify.* A claim under way is the stamp of its key or a whole window older
  (`NtClaimOK`), which is why a release does not reopen a window; the alert that is
  owed was told, is being sent, is still in a list or cannot be told (`NtOwedOK`);
  a critical has passed a channel only by being taken, by a failure or by the
  quota (`NtReachedOK`).
- *Dashboard.* A tally of failures is compared with the history of guesses: at most
  `DbQuota` of an account's guesses lie in the window, two rounds of the throttle
  and one for every request but those about to check a password. The map's names are paid for by the stamps of the global list
  (`DbMemory`). The two session indexes (`DbSessionsOK`) and the role each request
  was admitted with (`DbReqsOK`) are induction on steps alone.

Allowing a sign-in only on a fresh look at the throttle makes the first bound on
guesses one is tempted to write, one round and the requests in flight, false:
a request that was let in before the lockout and answered after it is over
records into the clean slate. The attempt to prove that bound showed it, and TLC
confirms it once a scene has six sign-ins; `DbGuessBound` states the bound that
holds, which is tight.

**Recursion.** The models write recursion as recursive functions
(`FileTail`, `EdgeSetup`) or with `Cardinality` of a set of positions
(`DbTrim`). What such a function returns is proved without an induction theorem,
by the least counterexample: `LeastNatural`, every non-empty set of naturals has a
least element, gives the first position at which a claim fails, and the step that
leads there refutes it.

A proof has one lemma per group of actions or per conjunct, with one step per
action, and a last lemma or theorem that combines them.

**Only model-checked.**

- Liveness, which is out of the prover's reach: Converges, Reverts, Backstop,
  TailCatchesUp, SuperviseLive, SpResolved, EvWatchReturns, EdgesHeal,
  FdConverges, SiemCatchesUp, PlNobodyHangs, and the liveness half of AiEpisodes.
- DtSafe. `Detect` counts with folds over sequences and sets and filters with
  SelectSeq, library operators that are defined by recursion; what they return for
  every input is an induction over data.

## 6 Disagreements and races

Runs that end in a violation, each with the line it contradicts in
PROJECT.json:

1. `ban_boot`. Run reconciles before it restores the runtime allowlist, so a row
   that raced an allow is enforced by the startup reconcile, against the comment
   in syncEnforcer and docs/content/en/security/overview.md. Later reconciles remove it.
2. `ban_panic`. A decision that read "armed" before `disable --all` disarmed
   commits after the clear, and the verb's own reconcile enforces it before the
   verb replies OK.
3. `ban_prefix`. A permanent ban of a prefix has no row, and the next reconcile
   deletes its element as stale.
4. `enf_drift`. `list` answers from the helper's cache, so a set emptied by
   another program is not repaired by the periodic reconcile but only by a
   restart of the helper.

What the models reach and no run is kept for. A property above that would
exclude one of these says where it stops.

*Daemon and helper*

- Two reloads of the allowlist that overlap install their snapshots in the
  opposite order of their reads; the slice and the gate lag behind the table
  until the next change (`daemon.go:1572`, ViewNeverLags without CopiesAgree's
  hypothesis).
- `checkArmWindow` deletes by key a window it judged stale; a disarm and an
  `arm --for` in between lose the new window (`arm.go:336`). A crash between
  policy.yaml and the window has the same effect (`arm.go:99`). So has the
  double failure of the window's write and of the revert.
- `arm --keep` racing the revert replies OK although the revert is under way
  (`arm.go:327`); `arm` and `disarm` at the same time can leave policy.yaml and
  the flag different (`arm.go:172`), as can the revert and an arm.
- A reconcile between a strike's commit and its dispatch applies the ban
  itself and audits the repair as drift, although nobody touched the set
  (`nftables.go:276`).
- A strike that read its guard before an operator's permanent ban overwrites
  the row with its own TTL (`store.go:240`).
- The helper's rollback restores an element whose time is up for one more
  second, but the cache keeps the old deadline. If `list` prunes that entry and
  the element is added again within the second, the addition skips the delete,
  nft keeps the one-second timer, and the cache claims the new deadline
  (`server.go:389`). `revived` marks these behaviours in `EnforcerServer`.
- `disable --local-only` names no table. With a configured table it is refused,
  or, as the first request after the helper's start, it pins the default table
  and the daemon's requests are refused until a restart (`server.go:531`).

*Detection*

- A rename and a create that both fall between the tail's open and its watch are
  seen by neither: the tail stays on the old file (`filetail.go:34`). Lines a
  logger still appends to the renamed file after the switch are not read.
- A crash between Decide's strike and the counters' watermark, or a failed read
  of the watermark, counts the same evidence for the next strike too.
- The docker source's filesystem fallback retries without ever counting as
  failed, so no alert names it.
- An AI call that fails arms the address's cooldown as one that answers does.
- `subscribe` acknowledges before it registers (`socket.go:363`): an event in
  between is missed by a client that already has its answer. A page of the
  dashboard has the same gap between its load and its websocket.

- The window of `max_bans_per_minute` is fixed: one full at its end and the next
  full at its start let twice the cap through within a minute
  (`engine.go:555`), where the policy reference speaks of a "Global cap on ban
  actions per minute"; LdPaceHolds states that bound and no lower one.
- An operator's re-ban between RecordSuppressed and MarkBanIneffective has the
  fresh ban marked for the events of the old one (`engine.go:633`); LdAlarmsTrue
  compares the counters to exempt it.
- MarkBanIneffective updates an offender row that a manual ban does not create.
  If BumpLastSeen failed before, or the in-grace threshold is 1, the mark is lost
  and the later promotion to permanent is silent; so it is when the read of the
  mark fails, or when the daemon dies between RecordStrike and the delivery
  (`ldBlind`). A RecordStrike that fails still delivers the alert.

*Edge, feeds and SIEM*

- A lost reply to a creation or deletion leaves the edge ahead of the mirror: the
  list enforcer cannot tell its own unconfirmed entry until it rebuilds, and two
  overlapping pushes of zone rules can leave two rules where cloudflare.go speaks
  of one. The last quiet push repairs both.
- A feed body that is cut but parses replaces the last good set until the next
  fetch. Two observe feeds that list one address share its flag.
- A disarm between a feed round's armed check and its SyncFeeds leaves that round
  applied until the next one.
- The SIEM tail takes its cursor when it starts: rows audited before are skipped
  by it, and when that read fails, history is replayed. Run does not wait for the
  tail when it stops (`run.go:412`).

*Notifications, plugins, installation*

- A send that waits behind an identical one in flight counts as a duplicate; when
  the one in flight fails, both are gone until somebody sends again. A channel
  that delivered and then reported an error delivers twice.
- Arming while enforcement is already DEGRADED sends no new critical.
- A sign-in that is let in before a lockout and fails after it is over counts
  towards the clean slate behind it, so an account may see one more round of
  guesses in a window than the throttle's limit (`throttle.go:90`).
- The plugin supervisor's restart count is never reset after a long healthy run,
  only the hourly window forgets. At this commit `NewRuntime` has no caller
  outside the tests, nor has the dashboard's `ReloadUsers`.
- An interrupted second rename of an update leaves the pair mixed; a plain re-run
  compares the version of the first binary only and reports that it is up to
  date (`update.go:202`).
- `.env` is rewritten in place by one of its writers (`init_ai.go:142`); SuSafe
  exempts a torn write there. `commitTwoFilesAtomic` renames twice, so an
  interruption leaves the new config beside the old policy.
- The CDN step warns of a detected provider without an enforcer only if neither
  Cloudflare nor Bunny was configured; one of the two configured silences it for
  the other.

## 7 What is not modelled

- *Parsers, rendering, prompts, wire formats, SQL*: functions of their input or
  I/O. `PROJECT.json` has every component with its reason.
- *Retention, digests, reports, enrichment, migration, scan, benchmarks, metrics*:
  one actor, or read-only.
- *Evidence, exec and webshell watchers*: they report and change nothing.
- *The configuration schema*: validation of values. What writes the files is in
  `Setup`, `EdgeSetup` and `ArmWindow`.
- *A failing read in checkArmWindow or handleArmKeep*: no step, since the
  function returns.
- *Argument errors, the pre-flight of arm*: no
  state changes.
- *Auto-merge migration* in the helper's Init: it rewrites the set with the same
  elements. *netcheck* and *socket teardown* (`ss -K`): best effort, no state.
- *The cap MaxFeedElements*, which refuses a set as a whole.
- *Manifest validation of plugins* and the signature algorithms of the updater:
  their verdict is an input.

## 8 Plan

Done: the core and its first theorems; the queues, caches and sources on the way
to a decision; helper, edges and feeds on the way out; notifications, streams,
SIEM, dashboard and plugins; the installation; the decision engine's ladder; the
refinement of the shared list; theorems for every component whose safety a
passing run checks, but the detection counters.

Left, in order:

1. **Theorems.** DtSafe, which needs the counters restated with cardinalities of
   sets of samples in place of folds.
2. **Abstract specifications.** `BlockedSet`, a set that changes by ban, unban and
   expiry, implemented by `EnforcerServer` between verbs; a `Firewall` that
   blocks what the store says, implemented by `BanLifecycle`.
3. **Retention** beside the readers whose rows it deletes (SIEM tail, dashboard
   poll).

----------------------------- MODULE Allowlist -----------------------------
(***************************************************************************)
(* The runtime allowlist of the EzyShield daemon and its four copies:      *)
(*   allowTable        the `allowlist` table of the store                  *)
(*   runtimeAllowlist  Daemon.runtimeAllowlist, read by the pipeline       *)
(*   extra             Gate.extra, read by the enforcement gate            *)
(*   allowedSet        the nftables @allowed set, accepted before any drop *)
(* Every socket connection is served by a goroutine of its own and the     *)
(* expiry sweep by another one; reloadAllowlist takes no lock around its   *)
(* three steps, so their reloads interleave freely.                        *)
(*                                                                         *)
(* An address is a model value and a prefix is the set of addresses it     *)
(* covers, so Contains is \in and Overlaps is a non-empty intersection.    *)
(* The module is a specification of its own and the allowlist part of      *)
(* BanLifecycle, which extends it.                                         *)
(***************************************************************************)
EXTENDS Naturals, FiniteSets

CONSTANTS
    Address,      \* the addresses (netip.Addr) of the instance
    Prefix,       \* the prefixes an operator may name, as sets of addresses
    StaticAllow,  \* Policy.Allowlist and Policy.AdminCIDRs
    AllowTarget,  \* the prefixes an operator allows and revokes
    Conn,         \* goroutines serving a control-socket connection
    Goroutine,    \* every goroutine of the instance
    Env           \* the environment events the instance admits

ASSUME AllowlistAssumption ==
    /\ Prefix \subseteq (SUBSET Address) \ {{}}
    /\ StaticAllow \subseteq Prefix
    /\ AllowTarget \subseteq Prefix
    /\ Conn \cup {"boot", "expireAllows"} \subseteq Goroutine
    /\ {"boot", "expireAllows"} \cap Conn = {}

VARIABLES
    allowTable, runtimeAllowlist, extra, allowedSet,
    pc,     \* the program counter of every goroutine
    op,     \* the verb a goroutine is serving
    arg,    \* the prefix named by that verb
    snap,   \* the prefixes a goroutine has read and not yet written
    listed  \* the kernel's @allowed set as a re-sync has listed it

allowVars == <<allowTable, runtimeAllowlist, extra, allowedSet>>
localVars == <<op, arg, snap, listed>>
procVars  == <<pc, localVars>>
aVars     == <<allowVars, procVars>>

Covers(prefixes, a)    == \E x \in prefixes : a \in x
Overlaps(prefixes, t)  == \E x \in prefixes : x \cap t # {}

Goto(p, l) == pc' = [pc EXCEPT ![p] = l]

\* The goroutine has finished its operation and keeps nothing of it.
Finish(p) ==
    /\ Goto(p, "idle")
    /\ op'   = [op EXCEPT ![p] = "none"]
    /\ arg'  = [arg EXCEPT ![p] = {}]
    /\ snap' = [snap EXCEPT ![p] = {}]
    /\ listed' = [listed EXCEPT ![p] = {}]

\* A call to the privileged helper may fail.
EnforcerFails == "enforcer" \in Env

\* The daemon serves requests once Run has finished its startup sequence.
Up == pc["boot"] = "idle"
-----------------------------------------------------------------------------
(* The reload, common to allow, unallow, the sweep and startup. *)

\* First step of reloadAllowlist: the store is read.
ReloadList(p) ==
    /\ pc[p] = "reload_list"
    /\ snap' = [snap EXCEPT ![p] = allowTable]
    /\ Goto(p, "reload_mem")
    /\ UNCHANGED <<allowVars, op, arg, listed>>

\* Second step: the slice is replaced under Daemon.mu.
ReloadMem(p) ==
    /\ pc[p] = "reload_mem"
    /\ runtimeAllowlist' = snap[p]
    /\ Goto(p, "reload_gate")
    /\ UNCHANGED <<allowTable, extra, allowedSet, localVars>>

\* Mutant of AfterReload: unallow ends like allow, with a targeted push
\* instead of the re-sync of issue #404.
AfterReloadNoResync(p) == IF op[p] \in {"allow", "unallow"} THEN "lift" ELSE "resync_read"

\* Where the caller of reloadAllowlist continues.
AfterReload(p) == IF op[p] = "allow" THEN "lift" ELSE "resync_read"

\* Mutant of ReloadGate: the gate is not told (the code before issue #608).
ReloadGateSkipped(p) ==
    /\ pc[p] = "reload_gate"
    /\ Goto(p, AfterReload(p))
    /\ UNCHANGED <<allowVars, localVars>>

\* Third step: Gate.SetExtraAllowlist, after Daemon.mu was released.
ReloadGate(p) ==
    /\ pc[p] = "reload_gate"
    /\ extra' = snap[p]
    /\ Goto(p, AfterReload(p))
    /\ UNCHANGED <<allowTable, runtimeAllowlist, allowedSet, localVars>>

\* ListAllow fails: the caller logs it and goes on with the view it had.
ReloadFail(p) ==
    /\ "store" \in Env
    /\ pc[p] = "reload_list"
    /\ Goto(p, AfterReload(p))
    /\ UNCHANGED <<allowVars, localVars>>
-----------------------------------------------------------------------------
(* syncEnforcerAllowlist *)

\* Mutant of ResyncRead: the runtime entries alone are the desired list, not
\* their union with the policy's own (issue #37).
ResyncReadRuntimeOnly(p) ==
    /\ pc[p] = "resync_read"
    /\ snap' = [snap EXCEPT ![p] = runtimeAllowlist]
    /\ Goto(p, "resync_list")
    /\ UNCHANGED <<allowVars, op, arg, listed>>

\* The runtime slice is copied under Daemon.mu and united with the static
\* entries of the policy.
ResyncRead(p) ==
    /\ pc[p] = "resync_read"
    /\ snap' = [snap EXCEPT ![p] = StaticAllow \cup runtimeAllowlist]
    /\ Goto(p, "resync_list")
    /\ UNCHANGED <<allowVars, op, arg, listed>>

\* SyncAllowlist first lists @allowed.
ResyncList(p) ==
    /\ pc[p] = "resync_list"
    /\ listed' = [listed EXCEPT ![p] = allowedSet]
    /\ Goto(p, "resync_push")
    /\ UNCHANGED <<allowVars, op, arg, snap>>

\* Then it adds what was missing and deletes what was stale. An RPC that
\* fails ends it after some of the additions, or all of them and some of the
\* removals; the caller logs that and goes on.
ResyncPush(p) ==
    /\ pc[p] = "resync_push"
    /\ LET add == snap[p] \ listed[p]
           del == listed[p] \ snap[p]
       IN  \E A \in SUBSET add, D \in SUBSET del :
              /\ D # {} => A = add
              /\ A # add \/ D # del => EnforcerFails
              /\ allowedSet' = (allowedSet \cup A) \ D
    /\ Finish(p)
    /\ UNCHANGED <<allowTable, runtimeAllowlist, extra>>
-----------------------------------------------------------------------------
(* The verbs. *)

\* handleAllow up to reloadAllowlist: AddAllow upserts the entry.
AllowRequest(c, x) ==
    /\ pc[c] = "idle" /\ Up
    /\ allowTable' = allowTable \cup {x}
    /\ op'  = [op EXCEPT ![c] = "allow"]
    /\ arg' = [arg EXCEPT ![c] = x]
    /\ Goto(c, "reload_list")
    /\ UNCHANGED <<runtimeAllowlist, extra, allowedSet, snap, listed>>

\* Mutant of AllowPush: the addresses of the prefix are pushed, not the prefix.
AllowPushAddresses(c) ==
    /\ pc[c] = "push"
    /\ allowedSet' = allowedSet \cup arg[c]
    /\ Finish(c)
    /\ UNCHANGED <<allowTable, runtimeAllowlist, extra>>

\* The end of handleAllow, after liftBansCoveredBy: the entry is pushed to
\* the @allowed set; a failure is only logged.
AllowPush(c) ==
    /\ pc[c] = "push"
    /\ \/ allowedSet' = allowedSet \cup {arg[c]}
       \/ EnforcerFails /\ allowedSet' = allowedSet
    /\ Finish(c)
    /\ UNCHANGED <<allowTable, runtimeAllowlist, extra>>

\* handleUnallow: an entry that is not in the table is an error reply.
UnallowRequest(c, x) ==
    /\ pc[c] = "idle" /\ Up
    /\ x \in allowTable
    /\ allowTable' = allowTable \ {x}
    /\ op'  = [op EXCEPT ![c] = "unallow"]
    /\ arg' = [arg EXCEPT ![c] = x]
    /\ Goto(c, "reload_list")
    /\ UNCHANGED <<runtimeAllowlist, extra, allowedSet, snap, listed>>

\* One tick of runExpireAllows that finds the entries S elapsed.
ExpireAllows(S) ==
    /\ "allow_expiry" \in Env
    /\ pc["expireAllows"] = "idle" /\ Up
    /\ S # {} /\ S \subseteq allowTable
    /\ allowTable' = allowTable \ S
    /\ op' = [op EXCEPT !["expireAllows"] = "expire"]
    /\ Goto("expireAllows", "reload_list")
    /\ UNCHANGED <<runtimeAllowlist, extra, allowedSet, arg, snap, listed>>

\* What a restart of the daemon loses and where Run resumes: the store and
\* the kernel sets survive, the two in-memory copies do not.
Restart(bootLabel) ==
    /\ "crash" \in Env
    /\ runtimeAllowlist' = {}
    /\ extra' = {}
    /\ pc'   = [p \in Goroutine |-> IF p = "boot" THEN bootLabel ELSE "idle"]
    /\ op'   = [p \in Goroutine |-> "none"]
    /\ arg'  = [p \in Goroutine |-> {}]
    /\ snap' = [p \in Goroutine |-> {}]
    /\ listed' = [p \in Goroutine |-> {}]
    /\ UNCHANGED <<allowTable, allowedSet>>
-----------------------------------------------------------------------------
AllowInit ==
    /\ allowTable = {}
    /\ runtimeAllowlist = {}
    /\ extra = {}
    /\ allowedSet = StaticAllow
    /\ pc   = [p \in Goroutine |-> "idle"]
    /\ op   = [p \in Goroutine |-> "none"]
    /\ arg  = [p \in Goroutine |-> {}]
    /\ snap = [p \in Goroutine |-> {}]
    /\ listed = [p \in Goroutine |-> {}]

\* In this module liftBansCoveredBy only passes the control on: it touches
\* bans, never the allowlist.
PassLift(c) ==
    /\ pc[c] = "lift"
    /\ Goto(c, "push")
    /\ UNCHANGED <<allowVars, localVars>>

AllowProc == Conn \cup {"boot", "expireAllows"}

\* The steps of allowlist operations that BanLifecycle shares.
AllowStep ==
    \/ \E p \in AllowProc :
          \/ ReloadList(p) \/ ReloadMem(p) \/ ReloadGate(p)
          \/ ReloadFail(p) \/ ResyncRead(p) \/ ResyncList(p) \/ ResyncPush(p)
    \/ \E c \in Conn : AllowPush(c)

AllowNext ==
    \/ AllowStep
    \/ \E c \in Conn : PassLift(c)
    \/ \E c \in Conn, x \in AllowTarget : AllowRequest(c, x) \/ UnallowRequest(c, x)
    \/ \E S \in SUBSET AllowTarget : ExpireAllows(S)
    \/ Restart("reload_list")

AllowSpec == AllowInit /\ [][AllowNext]_aVars
-----------------------------------------------------------------------------
AllowLabel == {"idle", "reload_list", "reload_mem", "reload_gate",
               "resync_read", "resync_list", "resync_push", "lift", "push"}

\* Every copy of the allowlist holds prefixes and every goroutine is at a
\* step of one of the operations above.
AllowTypeOK ==
    /\ allowTable \subseteq Prefix
    /\ runtimeAllowlist \subseteq Prefix
    /\ extra \subseteq Prefix
    /\ allowedSet \subseteq Prefix
    /\ pc \in [Goroutine -> AllowLabel]
    /\ op \in [Goroutine -> {"none", "allow", "unallow", "expire"}]
    /\ arg \in [Goroutine -> Prefix \cup {{}}]
    /\ snap \in [Goroutine -> SUBSET Prefix]
    /\ listed \in [Goroutine -> SUBSET Prefix]

AllowQuiet == \A p \in AllowProc : pc[p] = "idle"

\* daemon.go, reloadAllowlist: "Called at startup and after expiry sweeps so
\* the in-memory view never lags behind the persisted state". Whenever no
\* operation on the allowlist is running, the pipeline's slice and the
\* gate's list are the table.
ViewNeverLags == AllowQuiet => runtimeAllowlist = allowTable /\ extra = allowTable

\* handleAllow and handleUnallow: whenever no operation is running, the
\* kernel accepts exactly what the policy and the table require, so neither
\* is an allowed address droppable nor a revoked one still accepted.
KernelMirrorExact == AllowQuiet => allowedSet = StaticAllow \cup allowTable

\* Hard Rule 1 and issue #404: whatever the operators, the sweep and restarts
\* do to the runtime entries, and in whatever order their steps interleave,
\* the kernel accepts the policy's own entries at every moment, even one that
\* was also allowed and revoked at runtime.
StaticAlwaysAccepted == StaticAllow \subseteq allowedSet
=============================================================================

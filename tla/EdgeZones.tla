---------------------------- MODULE EdgeZones ----------------------------
(* CloudflareEnforcer, the rulesets mode (internal/enforce/cloudflare.go): *)
(* one blocklist per zone, kept in WAF rules named ezyshield-blocklist,    *)
(* -2, -3 ... of at most EzPerRule addresses.  Pushes run from the         *)
(* debounce timer and from Sync and are NOT serialised against each other. *)
(* The API identifies a rule by an ID it never reuses and refuses an       *)
(* unknown one.                                                            *)
EXTENDS Naturals, FiniteSets, FiniteSetsExt

CONSTANTS EzIPs,        \* a set of numbers: addresses in the order of sort.Strings
          EzZones,      \* zone_ids, 1..n in the configured order
          EzPerRule,    \* cfExprMax, as a number of addresses
          EzMaxRules,   \* bound: rules ever created per zone
          EzMaxChanges, \* bound: desired-set changes
          EzMaxFaults   \* bound: failed API calls

ASSUME EzAssumption == /\ EzIPs \subseteq Nat /\ IsFiniteSet(EzIPs) /\ EzPerRule \in Nat \ {0}
                       /\ EzZones \subseteq Nat \ {0} /\ IsFiniteSet(EzZones)
                       /\ EzMaxRules \in Nat \ {0} /\ EzMaxChanges \in Nat /\ EzMaxFaults \in Nat

VARIABLES
    ezRules,  \* at Cloudflare: zone -> sequence by ID of [desc, ips], desc 0 = deleted
    ezWant,   \* zone -> z.ips
    ezIDs,    \* zone -> z.ruleIDs: desc -> ID, 0 = none
    ezFound,  \* zone -> z.discovered
    ezTimer,  \* zone -> the debounce timer is armed
    ezJob,    \* pusher -> its push, or EzNoJob
    ezTodo,   \* the zones the Sync call in progress still has to push
    ezGoal,   \* the targets of that call
    ezLast,   \* ghost: zone -> "ok", "retry" after a failed push, "lost" after
              \* pushes that overlapped or a call that left the IDs wrong
    ezChanges, ezFaults

ezState == <<ezWant, ezIDs, ezFound, ezTimer>>
ezCall == <<ezTodo, ezGoal>>
ezVars == <<ezRules, ezState, ezJob, ezCall, ezLast, ezChanges, ezFaults>>

EzDescs == 1..Cardinality(EzIPs)
EzPushers == {"timer", "sync"}
EzNoJob == [zone |-> 0, at |-> "none", ips |-> {}, ids |-> [d \in EzDescs |-> 0], todo |-> {}]
EzIDRange == 0..EzMaxRules

EzTypeOK ==
    /\ ezRules \in [EzZones -> [1..EzMaxRules -> [desc : 0..Cardinality(EzIPs), ips : SUBSET EzIPs]]]
    /\ ezWant \in [EzZones -> SUBSET EzIPs] /\ ezIDs \in [EzZones -> [EzDescs -> EzIDRange]]
    /\ ezFound \in [EzZones -> BOOLEAN] /\ ezTimer \in [EzZones -> BOOLEAN]
    /\ ezJob \in [EzPushers -> [zone : EzZones \cup {0}, at : {"none", "discover", "write", "delete"},
                                ips : SUBSET EzIPs, ids : [EzDescs -> EzIDRange], todo : SUBSET EzDescs]]
    /\ ezTodo \subseteq EzZones /\ ezGoal \subseteq EzIPs /\ ezLast \in [EzZones -> {"ok", "retry", "lost"}]
    /\ ezChanges \in 0..EzMaxChanges /\ ezFaults \in 0..EzMaxFaults

EzInit ==
    /\ ezRules = [z \in EzZones |-> [i \in 1..EzMaxRules |-> [desc |-> 0, ips |-> {}]]]
    /\ ezWant = [z \in EzZones |-> {}] /\ ezIDs = [z \in EzZones |-> [d \in EzDescs |-> 0]]
    /\ ezFound = [z \in EzZones |-> FALSE] /\ ezTimer = [z \in EzZones |-> FALSE]
    /\ ezJob = [p \in EzPushers |-> EzNoJob] /\ ezTodo = {} /\ ezGoal = {}
    /\ ezLast = [z \in EzZones |-> "ok"]
    /\ ezChanges = 0 /\ ezFaults = 0

---------------------------------------------------------------------------
(* Helpers.                                                                *)

\* buildExpressions and ruleDesc: the d-th expression over the sorted set.
EzChunk(ips, d) == {i \in ips :
    LET before == Cardinality({j \in ips : j < i}) IN (d - 1) * EzPerRule <= before /\ before < d * EzPerRule}
EzExprs(ips) == {d \in EzDescs : EzChunk(ips, d) # {}}

\* isEzyshieldDesc over a zone: the managed rules that exist.
EzLive(z) == {i \in 1..EzMaxRules : ezRules[z][i].desc # 0}
EzBlocked(z) == UNION {ezRules[z][i].ips : i \in EzLive(z)}

\* discoverZone: description -> ID; of two rules with one description the
\* later wins.
EzDiscovered(z) == [d \in EzDescs |-> LET r == {i \in EzLive(z) : ezRules[z][i].desc = d}
                                      IN  IF r = {} THEN 0 ELSE Max(r)]

EzUsed(z) == {i \in 1..EzMaxRules : ezRules[z][i] # [desc |-> 0, ips |-> {}]}
EzBusy(z) == {p \in EzPushers : ezJob[p].zone = z}
EzCallable == ezTodo = {} /\ ezJob["sync"] = EzNoJob

---------------------------------------------------------------------------
(* The daemon's calls; one at a time (enforceMu).                          *)

EzChange == ezChanges < EzMaxChanges /\ ezChanges' = ezChanges + 1

\* Ban and Unban: every zone's set, then its timer.
EzBan(ip) ==
    /\ EzCallable /\ EzChange
    /\ ezWant' = [z \in EzZones |-> ezWant[z] \cup {ip}] /\ ezTimer' = [z \in EzZones |-> TRUE]
    /\ UNCHANGED <<ezRules, ezIDs, ezFound, ezJob, ezCall, ezLast, ezFaults>>

EzUnban(ip) ==
    /\ EzCallable /\ EzChange
    /\ ezWant' = [z \in EzZones |-> ezWant[z] \ {ip}] /\ ezTimer' = [z \in EzZones |-> TRUE]
    /\ UNCHANGED <<ezRules, ezIDs, ezFound, ezJob, ezCall, ezLast, ezFaults>>

\* Sync with the bans of the store: every zone in turn.
EzSync(want) ==
    /\ EzCallable /\ ezTodo' = EzZones /\ ezGoal' = want
    /\ IF \A z \in EzZones : ezWant[z] = want THEN UNCHANGED ezChanges ELSE EzChange
    /\ UNCHANGED <<ezRules, ezState, ezJob, ezLast, ezFaults>>

---------------------------------------------------------------------------
(* pushZone.                                                               *)

EzStart(p, z, ips) ==
    /\ ezJob[p] = EzNoJob
    /\ ezJob' = [ezJob EXCEPT ![p] = [zone |-> z, at |-> IF ezFound[z] THEN "write" ELSE "discover",
                                      ips |-> ips, ids |-> ezIDs[z], todo |-> EzExprs(ips)]]
    /\ ezLast' = [ezLast EXCEPT ![z] = IF EzBusy(z) = {} THEN @ ELSE "lost"]

\* The debounce timer's callback.
EzDebounce(z) ==
    /\ ezTimer[z] /\ EzStart("timer", z, ezWant[z]) /\ ezTimer' = [ezTimer EXCEPT ![z] = FALSE]
    /\ UNCHANGED <<ezRules, ezWant, ezIDs, ezFound, ezCall, ezChanges, ezFaults>>

\* The next zone of Sync: its set is replaced and its timer stopped.
EzSyncZone ==
    /\ ezTodo # {}
    /\ LET z == Min(ezTodo)
       IN  /\ EzStart("sync", z, ezGoal) /\ ezTodo' = ezTodo \ {z} /\ ezTimer' = [ezTimer EXCEPT ![z] = FALSE]
           /\ ezWant' = [ezWant EXCEPT ![z] = ezGoal]
    /\ UNCHANGED <<ezRules, ezIDs, ezFound, ezGoal, ezChanges, ezFaults>>

EzDiscover(p) ==
    LET j == ezJob[p]  z == j.zone
    IN  /\ j.at = "discover"
        /\ ezFound' = [ezFound EXCEPT ![z] = TRUE]
        /\ ezIDs' = IF ezFound[z] THEN ezIDs ELSE [ezIDs EXCEPT ![z] = EzDiscovered(z)]
        /\ ezJob' = [ezJob EXCEPT ![p].at = "write", ![p].ids = ezIDs'[z]]
        /\ UNCHANGED <<ezRules, ezWant, ezTimer, ezCall, ezLast, ezChanges, ezFaults>>

\* createRule and createRulesetWithRule: a new ID, remembered at once.
EzCreate(p, d) ==
    LET j == ezJob[p]  z == j.zone  new == Cardinality(EzUsed(z)) + 1
    IN  /\ j.at = "write" /\ d \in j.todo /\ j.ids[d] = 0 /\ new <= EzMaxRules
        /\ ezRules' = [ezRules EXCEPT ![z][new] = [desc |-> d, ips |-> EzChunk(j.ips, d)]]
        /\ ezIDs' = [ezIDs EXCEPT ![z][d] = new]
        /\ ezJob' = [ezJob EXCEPT ![p].todo = @ \ {d}, ![p].ids[d] = new]
        /\ UNCHANGED <<ezWant, ezFound, ezTimer, ezCall, ezLast, ezChanges, ezFaults>>

\* patchRule on a rule that exists.
EzPatch(p, d) ==
    LET j == ezJob[p]  z == j.zone
    IN  /\ j.at = "write" /\ d \in j.todo /\ j.ids[d] # 0 /\ ezRules[z][j.ids[d]].desc # 0
        /\ ezRules' = [ezRules EXCEPT ![z][j.ids[d]].ips = EzChunk(j.ips, d)]
        /\ ezJob' = [ezJob EXCEPT ![p].todo = @ \ {d}]
        /\ UNCHANGED <<ezState, ezCall, ezLast, ezChanges, ezFaults>>

\* Mutant: a blocklist that shrank keeps the rules it no longer needs.
EzWrittenKeeps(p) ==
    LET j == ezJob[p]
    IN  /\ j.at = "write" /\ j.todo = {}
        /\ ezJob' = [ezJob EXCEPT ![p].at = "delete", ![p].todo = IF j.ips = {} THEN {d \in EzDescs : j.ids[d] # 0} ELSE {}]
        /\ UNCHANGED <<ezRules, ezState, ezCall, ezLast, ezChanges, ezFaults>>

\* Every expression is written: on to the rules no longer needed.
EzWritten(p) ==
    LET j == ezJob[p]
    IN  /\ j.at = "write" /\ j.todo = {}
        /\ ezJob' = [ezJob EXCEPT ![p].at = "delete", ![p].todo = {d \in EzDescs : j.ids[d] # 0} \ EzExprs(j.ips)]
        /\ UNCHANGED <<ezRules, ezState, ezCall, ezLast, ezChanges, ezFaults>>

\* deleteRulesetRule.  An empty blocklist forgets each ID as it goes.
EzDelete(p, d) ==
    LET j == ezJob[p]  z == j.zone
    IN  /\ j.at = "delete" /\ d \in j.todo /\ ezRules[z][j.ids[d]].desc # 0
        /\ ezRules' = [ezRules EXCEPT ![z][j.ids[d]].desc = 0]
        /\ ezIDs' = IF j.ips = {} THEN [ezIDs EXCEPT ![z][d] = 0] ELSE ezIDs
        /\ ezJob' = [ezJob EXCEPT ![p].todo = @ \ {d}]
        /\ UNCHANGED <<ezWant, ezFound, ezTimer, ezCall, ezLast, ezChanges, ezFaults>>

\* The end of the push: z.ruleIDs is what was written.
EzPushed(p) ==
    LET j == ezJob[p]  z == j.zone
    IN  /\ j.at = "delete" /\ j.todo = {}
        /\ ezIDs' = IF j.ips = {} THEN ezIDs
                    ELSE [ezIDs EXCEPT ![z] = [d \in EzDescs |-> IF d \in EzExprs(j.ips) THEN j.ids[d] ELSE 0]]
        /\ ezJob' = [ezJob EXCEPT ![p] = EzNoJob]
        /\ ezLast' = [ezLast EXCEPT ![z] = IF @ = "lost" THEN @ ELSE "ok"]
        /\ UNCHANGED <<ezRules, ezWant, ezFound, ezTimer, ezCall, ezChanges, ezFaults>>

\* A call that fails ends the push with the IDs as they are, and a Sync with
\* the zones it had left.  It may have taken effect; an unknown ID always
\* fails.
EzFails(p) ==
    LET j == ezJob[p]  z == j.zone
        unknown == j.at \in {"write", "delete"} /\ \E d \in j.todo : j.ids[d] # 0 /\ ezRules[z][j.ids[d]].desc = 0
        forgotten == j.at = "delete" /\ j.ips # {} /\ j.todo # {d \in EzDescs : j.ids[d] # 0} \ EzExprs(j.ips)
        patched == j.at = "write" /\ \A d \in j.todo : j.ids[d] # 0
    IN  /\ j # EzNoJob
        /\ \/ unknown /\ UNCHANGED <<ezFaults, ezRules>>
           \/ /\ ezFaults < EzMaxFaults /\ ezFaults' = ezFaults + 1
              /\ \/ UNCHANGED ezRules
                 \/ /\ j.at = "delete"
                    /\ \E d \in j.todo : ezRules' = [ezRules EXCEPT ![z][j.ids[d]].desc = 0]
                 \/ /\ j.at = "write" /\ Cardinality(EzUsed(z)) < EzMaxRules
                    /\ \E d \in j.todo : ezRules' =
                        IF j.ids[d] = 0
                        THEN [ezRules EXCEPT ![z][Cardinality(EzUsed(z)) + 1] = [desc |-> d, ips |-> EzChunk(j.ips, d)]]
                        ELSE [ezRules EXCEPT ![z][j.ids[d]].ips = EzChunk(j.ips, d)]
        /\ ezLast' = [ezLast EXCEPT ![z] =
            IF @ = "lost" \/ forgotten \/ (ezRules' # ezRules /\ ~patched) THEN "lost" ELSE "retry"]
        /\ ezJob' = [ezJob EXCEPT ![p] = EzNoJob]
        /\ ezTodo' = IF p = "sync" THEN {} ELSE ezTodo
        /\ UNCHANGED <<ezState, ezGoal, ezChanges>>

EzPush(p) == \/ EzDiscover(p) \/ EzWritten(p) \/ EzPushed(p) \/ EzFails(p)
             \/ \E d \in EzDescs : EzCreate(p, d) \/ EzPatch(p, d) \/ EzDelete(p, d)
EzNext == \/ \E ip \in EzIPs : EzBan(ip) \/ EzUnban(ip)
          \/ (\E want \in SUBSET EzIPs : EzSync(want)) \/ EzSyncZone
          \/ \E z \in EzZones : EzDebounce(z)
          \/ \E p \in EzPushers : EzPush(p)
EzSpec == EzInit /\ [][EzNext]_ezVars
            /\ WF_ezVars(EzSyncZone) /\ WF_ezVars(\E want \in SUBSET EzIPs : EzSync(want)) /\ \A p \in EzPushers : WF_ezVars(EzPush(p))
            /\ \A z \in EzZones : SF_ezVars(EzDebounce(z))

---------------------------------------------------------------------------
(* Properties.                                                             *)

\* A zone with no push to come and the last one successful, none ever overlapping or
\* losing a reply, blocks
\* exactly the addresses wanted there, each description once: splitting,
\* shrinking and emptying the blocklist leaves no rule behind.
EzZoneExact == \A z \in EzZones :
    (EzBusy(z) = {} /\ ~ezTimer[z] /\ ezFound[z] /\ ezLast[z] = "ok") =>
        /\ EzBlocked(z) = ezWant[z]
        /\ Cardinality(EzLive(z)) = Cardinality(EzExprs(ezWant[z]))

\* The zone rules, through splits, lost replies and failing zones.
EzInv == EzTypeOK /\ EzZoneExact
==========================================================================

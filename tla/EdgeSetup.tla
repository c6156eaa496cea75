----------------------------- MODULE EdgeSetup -----------------------------
(* Setting up edge enforcers: the CDN step of the init wizard and the      *)
(* `config enforcer cloudflare` wizard.  A run collects accounts one by    *)
(* one (label, mode, token, identifiers), proves each against the provider *)
(* before it is kept, and merges them into the configuration at the end.   *)
(* Lists and rules created at Cloudflare on the way stay when the run      *)
(* fails.  Prompt texts are left out; what the operator is told is a set.  *)
EXTENDS Naturals, Sequences, FiniteSets, SequencesExt

CONSTANTS CdNames,      \* account labels an operator may type
          CdVar,        \* cfEnvVarForName: label -> variable, "" included
          CdZones,      \* zones of the account
          CdMaxRuns,    \* bound: wizard runs
          CdMaxAccts    \* bound: accounts of one run

\* "" is an account without a label, and "none", in .env, a variable without a
\* token: neither is a label somebody types.
ASSUME CdAssumption ==
    /\ CdNames \cap {"", "none"} = {} /\ DOMAIN CdVar = CdNames \cup {""}
    /\ CdMaxRuns \in Nat /\ CdMaxAccts \in Nat \ {0}

CdProviders == {"cloudflare", "bunny", "other"}     \* what detection can report
CdEdges == {"cloudflare", "bunny", "aws"}           \* enforcers with a subflow

VARIABLES
    cdCfg,      \* config.yaml: the sequence of Cloudflare accounts
    cdSaved,    \* the other edge enforcers it holds
    cdTokens,   \* .env: variable -> the account whose token it holds, or "none"
    cdList,     \* the custom list exists at Cloudflare
    cdRules,    \* zones that have the block rule
    cdRun,      \* the run in progress
    cdCount

cdVars == <<cdCfg, cdSaved, cdTokens, cdList, cdRules, cdRun, cdCount>>
cdCloud == <<cdList, cdRules>>
cdFiles == <<cdCfg, cdSaved, cdTokens>>

CdNoAcct == [name |-> "", var |-> "none", mode |-> "none", zones |-> {}]
CdIdle == [kind |-> "idle", at |-> "idle", detected |-> {}, todo |-> <<>>, accts |-> <<>>, acct |-> CdNoAcct,
           all |-> FALSE, redo |-> FALSE, target |-> "", attempted |-> {}, enabled |-> {}, told |-> {}]
CdAts == {"idle", "edges", "name", "fields", "token", "probe", "preflight", "rollout", "keep", "another", "bunny",
          "aws", "merge", "label", "done"}

CdTypeOK ==
    /\ \A i \in DOMAIN cdCfg : cdCfg[i].name \in CdNames \cup {""} /\ cdCfg[i].mode \in {"lists", "rulesets"}
    /\ cdSaved \subseteq CdEdges /\ cdList \in BOOLEAN /\ cdRules \subseteq CdZones /\ cdCount \in 0..CdMaxRuns
    /\ cdRun.at \in CdAts /\ Len(cdRun.accts) <= CdMaxAccts /\ cdRun.detected \subseteq CdProviders

CdInit == /\ cdCfg = <<>> /\ cdSaved = {} /\ cdTokens = [v \in Range(CdVar) |-> "none"]
          /\ cdList \in BOOLEAN /\ cdRules = {} /\ cdRun = CdIdle /\ cdCount = 0

CdStart(r) == /\ cdRun = CdIdle /\ cdCount < CdMaxRuns /\ cdCount' = cdCount + 1 /\ cdRun' = r
              /\ UNCHANGED <<cdFiles, cdCloud>>
CdGo(r) == cdRun' = r /\ UNCHANGED <<cdFiles, cdCloud, cdCount>>
CdNames1(accts) == {accts[i].name : i \in DOMAIN accts}
CdVars1(accts) == {accts[i].var : i \in DOMAIN accts}

---------------------------------------------------------------------------
(* Where a run begins.                                                     *)

\* runCDNStep: domains resolved and classified.  A detected provider with an
\* enforcer has its subflow offered; nothing detected, all three are offered.
CdOffered(detected) ==
    IF detected = {} THEN <<"cloudflare", "bunny", "aws">>
    ELSE (IF "cloudflare" \in detected THEN <<"cloudflare">> ELSE <<>>)
         \o (IF "bunny" \in detected THEN <<"bunny">> ELSE <<>>)
CdStartInit(detected) ==
    /\ cdCfg = <<>> /\ cdSaved = {}
    /\ CdStart([CdIdle EXCEPT !.kind = "init", !.at = "edges", !.detected = detected, !.todo = CdOffered(detected)])

\* pickCFReconfigureTarget: redo one account, or add one.
CdStartConfig(redo, target) ==
    /\ cdCfg # <<>> \/ cdSaved # {}
    /\ redo => target \in CdNames1(cdCfg)
    /\ ~redo => target = ""
    /\ CdStart([CdIdle EXCEPT !.kind = "config", !.at = "name", !.attempted = {"cloudflare"},
                              !.redo = redo, !.target = target])

\* The deferred banner of a subflow: attempted and not enabled.
CdLeave(r, edge) ==
    [r EXCEPT !.at = IF r.kind = "config" THEN "merge" ELSE "edges", !.acct = CdNoAcct,
              !.told = IF edge \in r.enabled THEN @ ELSE @ \cup {edge}]

\* runGenericEdgeSubflows and the recommended subflows: one question each.
CdAskEdge(yes) ==
    /\ cdRun.at = "edges" /\ cdRun.todo # <<>>
    /\ LET e == Head(cdRun.todo)
           r == [cdRun EXCEPT !.todo = Tail(@)]
       IN  CdGo(IF yes THEN [r EXCEPT !.attempted = @ \cup {e}, !.at = IF e = "cloudflare" THEN "name" ELSE e] ELSE r)

---------------------------------------------------------------------------
(* runCloudflareSubflow: the loop over accounts.                           *)

\* An account that fails ends the loop; the first one leaves nothing enabled.
CdFailed(r) == CdLeave([r EXCEPT !.enabled = IF r.accts = <<>> THEN @ ELSE @ \cup {"cloudflare"}], "cloudflare")
CdFail(step) == cdRun.at = step /\ CdGo(CdFailed(cdRun))

\* Mutant: the variables of accounts kept in this run are not reserved.
CdTakenStale == {cdCfg[i].var : i \in {j \in DOMAIN cdCfg : ~cdRun.redo \/ cdCfg[j].name # cdRun.target}}

\* takenEnvVars: the existing accounts', but for the one being redone, and
\* this run's.
CdTaken == {cdCfg[i].var : i \in {j \in DOMAIN cdCfg : ~cdRun.redo \/ cdCfg[j].name # cdRun.target}}
               \cup CdVars1(cdRun.accts)

\* promptCFAccountName: forced for a redone account, none for the very first,
\* otherwise unique in this run.
CdNameFits(n) ==
    IF cdRun.accts = <<>> /\ cdRun.redo THEN n = cdRun.target
    ELSE IF cdRun.accts = <<>> /\ cdCfg = <<>> THEN n = ""
    ELSE n \in CdNames \ CdNames1(cdRun.accts)
\* Two labels may map to one variable: upper case, and - becomes _.
cfEnvVarForName(n) == CdVar[n]
CdName(n) ==
    /\ cdRun.at = "name" /\ CdNameFits(n)
    /\ CdGo([cdRun EXCEPT !.acct = [cdRun.acct EXCEPT !.name = n, !.var = cfEnvVarForName(n)], !.at = "fields"])

\* promptOneCFAccount: mode and action are checked first, then the variable
\* the label maps to, then the token, then the identifiers of the mode.
CdFields(mode) ==
    /\ cdRun.at = "fields" /\ cdRun.acct.var \notin CdTaken
    /\ CdGo([cdRun EXCEPT !.acct = [cdRun.acct EXCEPT !.mode = mode], !.at = "token"])
CdTokenGiven(zones, all) ==
    /\ cdRun.at = "token" /\ (cdRun.acct.mode = "rulesets" => (zones # {} /\ ~all))
    /\ (all => zones = {})
    /\ CdGo([cdRun EXCEPT !.acct = [cdRun.acct EXCEPT !.zones = zones], !.all = all, !.at = "probe"])

\* dryValidateCFToken: identity (lists mode only), then scope.
CdProbe == cdRun.at = "probe" /\ CdGo([cdRun EXCEPT !.at = "preflight"])

\* cfEnsureList: a list of that name is adopted, otherwise it is created; a
\* failure may be a lost reply to a creation that took place.
cfEnsureList(ok) ==
    cdList' \in IF cdRun.acct.mode # "lists" THEN {cdList} ELSE IF ok THEN {TRUE} ELSE {cdList, TRUE}

\* runCFCapabilityPreflight: create or adopt the list; a zone that cannot be
\* read, or a refused creation, drops the account.
CdPreflight(ok) ==
    /\ cdRun.at = "preflight"
    /\ cfEnsureList(ok)
    /\ cdRun' = IF ok THEN [cdRun EXCEPT !.at = IF cdRun.acct.mode = "lists" THEN "rollout" ELSE "keep"]
                ELSE CdFailed(cdRun)
    /\ UNCHANGED <<cdFiles, cdRules, cdCount>>

\* cfEnumerateZones (all zones the token sees, page by page) and
\* cfEnsureZoneRule for each: done are the ones it reports configured or
\* already present; another may have its rule and the reply got lost.
cfEnsureZoneRules(zones, done) == \E lost \in SUBSET (zones \ done) : cdRules' = cdRules \cup done \cup lost

\* cfConfigureZoneCoverage: a zone whose rule cannot be written is named and
\* stays in the target set; an enumeration that fails, or finds none, leaves
\* the manual instructions.
CdRollout(found, done) ==
    LET zones == IF cdRun.all THEN found ELSE cdRun.acct.zones
    IN  /\ cdRun.at = "rollout" /\ done \subseteq zones
        /\ cfEnsureZoneRules(zones, done)
        /\ cdRun' = [cdRun EXCEPT !.acct = [cdRun.acct EXCEPT !.zones = zones], !.all = FALSE, !.at = "keep",
                                  !.told = @ \cup (IF zones = {} THEN {"manual"} ELSE {})
                                             \cup (IF zones \subseteq done THEN {} ELSE {"zones"})]
        /\ UNCHANGED <<cdFiles, cdList, cdCount>>

CdKeep ==
    /\ cdRun.at = "keep"
    /\ CdGo([cdRun EXCEPT !.accts = Append(@, cdRun.acct), !.acct = CdNoAcct, !.at = "another"])

\* The first account gets the label the operator typed for it.
CdRelabelled(accts, label) == [accts EXCEPT ![1] = [accts[1] EXCEPT !.name = label]]

\* "Add another account": a first account without a label gets one, which
\* must be valid, or the run keeps a single account.
CdAnother(more, label) ==
    /\ cdRun.at = "another"
    /\ more => Len(cdRun.accts) < CdMaxAccts
    /\ LET r == [cdRun EXCEPT !.enabled = @ \cup {"cloudflare"}]
           unnamed == cdCfg = <<>> /\ cdRun.accts[1].name = ""
       IN  CdGo(IF ~more \/ (unnamed /\ label = "") THEN CdLeave(r, "cloudflare")
                ELSE [cdRun EXCEPT !.at = "name", !.accts = IF unnamed THEN CdRelabelled(@, label) ELSE @])

---------------------------------------------------------------------------
(* The other two subflows.                                                 *)

\* runBunnySubflow: zone IDs, then the key, then one read per zone.
CdBunny(ok) ==
    /\ cdRun.at = "bunny"
    /\ CdGo(CdLeave([cdRun EXCEPT !.enabled = IF ok THEN @ \cup {"bunny"} ELSE @], "bunny"))

\* runAWSWAFSubflow: scope, region, one IP set at least, then a read of each.
CdAws(scope, sets, ok) ==
    /\ cdRun.at = "aws"
    /\ LET enabled == scope \in {"regional", "cloudfront"} /\ sets # {} /\ ok
       IN  CdGo(CdLeave([cdRun EXCEPT !.enabled = IF enabled THEN @ \cup {"aws"} ELSE @], "aws"))

\* The loud-skip warning: providers detected, and none of the two enforcers
\* with detection configured.
CdStepEnds ==
    /\ cdRun.at = "edges" /\ cdRun.todo = <<>>
    /\ LET silent == cdRun.detected = {} \/ cdRun.enabled \cap {"cloudflare", "bunny"} # {}
       IN  CdGo([cdRun EXCEPT !.at = "merge", !.told = IF silent THEN @ ELSE @ \cup {"warning"}])

---------------------------------------------------------------------------
(* Merging into the configuration.                                         *)

\* Mutant: an account is appended whatever its label.
CdMergedAppend(cfg, acct) == Append(cfg, acct)

\* wizardEnforcerCloudflare: an account replaces the one with its label.
CdMerged(cfg, acct) ==
    IF acct.name \in CdNames1(cfg)
    THEN [i \in DOMAIN cfg |-> IF cfg[i].name = acct.name THEN acct ELSE cfg[i]]
    ELSE Append(cfg, acct)
CdMergedAll ==
    LET merged[n \in 0 .. Len(cdRun.accts)] ==
            IF n = 0 THEN cdCfg ELSE CdMerged(merged[n - 1], cdRun.accts[n])
    IN  merged[Len(cdRun.accts)]

\* nameUnnamedCFAccounts: with several accounts an unlabelled one is named;
\* an invalid or used label ends the run with nothing written.
CdLabelled(cfg, label) ==
    [i \in DOMAIN cfg |-> IF cfg[i].name = "" THEN [cfg[i] EXCEPT !.name = label] ELSE cfg[i]]

\* writeCloudflareEnvFile, once per account after config.yaml is saved.
CdTokensOf(accts) ==
    [v \in Range(CdVar) |->
        IF \E i \in DOMAIN accts : accts[i].var = v
        THEN (CHOOSE a \in Range(accts) : a.var = v).name ELSE cdTokens[v]]

CdSave(cfg) ==
    /\ cdCfg' = cfg /\ cdSaved' = cdSaved \cup cdRun.enabled /\ cdTokens' = CdTokensOf(cdRun.accts)
    /\ cdRun' = [cdRun EXCEPT !.at = "done"] /\ UNCHANGED <<cdCloud, cdCount>>

CdMerge(label) ==
    /\ cdRun.at = "merge"
    /\ IF cdRun.enabled = {} THEN CdGo([cdRun EXCEPT !.at = "done"])
       ELSE IF Len(CdMergedAll) > 1 /\ "" \in CdNames1(CdMergedAll)
            THEN IF label \in CdNames \ CdNames1(CdMergedAll) THEN CdSave(CdLabelled(CdMergedAll, label))
                 ELSE CdGo([cdRun EXCEPT !.at = "done"])
            ELSE CdSave(CdMergedAll)
CdEnd == cdRun.at = "done" /\ CdGo(CdIdle)

\* The run is interrupted at a prompt or during a request.
CdKilled == cdRun.at \notin {"idle", "done"} /\ CdGo(CdIdle)

CdCloudflareStep ==
    \/ \E n \in CdNames \cup {""} : CdName(n)
    \/ \E m \in {"lists", "rulesets"} : CdFields(m)
    \/ \E z \in SUBSET CdZones, all \in BOOLEAN : CdTokenGiven(z, all)
    \/ CdProbe \/ \E ok \in BOOLEAN : CdPreflight(ok)
    \/ \E f, d \in SUBSET CdZones : CdRollout(f, d)
    \/ CdKeep \/ \E more \in BOOLEAN, l \in CdNames \cup {""} : CdAnother(more, l)
    \/ \E s \in {"name", "fields", "token", "probe"} : CdFail(s)
CdNext ==
    \/ \E d \in SUBSET CdProviders : CdStartInit(d)
    \/ \E redo \in BOOLEAN, t \in CdNames \cup {""} : CdStartConfig(redo, t)
    \/ \E yes \in BOOLEAN : CdAskEdge(yes)
    \/ CdCloudflareStep
    \/ \E ok \in BOOLEAN : CdBunny(ok)
    \/ \E s \in {"regional", "cloudfront", "bad"}, sets \in SUBSET {"v4"}, ok \in BOOLEAN : CdAws(s, sets, ok)
    \/ CdStepEnds \/ \E l \in CdNames \cup {""} : CdMerge(l)
    \/ CdEnd \/ CdKilled

CdSpec == CdInit /\ [][CdNext]_cdVars

---------------------------------------------------------------------------
(* Properties.                                                             *)

\* Whatever was added, redone, renamed or aborted over several runs, the
\* accounts of config.yaml have labels of their own once there are two, and
\* no two of them share the variable that holds the token.
CdDistinct ==
    \A i, j \in DOMAIN cdCfg : i # j => /\ cdCfg[i].name # cdCfg[j].name /\ cdCfg[i].name # ""
                                        /\ cdCfg[i].var # cdCfg[j].var

\* Every account that reached config.yaml was proven: the list it needs is at
\* the provider, a ruleset account has zones, and its token is in .env.
CdProven ==
    \A i \in DOMAIN cdCfg :
        /\ cdCfg[i].mode = "lists" => cdList
        /\ cdCfg[i].mode = "rulesets" => cdCfg[i].zones # {}
        /\ cdTokens[cdCfg[i].var] # "none"

\* An enforcer the operator asked for is configured, or its failure was the
\* last thing the subflow said; a list nobody references is explained.
CdNothingSilent ==
    cdRun.at \in {"merge", "done"} =>
        /\ \A e \in cdRun.attempted : e \in cdRun.enabled \/ e \in cdRun.told
        /\ \A i \in DOMAIN cdRun.accts : (cdRun.accts[i].mode = "lists" /\ cdRun.accts[i].zones = {})
                                            => "manual" \in cdRun.told

\* The edge wizard over several runs: accounts stay apart, what is configured was
\* proven, and nothing the operator asked for fails in silence.
CdInv == CdTypeOK /\ CdDistinct /\ CdProven /\ CdNothingSilent
==========================================================================

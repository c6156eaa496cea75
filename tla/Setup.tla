------------------------------ MODULE Setup ------------------------------
(* What the setup commands leave on disk: the init wizard, the scripted    *)
(* init and the `config <kind> <name>` wizards write config.yaml,          *)
(* policy.yaml and the .env file of secrets, and init grants groups and    *)
(* installs systemd units.  Every command may fail or be killed at any     *)
(* step, and a file written in place is empty between the truncation and   *)
(* the write.  Prompt texts, YAML and detection heuristics are left out:   *)
(* an answer is a member of a small set.                                   *)
EXTENDS Naturals, Sequences, FiniteSets

CONSTANTS SuMaxRuns,    \* bound: commands started
          SuMaxEdits    \* bound: edits by hand

ASSUME SuAssumption == SuMaxRuns \in Nat /\ SuMaxEdits \in Nat

SuSecrets == {"ai", "edge", "channel"}          \* the env vars a config may reference
\* How a secret is provided: pasted, skipped (a placeholder), or in a variable
\* managed elsewhere.  An edge account exists only with a pasted token.
SuWays == {"no", "paste", "skip", "external"}
SuHow == {how \in [SuSecrets -> SuWays] : how["edge"] \in {"no", "paste"}}
SuNone == [v \in SuSecrets |-> "no"]
SuFiles == {"config", "policy", "bak"}

VARIABLES
    suDisk,     \* file -> "none", "torn", "hand", "old" or "new" (the running command's)
    suEnv,      \* .env: secret -> "none", "stub" (the placeholder) or "real"
    suRun,      \* the command running
    suGroup,    \* the service user is in the docker group
    suUnit,     \* the unit file in /etc/systemd/system
    suPackaged, \* the OS package provides the units (rigid)
    suStarted,  \* the services were enabled
    suHad,      \* secrets whose value was in .env at some time
    suTorn,     \* a command ended between the truncation and the write of .env
    suCount, suEdits

suBounds == <<suCount, suEdits>>
suFilesVars == <<suDisk, suEnv, suHad, suTorn>>
suSystem == <<suGroup, suUnit, suPackaged, suStarted>>
suVars == <<suFilesVars, suRun, suSystem, suBounds>>

SuExists(f) == suDisk[f] # "none"

\* wizardState: docker collectors configured, a proxy endpoint, the opt-in to
\* the group; said is the path to container logs the operator last chose.
SuNoDocker == [sources |-> FALSE, host |-> FALSE, optIn |-> FALSE, said |-> "none"]
SuIdle == [kind |-> "idle", at |-> "idle", force |-> FALSE, yes |-> FALSE, docker |-> SuNoDocker,
           how |-> SuNone, pend |-> <<>>, lines |-> SuNone, old |-> "none", stubs |-> {}]

SuSteps == {"idle", "ask", "keys", "grant", "config", "configWrite", "policy", "policyWrite", "stage", "renameConfig",
            "renamePolicy", "backup", "backupWrite", "save", "env", "envWrite", "units", "services", "done"}

SuTypeOK ==
    /\ suDisk \in [SuFiles -> {"none", "torn", "hand", "old", "new"}]
    /\ suEnv \in [SuSecrets -> {"none", "stub", "real"}] /\ suHad \subseteq SuSecrets /\ suTorn \in BOOLEAN
    /\ suRun.kind \in {"idle", "wizard", "scripted", "component"} /\ suRun.at \in SuSteps /\ suRun.how \in [SuSecrets -> SuWays]
    /\ suGroup \in BOOLEAN /\ suUnit \in {"none", "ours", "stale", "admin"} /\ suPackaged \in BOOLEAN
    /\ suStarted \in BOOLEAN /\ suCount \in 0..SuMaxRuns /\ suEdits \in 0..SuMaxEdits

\* A fresh host, or one with a pair of files and an edge token in place.
SuInit ==
    /\ \E there \in BOOLEAN :
        /\ suDisk = [f \in SuFiles |-> IF there /\ f # "bak" THEN "hand" ELSE "none"]
        /\ suEnv = [v \in SuSecrets |-> IF there /\ v = "edge" THEN "real" ELSE "none"]
    /\ suRun = SuIdle /\ suGroup = FALSE
    /\ suUnit \in {"stale", "admin"} /\ suPackaged \in BOOLEAN /\ suStarted = FALSE
    /\ suHad = {v \in SuSecrets : suEnv[v] = "real"} /\ suTorn = FALSE /\ suCount = 0 /\ suEdits = 0

SuAt(step) == suRun' = [suRun EXCEPT !.at = step]
SuStart(r) == /\ suRun = SuIdle /\ suCount < SuMaxRuns /\ suCount' = suCount + 1
              /\ suDisk' = [f \in SuFiles |-> IF suDisk[f] = "new" THEN "old" ELSE suDisk[f]]
              /\ suRun' = [r EXCEPT !.stubs = {v \in SuSecrets : suEnv[v] = "stub"}, !.old = suDisk'["config"]]
              /\ UNCHANGED <<suEnv, suHad, suTorn, suSystem, suEdits>>

---------------------------------------------------------------------------
(* The three commands start.                                               *)

\* preflightExistingConfigFiles.
SuFresh == ~SuExists("config") /\ ~SuExists("policy")

\* resolveDockerAccessAnswers: --docker-group and --docker-host pre-answer the
\* question; both together are refused.
SuFlags == {"none", "group", "proxy"}
SuFlagged(flag) == [SuNoDocker EXCEPT !.optIn = (flag = "group"), !.host = (flag = "proxy"), !.said = flag]

\* runInitWizard.
SuWizard(yes, flag) ==
    /\ SuFresh
    /\ SuStart([SuIdle EXCEPT !.kind = "wizard", !.at = "ask", !.yes = yes, !.docker = SuFlagged(flag)])

\* loadInitAnswers, rejectLiteralSecrets, validateAnswers: the first problem
\* ends the run before anything is written.
SuDefects == {"none", "unknown key", "literal secret", "invalid"}
SuAccepted(defect) == defect = "none"

\* applyAnswers: answers name variables, never values; docker collectors come
\* from the answers or from detection.
SuApplied(named, flag, sources) ==
    [SuIdle EXCEPT !.how = [v \in SuSecrets |-> IF v \in named THEN "skip" ELSE "no"],
                   !.docker = [SuFlagged(flag) EXCEPT !.sources = sources]]

\* runNonInteractiveInit.  The files are not looked at again before the commit.
SuScripted(force, defect, r) ==
    /\ SuAccepted(defect) /\ (force \/ SuFresh)
    /\ SuStart([r EXCEPT !.kind = "scripted", !.at = "grant", !.force = force])

\* runConfigComponent: one component of an existing, loadable config; a wizard
\* that changes nothing writes nothing.
SuComponent(how) ==
    /\ suDisk["config"] \in {"hand", "old", "new"}
    /\ SuStart([SuIdle EXCEPT !.kind = "component", !.at = "backup", !.how = how])

SuConfigAI(way) == SuComponent([SuNone EXCEPT !["ai"] = way])
SuConfigEdge == SuComponent([SuNone EXCEPT !["edge"] = "paste"])

\* A channel, or the enrichment licence key, which takes the same path.
SuConfigChannel(way) == SuComponent([SuNone EXCEPT !["channel"] = way])

\* A collector holds no secret; a removal leaves .env alone.
SuConfigPlain == SuComponent(SuNone)

---------------------------------------------------------------------------
(* askQuestions.                                                           *)

\* askDockerAccess: the three-way choice; a host file may leave some docker
\* collectors behind, the group asks once more.
SuDockerAccess(d, choice, consent, left) ==
    CASE choice = "file"  -> [d EXCEPT !.said = choice, !.sources = left, !.optIn = FALSE, !.host = FALSE]
      [] choice = "proxy" -> [d EXCEPT !.said = choice, !.host = TRUE, !.optIn = FALSE]
      [] choice = "group" -> [d EXCEPT !.said = IF consent THEN choice ELSE "none", !.optIn = consent, !.host = FALSE]

\* confirmWebServerCollectors: no docker collector confirmed, nothing to ask.
SuAskNoDocker == /\ suRun.at = "ask" /\ SuAt("keys") /\ UNCHANGED <<suFilesVars, suSystem, suBounds>>

\* Docker collectors confirmed.  --yes keeps what a flag said, or grants nothing.
SuAskDocker(choice, consent, left) ==
    /\ suRun.at = "ask"
    /\ suRun.yes => (choice = suRun.docker.said /\ consent = suRun.docker.optIn)
    /\ LET d == [suRun.docker EXCEPT !.sources = TRUE]
       IN  suRun' = [suRun EXCEPT !.at = "keys",
                                  !.docker = IF choice = "none" THEN d ELSE SuDockerAccess(d, choice, consent, left)]
    /\ choice = "none" => suRun.yes
    /\ UNCHANGED <<suFilesVars, suSystem, suBounds>>

\* runCDNStep, runAIProviderSubflow, runNotifyStep: --yes leaves all three out.
SuAskKeys(how) ==
    /\ suRun.at = "keys" /\ (suRun.yes => how = SuNone)
    /\ suRun' = [suRun EXCEPT !.how = how, !.at = "grant", !.yes = FALSE]
    /\ UNCHANGED <<suFilesVars, suSystem, suBounds>>

---------------------------------------------------------------------------
(* System accounts: the docker group.                                      *)

\* shouldGrantDockerGroup, applyDockerGroupDecision: a proxy replaces the
\* group; a failed usermod is a warning.
SuGrants == suRun.docker.sources /\ ~suRun.docker.host /\ suRun.docker.optIn

SuGrant(ok) ==
    /\ suRun.at = "grant" /\ (ok => SuGrants)
    /\ suGroup' = (suGroup \/ ok)
    /\ suRun' = [suRun EXCEPT !.at = IF suRun.kind = "wizard" THEN "config" ELSE "stage", !.docker = SuNoDocker]
    /\ UNCHANGED <<suFilesVars, suUnit, suPackaged, suStarted, suBounds>>

---------------------------------------------------------------------------
(* The wizard writes the two files in place, one after the other; each     *)
(* writer looks again for a file that appeared meanwhile.                  *)

SuTruncate(f, step) ==
    /\ suRun.at = f /\ ~SuExists(f) /\ suDisk' = [suDisk EXCEPT ![f] = "torn"] /\ SuAt(step)
    /\ UNCHANGED <<suEnv, suHad, suTorn, suSystem, suBounds>>

SuWriteConfig ==
    \/ SuTruncate("config", "configWrite")
    \/ /\ suRun.at = "configWrite" /\ suDisk' = [suDisk EXCEPT !["config"] = "new"] /\ SuAt("policy")
       /\ UNCHANGED <<suEnv, suHad, suTorn, suSystem, suBounds>>

\* The .env writes of the run, in order: the AI key (shouldWriteAIEnv), the
\* edge tokens, then the hooks of the notification channels.
SuIfGiven(how, v) == IF how[v] \in {"paste", "skip"} THEN <<v>> ELSE <<>>
SuPending(how) == SuIfGiven(how, "ai") \o SuIfGiven(how, "edge") \o SuIfGiven(how, "channel")

SuCommit(f, step) ==
    /\ suDisk' = [suDisk EXCEPT ![f] = "new"]
    /\ suRun' = [suRun EXCEPT !.at = step, !.pend = SuPending(suRun.how)]
    /\ UNCHANGED <<suEnv, suHad, suTorn, suSystem, suBounds>>

SuWritePolicy == \/ SuTruncate("policy", "policyWrite")
                 \/ suRun.at = "policyWrite" /\ SuCommit("policy", "env")

---------------------------------------------------------------------------
(* The scripted init stages both files, then renames both.                 *)

SuStage ==
    /\ suRun.at = "stage" /\ SuAt("renameConfig") /\ UNCHANGED <<suFilesVars, suSystem, suBounds>>

SuCommitPair == \/ suRun.at = "renameConfig" /\ SuCommit("config", "renamePolicy")
                \/ suRun.at = "renamePolicy" /\ SuCommit("policy", "env")

---------------------------------------------------------------------------
(* SaveConfig: the current file is copied to .bak, the new one renamed.    *)

\* Mutant: .bak is not written when one exists.
SuBackupOnce ==
    \/ /\ suRun.at = "backup" /\ SuAt(IF SuExists("bak") THEN "save" ELSE "backupWrite")
       /\ UNCHANGED <<suFilesVars, suSystem, suBounds>>
    \/ /\ suRun.at = "backupWrite" /\ suDisk' = [suDisk EXCEPT !["bak"] = suDisk["config"]] /\ SuAt("save")
       /\ UNCHANGED <<suEnv, suHad, suTorn, suSystem, suBounds>>

SuBackup ==
    \/ /\ suRun.at = "backup" /\ suDisk' = [suDisk EXCEPT !["bak"] = "torn"] /\ SuAt("backupWrite")
       /\ UNCHANGED <<suEnv, suHad, suTorn, suSystem, suBounds>>
    \/ /\ suRun.at = "backupWrite" /\ suDisk' = [suDisk EXCEPT !["bak"] = suDisk["config"]] /\ SuAt("save")
       /\ UNCHANGED <<suEnv, suHad, suTorn, suSystem, suBounds>>

SuSave == suRun.at = "save" /\ SuCommit("config", "env")

---------------------------------------------------------------------------
(* The .env file.                                                          *)

\* upsertEnvLine: every other line is kept.
SuUpsert(lines, v, value) == [lines EXCEPT ![v] = value]

\* writeOrKeepEnvFile, writeAIEnvFile, writeCloudflareEnvFile: a pasted value
\* replaces, a skipped paste keeps a real value or leaves the placeholder.
SuMerged(lines, v) ==
    IF suRun.how[v] = "paste" THEN SuUpsert(lines, v, "real")
    ELSE IF lines[v] = "real" THEN lines ELSE SuUpsert(lines, v, "stub")

\* writeEnvFileContent and writeCloudflareEnvFile replace the file by a rename;
\* writeAIEnvFile and ensureEnvPlaceholders write it in place.
SuInPlace(v) == suRun.kind = "scripted" \/ v = "channel" \/ (v = "ai" /\ suRun.kind = "component")

SuHolds(e) == suHad' = suHad \cup {v \in SuSecrets : e[v] = "real"}

\* Atomic replacement of one line.
SuEnvAtomic ==
    /\ suRun.at = "env" /\ suRun.pend # <<>> /\ ~SuInPlace(Head(suRun.pend))
    /\ suEnv' = SuMerged(suEnv, Head(suRun.pend)) /\ SuHolds(suEnv')
    /\ suRun' = [suRun EXCEPT !.pend = Tail(@)]
    /\ UNCHANGED <<suDisk, suTorn, suSystem, suBounds>>

\* ensureEnvPlaceholders stubs every referenced variable in one write.
SuStubbed == [v \in SuSecrets |-> IF suRun.how[v] = "skip" /\ suEnv[v] # "real" THEN "stub" ELSE suEnv[v]]
SuNewLines == IF suRun.kind = "scripted" THEN SuStubbed ELSE SuMerged(suEnv, Head(suRun.pend))

\* In place: the lines are read, the file truncated, then written; a file
\* that would not change is kept.
SuEnvTruncate ==
    /\ suRun.at = "env" /\ suRun.pend # <<>> /\ SuInPlace(Head(suRun.pend))
    /\ LET rest == IF suRun.kind = "scripted" THEN <<>> ELSE Tail(suRun.pend)
       IN  IF SuNewLines = suEnv /\ suRun.how[Head(suRun.pend)] = "skip"
           THEN suRun' = [suRun EXCEPT !.pend = rest] /\ UNCHANGED suEnv
           ELSE /\ suRun' = [suRun EXCEPT !.at = "envWrite", !.lines = SuNewLines, !.pend = rest]
                /\ suEnv' = [v \in SuSecrets |-> "none"]
    /\ UNCHANGED <<suDisk, suHad, suTorn, suSystem, suBounds>>

SuEnvWrite ==
    /\ suRun.at = "envWrite" /\ suEnv' = suRun.lines /\ SuHolds(suEnv')
    /\ suRun' = [suRun EXCEPT !.at = "env", !.lines = SuNone]
    /\ UNCHANGED <<suDisk, suTorn, suSystem, suBounds>>

---------------------------------------------------------------------------
(* The end of a command.                                                   *)

\* installSystemdUnits: with packaged units only a broken leftover goes;
\* without, ours are written over whatever is there.
SuUnits == IF ~suPackaged THEN "ours" ELSE IF suUnit = "stale" THEN "none" ELSE suUnit

\* rules.d, then units and services for the wizard of a default directory.
SuInstall ==
    \/ /\ suRun.at = "env" /\ suRun.pend = <<>>
       /\ SuAt(IF suRun.kind = "wizard" THEN "units" ELSE "done") /\ UNCHANGED <<suUnit, suStarted>>
    \/ suRun.at = "units" /\ suUnit' = SuUnits /\ SuAt("services") /\ UNCHANGED suStarted
    \/ suRun.at = "services" /\ suStarted' = TRUE /\ SuAt("done") /\ UNCHANGED suUnit

SuInstallStep == SuInstall /\ UNCHANGED <<suFilesVars, suGroup, suPackaged, suBounds>>

SuEnd == suRun.at = "done" /\ suRun' = SuIdle /\ UNCHANGED <<suFilesVars, suSystem, suBounds>>

\* An error return or a kill at any step.
SuAbort ==
    /\ suRun.at \notin {"idle", "done"} /\ suRun' = SuIdle /\ suTorn' = (suTorn \/ suRun.at = "envWrite")
    /\ UNCHANGED <<suDisk, suEnv, suHad, suSystem, suBounds>>

\* The operator writes a file while the wizard prompts, deletes the pair as
\* the refusal says, or fills in a placeholder.
SuEdit == suEdits < SuMaxEdits /\ suEdits' = suEdits + 1 /\ UNCHANGED <<suRun, suSystem, suTorn, suCount>>
SuHandWrites(f) ==
    /\ suRun.at \in {"idle", "ask", "keys"} /\ ~SuExists(f) /\ suDisk' = [suDisk EXCEPT ![f] = "hand"]
    /\ SuEdit /\ UNCHANGED <<suEnv, suHad>>
SuHandDeletes ==
    /\ suRun = SuIdle /\ suDisk' = [suDisk EXCEPT !["config"] = "none", !["policy"] = "none"]
    /\ SuEdit /\ UNCHANGED <<suEnv, suHad>>
SuHandFills(v) ==
    /\ suRun = SuIdle /\ suEnv[v] = "stub" /\ suEnv' = [suEnv EXCEPT ![v] = "real"] /\ SuHolds(suEnv')
    /\ SuEdit /\ UNCHANGED suDisk

SuCommands ==
    \/ \E flag \in SuFlags :
        \/ \E yes \in BOOLEAN : SuWizard(yes, flag)
        \/ \E force, sources \in BOOLEAN, named \in SUBSET SuSecrets, defect \in SuDefects :
            SuScripted(force, defect, SuApplied(named, flag, sources))
    \/ \E way \in SuWays \ {"no"} : SuConfigAI(way) \/ SuConfigChannel(way)
    \/ SuConfigEdge \/ SuConfigPlain
SuAsk ==
    \/ SuAskNoDocker
    \/ \E choice \in {"none", "file", "proxy", "group"}, c, l \in BOOLEAN : SuAskDocker(choice, c, l)
    \/ \E how \in SuHow : SuAskKeys(how)
SuStepForward == \/ SuAsk \/ SuWriteConfig \/ SuWritePolicy \/ SuStage \/ SuCommitPair \/ SuBackup \/ SuSave
                 \/ SuEnvAtomic \/ SuEnvTruncate \/ SuEnvWrite \/ SuInstallStep \/ SuEnd
                 \/ \E ok \in BOOLEAN : SuGrant(ok)
SuNext == \/ SuCommands \/ SuStepForward \/ SuAbort
          \/ \E f \in {"config", "policy"} : SuHandWrites(f)
          \/ SuHandDeletes \/ \E v \in SuSecrets : SuHandFills(v)

SuSpec == SuInit /\ [][SuNext]_suVars

---------------------------------------------------------------------------
(* Properties.                                                             *)

\* Unless a command was cut off inside a write of .env, no setup command ever
\* costs a secret: a variable that held a value still holds one, whatever
\* other secrets later runs, failed or not, wrote into the same file.
SuSecretsKept == (~suTorn /\ suRun.at # "envWrite") => \A v \in suHad : suEnv[v] = "real"

\* A file an operator wrote, also one written while the wizard was asking, is
\* replaced by an init only with --force.
SuNoClobber == [][ \A f \in {"config", "policy"} :
                    (suDisk[f] = "hand" /\ suDisk'[f] # "hand" /\ suRun.kind \in {"wizard", "scripted"})
                        => suRun.force ]_suVars

\* A command that reaches its end leaves a usable installation: init both
\* files, and every secret the config references a line in .env, unless the
\* operator said it lives elsewhere: then no placeholder shadows it that was
\* not there before.
SuComplete ==
    suRun.at = "done" =>
        /\ suRun.kind # "component" => (suDisk["config"] = "new" /\ suDisk["policy"] = "new")
        /\ \A v \in SuSecrets : suRun.how[v] \in {"paste", "skip"} => suEnv[v] # "none"
        /\ \A v \in SuSecrets : (suRun.how[v] = "external" /\ suEnv[v] = "stub") => v \in suRun.stubs

\* While a component is reconfigured, and after it failed, the config it found
\* is intact in config.yaml or in the .bak beside it.
SuEditRecoverable ==
    suRun.kind = "component" => suRun.old \in {suDisk["config"], suDisk["bak"]}

\* The service user enters the docker group only when the operator's last
\* word on container logs in that run was the group.
SuGroupByConsent == [][ (~suGroup /\ suGroup') => (suRun.docker.said = "group" /\ suRun.docker.sources) ]_suVars

\* Once services are enabled, the unit systemd picks has a program to run.
SuUnitRuns == (suStarted /\ suRun.at # "units") => suUnit # "stale"

\* Setup commands that fail, are interrupted and are run again: secrets and hand
\* edits survive, what is reported done is complete, services have a program,
\* and nobody joins the docker group unasked.
SuSafe == /\ [](SuTypeOK /\ SuSecretsKept /\ SuComplete /\ SuEditRecoverable /\ SuUnitRuns)
          /\ SuNoClobber /\ SuGroupByConsent
==========================================================================

------------------------------- MODULE Update -------------------------------
(***************************************************************************)
(* `ezyshield update`: fetch a release, verify the signature of its        *)
(* checksums, download and verify both binaries beside their install       *)
(* paths, then rename one after the other. A release can be edited by its  *)
(* publisher while a run is under way, and a run can die at any step.      *)
(*                                                                         *)
(* Versions are numbers in the order CompareSemver gives them. The content *)
(* of a binary is its version and build; build 0 was not made by the       *)
(* release workflow.                                                       *)
(***************************************************************************)
EXTENDS Integers, FiniteSets

CONSTANTS
  UpVersions,
  UpFirst,        \* the version both binaries have at the beginning
  UpMaxRuns, UpMaxFaults   \* bounds: runs of the command; faults and edits of a release

ASSUME UpConstants ==
  /\ UpVersions \subseteq Nat /\ UpFirst \in UpVersions
  /\ UpMaxRuns \in Nat /\ UpMaxFaults \in Nat

\* What a release can look like: a signature proves the workflow's builds and nothing else.
UpShapes == [build : {1, 2}, sig : {"good", "none"}] \cup [build : {0}, sig : {"none", "forged"}]
UpParts == {"main", "enforcer"}

VARIABLES
  upCosign,     \* cosign is installed; never changes
  upRelease,    \* what the publisher serves for every version
  upLatest,     \* releases/latest; 0 for no stable release
  upBin,        \* installed content of both binaries
  upTmp,        \* temporary files beside the install paths: part -> build, or -1
  upRun,        \* the running command: [at, ...]
  upRuns, upFaults,
  upWaived      \* history: an unsigned release was let through under --allow-unsigned

upVars == <<upCosign, upRelease, upLatest, upBin, upTmp, upRun, upRuns, upFaults, upWaived>>

UpNoTmp == [p \in UpParts |-> -1]
UpIdle == [at |-> "idle"]

UpInit ==
  /\ upCosign \in BOOLEAN
  /\ upRelease = [v \in UpVersions |-> [build |-> 1, sig |-> "good"]]
  /\ upLatest \in UpVersions \cup {0}
  /\ upBin = [p \in UpParts |-> [ver |-> UpFirst, build |-> 1]]
  /\ upTmp = UpNoTmp /\ upRun = UpIdle /\ upRuns = 0 /\ upFaults = 0
  /\ upWaived = FALSE

UpFault == upFaults < UpMaxFaults /\ upFaults' = upFaults + 1
UpHere(at) == upRun.at = at
UpWorld == <<upCosign, upRelease, upLatest>>
UpHistory == <<upRuns, upWaived>>

\* The command ends; its deferred cleanup removes the temporary files.
UpEnd(how) == upRun' = [at |-> how] /\ upTmp' = UpNoTmp

-----------------------------------------------------------------------------
(* The command.                                                            *)

\* A run of the installed binary, with its flags: --version, --allow-unsigned, --yes.
UpBegin ==
  /\ upRun.at \in {"idle", "uptodate", "failed", "done"} /\ upRuns < UpMaxRuns /\ upRuns' = upRuns + 1
  /\ \E pin \in UpVersions \cup {0}, allow, yes \in BOOLEAN :
       /\ pin = 0 => ~yes
       /\ upRun' = [at |-> "fetch", cur |-> upBin["main"].ver, pin |-> pin, allow |-> allow,
                    yes |-> yes, ver |-> 0, sums |-> -1, signed |-> FALSE]
  /\ UNCHANGED <<UpWorld, upBin, upTmp, upFaults, upWaived>>

\* fetchTargetRelease: the pinned tag, or the latest stable release.
UpTarget == IF upRun.pin # 0 THEN upRun.pin ELSE upLatest

\* The latest release is not newer than the running binary.
UpUpToDate ==
  /\ UpHere("fetch") /\ upRun.pin = 0 /\ upLatest # 0 /\ upRun.cur >= upLatest
  /\ UpEnd("uptodate") /\ UNCHANGED <<UpWorld, upBin, upFaults, UpHistory>>

UpNoStable ==
  /\ UpHere("fetch") /\ UpTarget = 0 /\ UpEnd("failed")
  /\ UNCHANGED <<UpWorld, upBin, upFaults, UpHistory>>

UpFetched ==
  /\ UpHere("fetch") /\ UpTarget # 0 /\ (upRun.pin = 0 => upRun.cur < upLatest)
  /\ upRun' = [upRun EXCEPT !.at = "confirm", !.ver = UpTarget,
                            !.signed = upRelease[UpTarget].sig # "none"]
  /\ UNCHANGED <<UpWorld, upBin, upTmp, upFaults, UpHistory>>

\* confirmIfDowngrade: only a pinned, older release needs a yes.
UpAsks == upRun.pin # 0 /\ upRun.ver < upRun.cur /\ ~upRun.yes

UpConfirm ==
  /\ UpHere("confirm")
  /\ \/ ~UpAsks /\ upRun' = [upRun EXCEPT !.at = "sums"]
     \/ UpAsks /\ upRun' = [upRun EXCEPT !.at = "sums", !.yes = TRUE]
  /\ UNCHANGED <<UpWorld, upBin, upTmp, upFaults, UpHistory>>

UpDeclined ==
  /\ UpHere("confirm") /\ UpAsks /\ UpEnd("failed")
  /\ UNCHANGED <<UpWorld, upBin, upFaults, UpHistory>>

UpSums ==
  /\ UpHere("sums")
  /\ upRun' = [upRun EXCEPT !.at = "sig", !.sums = upRelease[upRun.ver].build]
  /\ UNCHANGED <<UpWorld, upBin, upTmp, upFaults, UpHistory>>

\* The signature asset of this moment, over the checksums of an earlier one.
UpVerifies == upRelease[upRun.ver].sig = "good" /\ upRelease[upRun.ver].build = upRun.sums
UpPrerequisites == upRun.signed /\ upCosign

\* verifyChecksumsSig: verified, or a prerequisite is missing and the operator accepted that.
UpSigOk == IF UpPrerequisites THEN UpVerifies ELSE upRun.allow

UpSig ==
  /\ UpHere("sig") /\ UpSigOk
  /\ upRun' = [upRun EXCEPT !.at = "main"]
  /\ upWaived' = (upWaived \/ ~UpPrerequisites)
  /\ UNCHANGED <<UpWorld, upBin, upTmp, upFaults, upRuns>>

UpSigRefused ==
  /\ UpHere("sig") /\ ~UpSigOk /\ UpEnd("failed")
  /\ UNCHANGED <<UpWorld, upBin, upFaults, UpHistory>>

\* The enforcer's digest is not compared.
UpDigestOkMain(p, got) == p = "main" => got = upRun.sums

\* DownloadVerified: the digest of what arrived is the one in the checksums.
UpDigestOk(p, got) == got = upRun.sums

UpInstalling == [main |-> "install-main", enforcer |-> "install-enforcer"]
UpAfter(p) == IF p = "main" THEN "enforcer" ELSE "install-main"

\* What is served now, or a damaged copy of it.
UpDownload(p) ==
  /\ UpHere(p)
  /\ \E got \in {upRelease[upRun.ver].build, 0} :
       /\ IF got = upRelease[upRun.ver].build THEN UNCHANGED upFaults ELSE UpFault
       /\ UpDigestOk(p, got)
       /\ upTmp' = [upTmp EXCEPT ![p] = got]
       /\ upRun' = [upRun EXCEPT !.at = UpAfter(p)]
  /\ UNCHANGED <<UpWorld, upBin, UpHistory>>

UpDownloadRefused(p) ==
  /\ UpHere(p)
  /\ \E got \in {upRelease[upRun.ver].build, 0} :
       /\ IF got = upRelease[upRun.ver].build THEN UNCHANGED upFaults ELSE UpFault
       /\ ~UpDigestOk(p, got)
  /\ UpEnd("failed") /\ UNCHANGED <<UpWorld, upBin, UpHistory>>

\* AtomicReplace of one binary, then of the other.
UpInstall(p) ==
  /\ UpHere(UpInstalling[p])
  /\ upBin' = [upBin EXCEPT ![p] = [ver |-> upRun.ver, build |-> upTmp[p]]]
  /\ upTmp' = [upTmp EXCEPT ![p] = -1]
  /\ upRun' = [upRun EXCEPT !.at = IF p = "main" THEN "install-enforcer" ELSE "done"]
  /\ UNCHANGED <<UpWorld, upFaults, UpHistory>>

\* A request, a check of the downloaded binary, a chmod or a rename fails.
UpFails ==
  /\ upRun.at \in {"fetch", "sums", "sig", "main", "enforcer", "install-main", "install-enforcer"}
  /\ UpFault /\ UpEnd("failed")
  /\ UNCHANGED <<UpWorld, upBin, UpHistory>>

\* The command is killed: no cleanup.
UpKilled ==
  /\ upRun.at \in {"main", "enforcer", "install-main", "install-enforcer"} /\ UpFault
  /\ upRun' = UpIdle
  /\ UNCHANGED <<UpWorld, upBin, upTmp, upRuns, upWaived>>

\* The publisher puts another build or signature under an existing tag, or moves "latest".
UpEdit ==
  /\ UpFault
  /\ \/ \E v \in UpVersions, s \in UpShapes : upRelease' = [upRelease EXCEPT ![v] = s] /\ UNCHANGED upLatest
     \/ \E v \in UpVersions : upLatest' = v /\ UNCHANGED upRelease
  /\ UNCHANGED <<upCosign, upBin, upTmp, upRun, UpHistory>>

UpNext ==
  \/ UpBegin \/ UpUpToDate \/ UpNoStable \/ UpFetched \/ UpConfirm \/ UpDeclined \/ UpSums
  \/ UpSig \/ UpSigRefused \/ UpFails \/ UpKilled \/ UpEdit
  \/ \E p \in UpParts : UpDownload(p) \/ UpDownloadRefused(p) \/ UpInstall(p)

UpSpec == UpInit /\ [][UpNext]_upVars

-----------------------------------------------------------------------------
(* Properties.                                                             *)

\* Every variable keeps its type.
UpTypeOK ==
  /\ upCosign \in BOOLEAN /\ upRelease \in [UpVersions -> UpShapes]
  /\ upBin \in [UpParts -> [ver : UpVersions, build : 0 .. 2]]
  /\ upTmp \in [UpParts -> -1 .. 2]
  /\ upRun.at \in {"idle", "fetch", "confirm", "sums", "sig", "main", "enforcer", "install-main",
                   "install-enforcer", "uptodate", "failed", "done"}

\* Fail-closed: a binary the release workflow did not build is installed only by a run that was
\* told to accept an unsigned release and met a missing prerequisite, never past a signature
\* that does not verify, whatever the publisher edits between the downloads.
UpFailClosed == (\E p \in UpParts : upBin[p].build = 0) => upWaived

\* A run that reports success has installed the two binaries of one set of checksums, even if
\* the release was edited between the two downloads.
UpPair == [][upRun.at # "done" /\ upRun'.at = "done" =>
               \A p \in UpParts : upBin'[p] = [ver |-> upRun.ver, build |-> upRun.sums]]_upVars

\* The main binary becomes older only in a run pinned to that version whose operator agreed.
UpNoSilentDowngrade ==
  [][upBin'["main"].ver < upBin["main"].ver => upRun.pin = upBin'["main"].ver /\ upRun.yes]_upVars

\* An update that may die anywhere and meet an edited release: only verified
\* binaries, both from one set of checksums when it reports success, and never
\* silently an older one.
UpSafe == [](UpTypeOK /\ UpFailClosed) /\ UpPair /\ UpNoSilentDowngrade
=============================================================================

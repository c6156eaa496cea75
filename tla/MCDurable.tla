----------------------------- MODULE MCDurable -----------------------------
(***************************************************************************)
(* What must come out right on disk however often it is interrupted: the   *)
(* installation (`init` and the config editors, the edge wizard, `update`) *)
(* and the record of strikes and bans the decision engine keeps in the     *)
(* store. The four share no state the properties look at, so every         *)
(* behaviour has one of them in focus and leaves the others in a first     *)
(* state of theirs.                                                        *)
(***************************************************************************)
EXTENDS Setup, EdgeSetup, Update, Ladder

VARIABLE focus   \* the component of this behaviour; never changes

durableVars == <<focus, suVars, cdVars, upVars, ldVars>>

DurableInit ==
    /\ focus \in {"setup", "edge", "update", "ladder"}
    /\ SuInit /\ CdInit /\ UpInit /\ LdInit
    /\ focus # "setup" => suDisk["config"] = "none" /\ suUnit = "admin" /\ suPackaged
    /\ focus # "edge" => ~cdList
    /\ focus # "update" => ~upCosign /\ upLatest = UpFirst
    /\ focus # "ladder" => "notify" \in ldScene.env

DurableNext ==
    \/ focus = "setup" /\ SuNext /\ UNCHANGED <<focus, cdVars, upVars, ldVars>>
    \/ focus = "edge" /\ CdNext /\ UNCHANGED <<focus, suVars, upVars, ldVars>>
    \/ focus = "update" /\ UpNext /\ UNCHANGED <<focus, suVars, cdVars, ldVars>>
    \/ focus = "ladder" /\ LdNext /\ UNCHANGED <<focus, suVars, cdVars, upVars>>

DurableSpec == DurableInit /\ [][DurableNext]_durableVars
-----------------------------------------------------------------------------
\* Two of the labels map to one environment variable.
MCCdVar == [n \in CdNames \cup {""} |->
                CASE n = "" -> "PLAIN" [] n = "main" -> "MAIN" [] OTHER -> "A_B"]

CONSTANTS x, y

\* A rung that ends and a permanent one.
MCLdTTLs == <<1, 0>>

\* Two callers and time for the whole ladder; the operator beside the pipeline;
\* the observe band with more addresses than edges; two addresses under one cap.
MCLdScenes ==
    { [ips |-> {x}, callers |-> LdCallers, env |-> {"strike"}, cap |-> 1, time |-> 4, faults |-> 1],
      [ips |-> {x}, callers |-> {"pipeline"}, env |-> {"strike", "verbs"}, cap |-> 2, time |-> 2, faults |-> 0],
      [ips |-> {x, y}, callers |-> LdCallers, env |-> {"notify"}, cap |-> 1, time |-> 2, faults |-> 1],
      [ips |-> {x, y}, callers |-> LdCallers, env |-> {"strike"}, cap |-> 1, time |-> 2, faults |-> 0] }
=============================================================================

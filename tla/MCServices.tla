----------------------------- MODULE MCServices -----------------------------
(***************************************************************************)
(* What the daemon offers beside banning: notifications, the dashboard's   *)
(* sign-in and roles, SIEM forwarding and plugins. The four share no state *)
(* the properties look at, so every behaviour has one of them in focus and *)
(* leaves the others in a first state of theirs.                           *)
(***************************************************************************)
EXTENDS Notify, Dashboard, Siem, Plugin

VARIABLE focus   \* the component of this behaviour; never changes

servicesVars == <<focus, ntVars, dbVars, smVars, plVars>>

ServicesInit ==
    /\ focus \in {"notify", "dashboard", "siem", "plugin"}
    /\ NtInit /\ DbInit /\ SmInit /\ PlInit
    /\ focus # "notify" => "ban" \in ntCast.from
    /\ focus # "dashboard" => dbScene = "login"

ServicesNext ==
    \/ focus = "notify" /\ NtNext /\ UNCHANGED <<focus, dbVars, smVars, plVars>>
    \/ focus = "dashboard" /\ DbNext /\ UNCHANGED <<focus, ntVars, smVars, plVars>>
    \/ focus = "siem" /\ SmNext /\ UNCHANGED <<focus, ntVars, dbVars, plVars>>
    \/ focus = "plugin" /\ PlNext /\ UNCHANGED <<focus, ntVars, dbVars, smVars>>

\* The fairness of the forwarder's and of the plugin runtime's specification,
\* for the one in focus; the other two promise nothing that needs any.
ServicesFair ==
    /\ WF_smVars(focus = "siem" /\ SmTailStep)
    /\ \A s \in SmSinks : WF_smVars(focus = "siem" /\ SmWorker(s))
    /\ WF_plVars(focus = "plugin" /\ PlSupervise) /\ WF_plVars(focus = "plugin" /\ PlReply)
    /\ WF_plVars(focus = "plugin" /\ PlTick)
    /\ \A k \in PlCalls : WF_plVars(focus = "plugin" /\ (PlCallQueues(k) \/ PlCallStopped(k)))

ServicesSpec == ServicesInit /\ [][ServicesNext]_servicesVars /\ ServicesFair
-----------------------------------------------------------------------------
\* SmCatchesUp for the forwarder in focus: while the daemon is up every sink that
\* answers again gets what the log holds (siem.go's tail, the sinks' retry loop).
SiemCatchesUp == <>[](focus # "siem") \/ SmCatchesUp
-----------------------------------------------------------------------------
MCNtChannels == << [kind |-> "telegram", severities |-> {}, recipients |-> {1}],
                   [kind |-> "email", severities |-> {"critical"}, recipients |-> {1}] >>
MCNtCasts == { [from |-> {"ban", "retry"}, max |-> 2],
               [from |-> {"scan", "flush"}, max |-> 3],
               [from |-> {"probe", "operator"}, max |-> 3],
               [from |-> {"check", "ineffective"}, max |-> 3] }

MCDbNames == <<"n1", "n2", "n3", "n4", "n5", "n6">>
MCDbTries == [login |-> 6, names |-> 6, session |-> 4]

MCSmWants == [s1 |-> 0 .. SmMaxRows + 1, s2 |-> {2, SmMaxRows + 1}]
MCSmOrder == <<"s1", "s2">>

MCPlBackoff == <<1>>
=============================================================================

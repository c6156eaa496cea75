------------------------------ MODULE MCEnforce ------------------------------
(***************************************************************************)
(* Where bans and feed entries take effect: the privileged helper with its *)
(* nftables set, Cloudflare lists and zone rules, Bunny and AWS address    *)
(* sets, and the feed refreshers. The five share no state the properties   *)
(* look at, so every behaviour has one of them in focus and leaves the     *)
(* others in a first state of theirs.                                      *)
(***************************************************************************)
EXTENDS EnforcerServer, EdgeLists, EdgeZones, EdgeSets, Feeds

VARIABLE focus   \* the component of this behaviour; never changes

helperVars == vars

enforceVars == <<focus, helperVars, lsVars, ezVars, esVars, fdVars>>

EnforceInit ==
    /\ focus \in {"helper", "lists", "zones", "sets", "feeds"}
    /\ Init /\ LsInit /\ EzInit /\ EsInit /\ FdInit
    /\ focus # "helper" => configured = "default" /\ \A e \in Elem : kernel["default"][e] = Absent
    /\ focus # "lists" => LsPresent = {} /\ ~lsList /\ ~lsRule
    /\ focus # "sets" => \A back \in EsBackends : esRemote[back] = {}
    /\ focus # "feeds" => \A f \in FdFeeds : fdAction[f] = "observe"

EnforceNext ==
    \/ focus = "helper" /\ Next /\ UNCHANGED <<focus, lsVars, ezVars, esVars, fdVars>>
    \/ focus = "lists" /\ LsNext /\ UNCHANGED <<focus, helperVars, ezVars, esVars, fdVars>>
    \/ focus = "zones" /\ EzNext /\ UNCHANGED <<focus, helperVars, lsVars, esVars, fdVars>>
    \/ focus = "sets" /\ EsNext /\ UNCHANGED <<focus, helperVars, lsVars, ezVars, fdVars>>
    \/ focus = "feeds" /\ FdNext /\ UNCHANGED <<focus, helperVars, lsVars, ezVars, esVars>>

\* The fairness of every component's specification, for the one in focus.
HelperFair ==
    /\ \A k \in Conn : WF_helperVars(focus = "helper" /\ VerbStep(k))
    /\ SF_helperVars(focus = "helper" /\ SyncStep)
    /\ WF_helperVars(focus = "helper" /\ SwitchNames(configured))
    /\ WF_helperVars(focus = "helper" /\ Tick)
EdgeFair ==
    /\ WF_lsVars(focus = "lists" /\ LsDebounce) /\ WF_lsVars(focus = "lists" /\ LsSyncPush)
    /\ WF_lsVars(focus = "lists" /\ LsRebuild) /\ WF_lsVars(focus = "lists" /\ LsPush)
    /\ SF_lsVars(focus = "lists" /\ LsFlush)
    /\ WF_lsVars(focus = "lists" /\ (LsDelete \/ LsDeleteFails))
    /\ WF_esVars(focus = "sets" /\ EsBunny) /\ WF_esVars(focus = "sets" /\ EsAws)
    /\ WF_esVars(focus = "sets" /\ EsSync)
FeedsFair ==
    /\ \A f \in FdFeeds : WF_fdVars(focus = "feeds" /\ FdRefresh(f))
    /\ WF_fdVars(focus = "feeds" /\ FdRefresh("demand"))

EnforceSpec == /\ EnforceInit /\ [][EnforceNext]_enforceVars
                /\ HelperFair /\ EdgeFair /\ FeedsFair

\* Whatever fails, is lost or is written by others, the reconcile repairs the
\* edges: the mirror of a Cloudflare list does not stay stale, and Bunny's and
\* AWS' sets come to hold the newest bans of the store.
EdgesHeal == LsMirrorHeals /\ EsConverges
-----------------------------------------------------------------------------
CONSTANTS a1, a2

MCElem == {{a1}, {a1, a2}}
MCWant == {{a1}}

MCFdContent == [f1 |-> <<{"x", "g"}, {"y"}>>, f2 |-> <<{"x", "r"}>>]
MCFdActions == {[f \in {"f1", "f2"} |-> act] : act \in {"block", "observe"}}
=============================================================================

------------------------------ MODULE MCWatch ------------------------------
(***************************************************************************)
(* From a log line to a decision and to the operator's screen: the file    *)
(* tailer, the collectors' supervisor, the windows of the rules, the       *)
(* asynchronous AI layer, the SSH re-check queue, the armed flag and the   *)
(* event stream. The seven share no state the properties look at, so every *)
(* behaviour has one of them in focus and leaves the others in a first     *)
(* state of theirs.                                                        *)
(***************************************************************************)
EXTENDS FileTail, Supervise, Detect, AiLayer, SshPeers, ArmWindow, EventStream

VARIABLE focus   \* the component of this behaviour; never changes

watchVars == <<focus, ftVars, csVars, dtVars, aiVars, spVars, vars, evVars>>

WatchInit ==
    /\ focus \in {"tail", "supervise", "detect", "ai", "ssh", "arm", "events"}
    /\ FtInit /\ CsInit /\ DtInit /\ AiInit /\ SpInit /\ Init /\ EvInit
    /\ focus # "supervise" => csKind = [c \in CsColls |-> "stream"]
    /\ focus # "detect" => dtRules = DtMerged(<<>>)
    /\ focus # "ai" => ~aiChain
    /\ focus # "arm" => ~armed /\ scene.conns = Conn
    /\ focus # "events" => evFace = "watch"

WatchNext ==
    \/ focus = "tail" /\ FtNext /\ UNCHANGED <<focus, csVars, dtVars, aiVars, spVars, vars, evVars>>
    \/ focus = "supervise" /\ CsNext /\ UNCHANGED <<focus, ftVars, dtVars, aiVars, spVars, vars, evVars>>
    \/ focus = "detect" /\ DtNext /\ UNCHANGED <<focus, ftVars, csVars, aiVars, spVars, vars, evVars>>
    \/ focus = "ai" /\ AiNext /\ UNCHANGED <<focus, ftVars, csVars, dtVars, spVars, vars, evVars>>
    \/ focus = "ssh" /\ SpNext /\ UNCHANGED <<focus, ftVars, csVars, dtVars, aiVars, vars, evVars>>
    \/ focus = "arm" /\ Next /\ UNCHANGED <<focus, ftVars, csVars, dtVars, aiVars, spVars, evVars>>
    \/ focus = "events" /\ EvNext /\ UNCHANGED <<focus, ftVars, csVars, dtVars, aiVars, spVars, vars>>

\* The fairness of every component's specification, for the one in focus.
WatchFair ==
    /\ WF_ftVars(focus = "tail" /\ FtCollector)
    /\ \A c \in CsColls : /\ WF_csVars(focus = "supervise" /\ CsStep(c))
                          /\ WF_csVars(focus = "supervise" /\ CsForwards(c))
    /\ WF_csVars(focus = "supervise" /\ CsPipeline)
    /\ WF_csVars(focus = "supervise" /\ CsClose)
    /\ WF_aiVars(focus = "ai" /\ AiWorker) /\ WF_aiVars(focus = "ai" /\ AiPushSignal)
    /\ WF_spVars(focus = "ssh" /\ SpRechecker) /\ WF_spVars(focus = "ssh" /\ SpTick)
    /\ WF_armVars(focus = "arm" /\ CheckStep)
    /\ \A c \in Conn : WF_armVars(focus = "arm" /\ ConnStep(c))
    /\ WF_evVars(focus = "events" /\ EvRestart)
    /\ \A w \in EvWatchers : WF_evVars(focus = "events" /\ evFace = "watch" /\ EvClient(w))

WatchSpec == WatchInit /\ [][WatchNext]_watchVars /\ WatchFair
-----------------------------------------------------------------------------
\* FtCatchesUp for the tailer in focus: after any rotation it ends up reading the
\* whole file at the path (filetail.go, the inotify loop and its re-opens).
TailCatchesUp == <>[](focus # "tail") \/ FtCatchesUp

\* CsLive for the supervisor in focus: sources that come back are read again,
\* sources that stay away are reported, and a shutdown ends (superviseCollector).
SuperviseLive == <>[](focus # "supervise") \/ CsLive
-----------------------------------------------------------------------------
CONSTANTS a, b

MCAiSig == [i \in AiIPs |-> 1]
MCAiKinds == <<"anthropic", "ollama">>

\* One operator with crashes; two operators with deadlines that pass.
MCScenes == { [conns |-> {"c1"}, env |-> {"crash", "tick", "store", "file"}],
              [conns |-> Conn, env |-> {"tick", "time", "store", "file"}] }

MCEvRows == [f \in EvFaces |-> IF f = "watch" THEN 3 ELSE 4]

Rule(n, f, w) == [name |-> n, kinds |-> {"http"}, field |-> f, window |-> w, threshold |-> 2]
MCDtBase == <<Rule("rate", FALSE, 3), Rule("slow", TRUE, 4)>>
MCDtOverlays == { <<>>,
                  << <<Rule("probe", TRUE, 1)>>, <<Rule("slow", FALSE, 4)>> >>,
                  << <<[Rule("rate", TRUE, 3) EXCEPT !.kinds = {}]>> >> }
MCDtTypes == [ip \in DtIPs |-> {[kind |-> "http", hits |-> h] :
                                    h \in IF ip = a THEN {{}, {"probe", "slow"}} ELSE {{}}}]
=============================================================================

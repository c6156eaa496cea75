----------------------------- MODULE ArmWindow -----------------------------
(***************************************************************************)
(* The armed flag and its auto-revert window (internal/daemon/arm.go).     *)
(*   file    `armed` in policy.yaml, what a restart begins with            *)
(*   armed   Policy.armed, what Decide and handleBan read                  *)
(*   window  the arm_window_expires_at row of daemon_state: absent, with a *)
(*           deadline to come ("open") or one that has passed ("past")     *)
(* The verbs run on the goroutine of their connection and checkArmWindow   *)
(* on a ticker ("check"). Each of them reads and writes the three copies   *)
(* in several steps, and no lock makes a unit of them.                     *)
(***************************************************************************)
EXTENDS Naturals, FiniteSets

CONSTANTS
    Conn,     \* goroutines serving a control-socket connection
    Scenes    \* bound: [conns, env], the connections in use and the
              \* environment events of one behaviour

Verbs == {"arm", "arm_for", "keep", "disarm"}

ASSUME ArmAssumption ==
    /\ "check" \notin Conn
    /\ \A s \in Scenes : s.conns \subseteq Conn /\ s.env \subseteq
                                {"crash", "tick", "time", "store", "file"}

VARIABLES
    scene,    \* what this behaviour exercises; never changes
    file, armed, window,
    pc,       \* the program counter of every goroutine
    req,      \* the verb a connection serves, "undo" while it takes it back
    seen      \* the deadline checkArmWindow has read

armVars == <<file, armed, window, pc, req, seen>>
vars == <<scene, armVars>>

Proc == Conn \cup {"check"}

Goto(p, l) == pc' = [pc EXCEPT ![p] = l]

Reply(c) == Goto(c, "idle") /\ req' = [req EXCEPT ![c] = "none"]

\* A write of policy.yaml or of daemon_state may fail.
FileFails  == "file" \in scene.env
StoreFails == "store" \in scene.env
-----------------------------------------------------------------------------
(* The verbs. A request that the pre-flight or its arguments stop changes  *)
(* nothing and is left out.                                                *)

\* handleArm after the pre-flight, handleDisarm.
Request(c, v) ==
    /\ pc[c] = "idle"
    /\ v \in {"arm", "arm_for", "disarm"}
    /\ req' = [req EXCEPT ![c] = v]
    /\ Goto(c, "file")
    /\ UNCHANGED <<file, armed, window, seen>>

Target(c) == req[c] \in {"arm", "arm_for"}

\* setArmedState writes policy.yaml before anything else.
PersistArmed(c) ==
    /\ pc[c] = "file"
    /\ file' = Target(c)
    /\ Goto(c, "flag")
    /\ UNCHANGED <<armed, window, req, seen>>

\* Mutant of PersistFail: the failed write does not stop the flip.
PersistFailGoesOn(c) ==
    /\ FileFails
    /\ pc[c] = "file"
    /\ Goto(c, "flag")
    /\ UNCHANGED <<file, armed, window, req, seen>>

\* policy.yaml cannot be written: an error reply, the flag as it was.
PersistFail(c) ==
    /\ FileFails
    /\ pc[c] = "file"
    /\ Reply(c)
    /\ UNCHANGED <<file, armed, window, seen>>

SetArmed(c) ==
    /\ pc[c] = "flag"
    /\ armed' = Target(c)
    /\ \/ req[c] = "undo" /\ Reply(c)
       \/ req[c] # "undo" /\ Goto(c, "window") /\ UNCHANGED req
    /\ UNCHANGED <<file, window, seen>>

\* The window of `arm --for` is stored; `arm` and `disarm` clear a window.
SetWindow(c) ==
    /\ pc[c] = "window"
    /\ window' = IF req[c] = "arm_for" THEN "open" ELSE "none"
    /\ Reply(c)
    /\ UNCHANGED <<file, armed, seen>>

\* daemon_state cannot be written. handleArm fails closed on a window it
\* cannot store and disarms again; a window that cannot be cleared is only
\* logged.
WindowFail(c) ==
    /\ StoreFails
    /\ pc[c] = "window"
    /\ \/ /\ req[c] = "arm_for"
          /\ req' = [req EXCEPT ![c] = "undo"]
          /\ Goto(c, "file")
       \/ req[c] # "arm_for" /\ Reply(c)
    /\ UNCHANGED <<file, armed, window, seen>>

\* handleArmKeep: armed with a window, or an error reply.
KeepRead(c) ==
    /\ pc[c] = "idle"
    /\ armed /\ window # "none"
    /\ req' = [req EXCEPT ![c] = "keep"]
    /\ Goto(c, "keep")
    /\ UNCHANGED <<file, armed, window, seen>>

KeepDelete(c) ==
    /\ pc[c] = "keep"
    /\ window' = "none" \/ (StoreFails /\ window' = window)
    /\ Reply(c)
    /\ UNCHANGED <<file, armed, seen>>
-----------------------------------------------------------------------------
(* checkArmWindow *)

CheckRead ==
    /\ "tick" \in scene.env
    /\ pc["check"] = "idle"
    /\ window # "none"
    /\ seen' = window
    /\ Goto("check", "check_armed")
    /\ UNCHANGED <<file, armed, window, req>>

\* Mutant of CheckArmed: a deadline that has passed is still waited for.
CheckArmedWaits ==
    /\ pc["check"] = "check_armed"
    /\ \/ ~armed /\ Goto("check", "check_delete") /\ UNCHANGED seen
       \/ armed /\ Goto("check", "idle") /\ seen' = "none"
    /\ UNCHANGED <<file, armed, window, req>>

\* Disarmed, the window is stale; armed, the deadline decides.
CheckArmed ==
    /\ pc["check"] = "check_armed"
    /\ \/ ~armed /\ Goto("check", "check_delete") /\ UNCHANGED seen
       \/ armed /\ seen = "open" /\ Goto("check", "idle") /\ seen' = "none"
       \/ armed /\ seen = "past" /\ Goto("check", "revert_file") /\ UNCHANGED seen
    /\ UNCHANGED <<file, armed, window, req>>

\* The revert happens in memory even if policy.yaml cannot be written.
RevertFile ==
    /\ pc["check"] = "revert_file"
    /\ \/ file' = FALSE
       \/ FileFails /\ file' = file
    /\ Goto("check", "revert_flag")
    /\ UNCHANGED <<armed, window, req, seen>>

RevertFlag ==
    /\ pc["check"] = "revert_flag"
    /\ armed' = FALSE
    /\ Goto("check", "check_delete")
    /\ UNCHANGED <<file, window, req, seen>>

CheckDelete ==
    /\ pc["check"] = "check_delete"
    /\ \/ window' = "none"
       \/ StoreFails /\ window' = window
    /\ seen' = "none"
    /\ Goto("check", "idle")
    /\ UNCHANGED <<file, armed, req>>
-----------------------------------------------------------------------------
DeadlinePasses ==
    /\ "time" \in scene.env
    /\ window = "open"
    /\ window' = "past"
    /\ UNCHANGED <<file, armed, pc, req, seen>>

\* The daemon dies; Run starts with what policy.yaml says and checks the
\* window of daemon_state.
Crash ==
    /\ "crash" \in scene.env
    /\ armed' = file
    /\ pc'   = [p \in Proc |-> "idle"]
    /\ req'  = [c \in Conn |-> "none"]
    /\ seen' = "none"
    /\ UNCHANGED <<file, window>>

Init ==
    /\ scene \in Scenes
    /\ file \in BOOLEAN
    /\ armed = file
    /\ window = "none"
    /\ pc  = [p \in Proc |-> "idle"]
    /\ req = [c \in Conn |-> "none"]
    /\ seen = "none"

ConnStep(c) ==
    \/ PersistArmed(c) \/ PersistFail(c) \/ SetArmed(c)
    \/ SetWindow(c) \/ WindowFail(c) \/ KeepDelete(c)

CheckStep == CheckRead \/ CheckArmed \/ RevertFile \/ RevertFlag \/ CheckDelete

Next ==
    /\ \/ \E c \in scene.conns : \/ \E v \in Verbs : Request(c, v)
                                \/ KeepRead(c)
                                \/ ConnStep(c)
       \/ CheckStep
       \/ DeadlinePasses
       \/ Crash
    /\ UNCHANGED scene

Spec == Init /\ [][Next]_vars

\* The ticker of runArmWindow ticks and a goroutine that runs goes on.
FairSpec == Spec /\ WF_armVars(CheckStep) /\ \A c \in Conn : WF_armVars(ConnStep(c))
-----------------------------------------------------------------------------
\* The flags, the window and the steps have the values the code gives them,
\* and checkArmWindow holds a deadline exactly while it acts on it.
ArmTypeOK ==
    /\ scene \in Scenes
    /\ file \in BOOLEAN /\ armed \in BOOLEAN
    /\ window \in {"none", "open", "past"}
    /\ pc \in [Proc -> {"idle", "file", "flag", "window", "keep", "check_armed",
                        "revert_file", "revert_flag", "check_delete"}]
    /\ req \in [Conn -> Verbs \cup {"none", "undo"}]
    /\ seen \in {"none", "open", "past"}
    /\ (seen = "none") = (pc["check"] = "idle")

Quiet == \A p \in Proc : pc[p] = "idle"

\* arm.go, setArmedState: "a mismatch between file and runtime is worse than
\* a refused command". With one operator at a time and no deadline that runs
\* out (a revert goes on when policy.yaml cannot be written), what a restart
\* would begin with is what the daemon does whenever no verb and no check is
\* running, whatever crashed or failed before.
FileMatchesFlag ==
    (\E c \in Conn : scene.conns = {c}) /\ "time" \notin scene.env /\ Quiet => file = armed

\* checkArmWindow: once the deadline of an armed daemon has passed, the
\* daemon is disarmed or the window confirmed or renewed, even if policy.yaml
\* cannot be written.
Reverts == []<>(~armed \/ window # "past")

\* The armed flag, policy.yaml and the stored window under crashes, failing
\* writes and a check that overlaps the verbs.
ArmInv == ArmTypeOK /\ FileMatchesFlag
=============================================================================

---------------------------- MODULE Watch_proofs ----------------------------
(***************************************************************************)
(* Proofs about components of the daemon that MCWatch checks one at a      *)
(* time: the armed flag with its revert window (ArmWindow), then the event *)
(* streams of `watch` and of the dashboard (EventStream), the supervised   *)
(* collectors with the shutdown (Supervise), the SSH anti-lockout with its *)
(* re-check queue (SshPeers), the file collector's tail (FileTail), and    *)
(* the AI layer (AiLayer).                                                 *)
(*                                                                         *)
(* FileMatchesFlag speaks of quiet states and is not inductive.  Between   *)
(* them policy.yaml runs ahead of the flag exactly while the one           *)
(* connection is between its two writes, and there it holds the state the  *)
(* connection is about to set; the reverting half of checkArmWindow, which *)
(* writes the two in any order of failure, is never entered when no        *)
(* deadline runs out (ArmAhead).                                           *)
(***************************************************************************)
EXTENDS ArmWindow, EventStream, Supervise, SshPeers, FileTail, AiLayer,
        FiniteSetTheorems, WellFoundedInduction, TLAPS

\* One operator and no deadline that runs out.
ArmCalm == (\E c \in Conn : scene.conns = {c}) /\ "time" \notin scene.env

\* The connection between its write of policy.yaml and its write of the flag.
ArmFlipping == \E c \in scene.conns : pc[c] = "flag"

\* Where the file may differ from the flag.
ArmAhead ==
    ArmCalm =>
        /\ window # "past" /\ seen # "past"
        /\ pc["check"] \notin {"revert_file", "revert_flag"}
        /\ \A c \in scene.conns : pc[c] = "flag" => file = Target(c)
        /\ ~ArmFlipping => file = armed

\* The inductive invariant.
ArmIndInv == ArmTypeOK /\ ArmAhead
-----------------------------------------------------------------------------
(* The armed flag. *)

\* The initial state.
LEMMA ArmInitOK == Init => ArmIndInv
<1> SUFFICES ASSUME Init PROVE ArmIndInv
  OBVIOUS
<1>1. ArmTypeOK
  BY Zenon DEF Init, ArmTypeOK, Proc
<1>2. \A c \in scene.conns : pc[c] = "idle"
  BY ArmAssumption DEF Init, Proc
<1>3. ArmAhead
  BY <1>2 DEF Init, ArmAhead, ArmFlipping, Proc
<1> QED
  BY <1>1, <1>3 DEF ArmIndInv

\* A connection only moves its own program counter, and Target is what a verb
\* asks for.
LEMMA ArmConnIs ==
    ASSUME ArmIndInv, NEW c \in scene.conns
    PROVE  /\ c \in Conn /\ c \in Proc /\ "check" \in Proc /\ c # "check"
           /\ Target(c) \in BOOLEAN
           /\ ArmCalm => \A d \in scene.conns : d = c
<1>1. c \in Conn
  BY ArmAssumption DEF ArmIndInv, ArmTypeOK
<1>2. Target(c) \in BOOLEAN
  BY DEF Target
<1> QED
  BY <1>1, <1>2, ArmAssumption DEF Proc, ArmCalm

\* The step of a connection that moves to a place l keeps the types.
LEMMA ArmConnTypes ==
    ASSUME ArmIndInv, NEW c \in scene.conns, scene' = scene, seen' = seen,
           NEW l \in {"idle", "file", "flag", "window", "keep"}, pc' = [pc EXCEPT ![c] = l],
           NEW v \in Verbs \cup {"none", "undo"}, req' = req \/ req' = [req EXCEPT ![c] = v],
           file' \in BOOLEAN, armed' \in BOOLEAN, window' \in {"none", "open", "past"}
    PROVE  ArmTypeOK' /\ pc'["check"] = pc["check"] /\ pc'[c] = l
           /\ \A d \in Proc : d # c => pc'[d] = pc[d]
<1>1. c \in Conn /\ c \in Proc /\ "check" \in Proc /\ c # "check"
  BY ArmConnIs
<1>2. /\ pc' \in [Proc -> {"idle", "file", "flag", "window", "keep", "check_armed",
                           "revert_file", "revert_flag", "check_delete"}]
      /\ pc'["check"] = pc["check"] /\ pc'[c] = l
      /\ \A d \in Proc : d # c => pc'[d] = pc[d]
  BY <1>1 DEF ArmIndInv, ArmTypeOK
<1>3. req' \in [Conn -> Verbs \cup {"none", "undo"}]
  BY <1>1 DEF ArmIndInv, ArmTypeOK
<1>4. /\ scene' \in Scenes /\ seen' \in {"none", "open", "past"}
      /\ (seen' = "none") = (pc'["check"] = "idle")
  BY <1>2, Zenon DEF ArmIndInv, ArmTypeOK
<1> QED
  BY <1>2, <1>3, <1>4, Zenon DEF ArmTypeOK

\* The verbs.
LEMMA ArmConnKeeps ==
    ASSUME ArmIndInv, scene' = scene, NEW c \in scene.conns,
           \/ \E v \in Verbs : Request(c, v)
           \/ KeepRead(c) \/ ConnStep(c)
    PROVE  ArmIndInv'
<1>1. /\ c \in Conn /\ c \in Proc /\ "check" \in Proc /\ c # "check" /\ Target(c) \in BOOLEAN
      /\ ArmCalm => \A d \in scene.conns : d = c
  BY ArmConnIs
<1>2. /\ file \in BOOLEAN /\ armed \in BOOLEAN /\ window \in {"none", "open", "past"}
      /\ req \in [Conn -> Verbs \cup {"none", "undo"}] /\ ArmAhead
      /\ ArmCalm' <=> ArmCalm
  BY Zenon DEF ArmIndInv, ArmTypeOK, ArmCalm
<1>3. ASSUME NEW l \in {"idle", "file", "window", "keep"}, pc' = [pc EXCEPT ![c] = l],
             NEW v \in Verbs \cup {"none", "undo"}, req' = req \/ req' = [req EXCEPT ![c] = v],
             seen' = seen, file' = file, armed' = armed, pc[c] # "flag",
             window' \in {window, "none", "open"}
      PROVE  ArmIndInv'
  <2>1. window' \in {"none", "open", "past"}
    BY <1>2, <1>3
  <2>2. ArmTypeOK' /\ pc'["check"] = pc["check"] /\ pc'[c] = l
    BY <1>2, <1>3, <2>1, ArmConnTypes
  <2>3. ArmAhead'
    <3> SUFFICES ASSUME ArmCalm PROVE /\ window' # "past" /\ seen' # "past"
                                     /\ pc'["check"] \notin {"revert_file", "revert_flag"}
                                     /\ \A d \in scene.conns : pc'[d] # "flag"
                                     /\ file' = armed'
      BY <1>2 DEF ArmAhead, ArmFlipping
    <3>1. \A d \in scene.conns : d = c
      BY <1>1
    <3>2. ~ArmFlipping
      BY <1>3, <3>1 DEF ArmFlipping
    <3> QED
      BY <1>2, <1>3, <2>2, <3>1, <3>2 DEF ArmAhead
  <2> QED
    BY <2>2, <2>3 DEF ArmIndInv
<1>4. CASE \E v \in Verbs : Request(c, v)
  BY <1>3, <1>4 DEF Request, Goto, Verbs
<1>5. CASE KeepRead(c)
  BY <1>3, <1>5 DEF KeepRead, Goto, Verbs
<1>6. CASE PersistArmed(c)
  <2>1. pc' = [pc EXCEPT ![c] = "flag"] /\ UNCHANGED <<armed, window, req, seen>> /\ file' = Target(c)
    BY <1>6 DEF PersistArmed, Goto
  <2>2. ArmTypeOK' /\ pc'["check"] = pc["check"] /\ pc'[c] = "flag"
    BY <1>1, <1>2, <2>1, ArmConnTypes
  <2>3. ArmAhead'
    BY <1>1, <1>2, <2>1, <2>2 DEF ArmAhead, ArmFlipping, Target
  <2> QED
    BY <2>2, <2>3 DEF ArmIndInv
<1>7. CASE SetArmed(c)
  <2>1. /\ pc[c] = "flag" /\ armed' = Target(c) /\ UNCHANGED <<file, window, seen>>
    BY <1>7 DEF SetArmed
  <2>2. PICK l \in {"idle", "window"} : pc' = [pc EXCEPT ![c] = l] /\ (req' = req \/ req' = [req EXCEPT ![c] = "none"])
    BY <1>7 DEF SetArmed, Goto, Reply
  <2>3. ArmTypeOK' /\ pc'["check"] = pc["check"] /\ pc'[c] = l
    BY <1>1, <1>2, <2>1, <2>2, ArmConnTypes
  <2>4. ArmAhead'
    BY <1>1, <1>2, <2>1, <2>2, <2>3 DEF ArmAhead, ArmFlipping
  <2> QED
    BY <2>3, <2>4 DEF ArmIndInv
<1>8. CASE PersistFail(c)
  BY <1>3, <1>8 DEF PersistFail, Goto, Reply
<1>9. CASE SetWindow(c)
  BY <1>3, <1>9 DEF SetWindow, Goto, Reply
<1>10. CASE WindowFail(c)
  BY <1>3, <1>10 DEF WindowFail, Goto, Reply
<1>11. CASE KeepDelete(c)
  BY <1>3, <1>11 DEF KeepDelete, Goto, Reply
<1> QED
  BY <1>4, <1>5, <1>6, <1>7, <1>8, <1>9, <1>10, <1>11 DEF ConnStep

\* checkArmWindow.
LEMMA ArmCheckKeeps ==
    ASSUME ArmIndInv, scene' = scene, CheckStep PROVE ArmIndInv'
<1>1. /\ file \in BOOLEAN /\ armed \in BOOLEAN /\ window \in {"none", "open", "past"}
      /\ req \in [Conn -> Verbs \cup {"none", "undo"}] /\ ArmAhead /\ scene \in Scenes
      /\ seen \in {"none", "open", "past"} /\ "check" \in Proc
      /\ ArmCalm' <=> ArmCalm
  BY Zenon DEF ArmIndInv, ArmTypeOK, ArmCalm, Proc
<1>2. scene.conns \subseteq Proc /\ "check" \notin scene.conns
  BY <1>1, ArmAssumption DEF Proc
<1>3. ASSUME NEW l \in {"idle", "check_armed", "revert_file", "revert_flag", "check_delete"},
             pc' = [pc EXCEPT !["check"] = l], req' = req,
             file' \in BOOLEAN, armed' \in BOOLEAN, window' \in {window, "none"},
             seen' \in {"none", "open", "past"}, (seen' = "none") = (l = "idle"),
             ArmCalm => /\ file' = file /\ armed' = armed /\ seen' # "past"
                        /\ l \notin {"revert_file", "revert_flag"}
      PROVE  ArmIndInv'
  <2>1. /\ pc' \in [Proc -> {"idle", "file", "flag", "window", "keep", "check_armed",
                             "revert_file", "revert_flag", "check_delete"}]
        /\ pc'["check"] = l /\ \A c \in scene.conns : pc'[c] = pc[c]
    BY <1>1, <1>2, <1>3 DEF ArmIndInv, ArmTypeOK
  <2>2. ArmTypeOK'
    <3>1. (seen' = "none") = (pc'["check"] = "idle") /\ req' \in [Conn -> Verbs \cup {"none", "undo"}]
      BY <1>1, <1>3, <2>1, Zenon
    <3>2. window' \in {"none", "open", "past"} /\ scene' \in Scenes
      BY <1>1, <1>3
    <3> QED
      BY <1>3, <2>1, <3>1, <3>2, Zenon DEF ArmTypeOK
  <2>3. ArmAhead'
    BY <1>1, <1>3, <2>1 DEF ArmAhead, ArmFlipping, Target
  <2> QED
    BY <2>2, <2>3 DEF ArmIndInv
<1>4. pc["check"] # "idle" => seen # "none"
  BY DEF ArmIndInv, ArmTypeOK
<1>5. CASE CheckRead
  BY <1>1, <1>3, <1>5 DEF CheckRead, Goto, ArmAhead
<1>6. CASE CheckArmed
  BY <1>1, <1>3, <1>4, <1>6 DEF CheckArmed, Goto, ArmAhead
<1>7. CASE RevertFile
  BY <1>1, <1>3, <1>4, <1>7 DEF RevertFile, Goto, ArmAhead
<1>8. CASE RevertFlag
  BY <1>1, <1>3, <1>4, <1>8 DEF RevertFlag, Goto, ArmAhead
<1>9. CASE CheckDelete
  BY <1>1, <1>3, <1>9 DEF CheckDelete, Goto, ArmAhead
<1> QED
  BY <1>5, <1>6, <1>7, <1>8, <1>9 DEF CheckStep

\* Every step keeps the invariant.
LEMMA ArmStepKeeps == ArmIndInv /\ [Next]_vars => ArmIndInv'
<1> SUFFICES ASSUME ArmIndInv, [Next]_vars PROVE ArmIndInv'
  OBVIOUS
<1>1. CASE /\ scene' = scene
           /\ \E c \in scene.conns : (\E v \in Verbs : Request(c, v)) \/ KeepRead(c) \/ ConnStep(c)
  BY <1>1, ArmConnKeeps
<1>2. CASE scene' = scene /\ CheckStep
  BY <1>2, ArmCheckKeeps
<1>3. CASE scene' = scene /\ DeadlinePasses
  <2>1. ArmTypeOK'
    BY <1>3, Zenon DEF ArmIndInv, ArmTypeOK, DeadlinePasses
  <2>2. ArmAhead'
    BY <1>3 DEF DeadlinePasses, ArmAhead, ArmCalm
  <2> QED
    BY <2>1, <2>2 DEF ArmIndInv
<1>4. CASE scene' = scene /\ Crash
  <2>1. ArmTypeOK'
    BY <1>4, Zenon DEF ArmIndInv, ArmTypeOK, Crash, Proc
  <2>2. scene.conns \subseteq Proc /\ "check" \in Proc
    BY ArmAssumption DEF ArmIndInv, ArmTypeOK, Proc
  <2>3. ArmAhead'
    BY <1>4, <2>2 DEF ArmIndInv, Crash, ArmAhead, ArmCalm, ArmFlipping
  <2> QED
    BY <2>1, <2>3 DEF ArmIndInv
<1>5. CASE UNCHANGED vars
  BY <1>5 DEF vars, armVars, ArmIndInv, ArmTypeOK, ArmAhead, ArmCalm, ArmFlipping, Target
<1> QED
  BY <1>1, <1>2, <1>3, <1>4, <1>5 DEF Next

\* The inductive invariant of the armed flag, for any connections and scenes.
THEOREM ArmInvariant == Spec => []ArmIndInv
  BY ArmInitOK, ArmStepKeeps, PTL DEF Spec

\* policy.yaml says what the daemon does whenever nothing is running, through
\* crashes, failing writes and the undo of `arm --for` (arm.go, setArmedState),
\* and checkArmWindow holds a deadline exactly while it acts on it.
THEOREM ArmFileMatches == Spec => []ArmInv
<1>1. ArmIndInv => ArmInv
  <2> SUFFICES ASSUME ArmIndInv, ArmCalm, Quiet PROVE file = armed
    BY DEF ArmIndInv, ArmInv, FileMatchesFlag, ArmCalm
  <2>1. ~ArmFlipping
    BY ArmAssumption DEF ArmIndInv, ArmTypeOK, ArmFlipping, Quiet, Proc
  <2> QED
    BY <2>1 DEF ArmIndInv, ArmAhead
<1> QED
  BY <1>1, ArmInvariant, PTL

-----------------------------------------------------------------------------
(* The two live views. EvExact is about a channel and what was printed     *)
(* from it; EvNothingSkipped and EvPushedOnce only speak of moments with   *)
(* nothing to broadcast or of queues as they stand, so they need what the  *)
(* poll has fetched but not yet handed out (EvCovered), and that no queue  *)
(* holds a row the bus has not counted (EvTabOK).                          *)

EvCoreOK ==
  /\ evFace \in EvFaces /\ evUp \in BOOLEAN /\ evFaults \in 0 .. EvMaxFaults
  /\ evPub \in Nat /\ evRows \in Nat /\ evOwed \in 0 .. 1

\* Where the clients are; a daemon that is down has no subscriber.
EvLinkOK ==
  /\ evAt \in [EvWatchers -> {"idle", "dialled", "acked", "on", "wait", "exit", "quit"}]
  /\ evBack \in [EvWatchers -> 1 .. EvMaxBack]
  /\ evNow \in [EvWatchers -> BOOLEAN] /\ evOnce \in [EvWatchers -> BOOLEAN]
  /\ ~evUp => \A w \in EvWatchers : evAt[w] # "on"

EvSubsType ==
  /\ evBuf \in [EvWatchers -> Seq(Nat)] /\ evGot \in [EvWatchers -> Seq(Nat)]
  /\ evSince \in [EvWatchers -> Nat] /\ evMissed \in [EvWatchers -> SUBSET Nat]

EvDashType ==
  /\ evLast \in Int /\ evFresh \in Seq(Nat)
  /\ evTab \in [EvTabs -> {"page", "open", "closed"}]
  /\ evQ \in [EvTabs -> Seq(Nat)] /\ evKnown \in [EvTabs -> SUBSET Nat]
  /\ evFrom \in [EvTabs -> Nat] /\ evOver \in [EvTabs -> BOOLEAN]

\* Channels, and what was printed from them, hold published events; no channel outgrows its bound.
EvChannelOK(w) ==
  /\ \A i \in 1 .. Len(evBuf[w]) : evBuf[w][i] \in 1 .. evPub
  /\ \A i \in 1 .. Len(evGot[w]) : evGot[w][i] \in 1 .. evPub
  /\ Len(evBuf[w]) <= EvBuf /\ evSince[w] <= evPub /\ evMissed[w] \subseteq 1 .. evPub
EvChannelsOK == \A w \in EvWatchers : EvChannelOK(w)

\* What the bus counts as seen, and what it still has to broadcast.
EvBusOK ==
  /\ -1 <= evLast /\ evLast <= evRows /\ (evLast = -1 => evFresh = <<>>) /\ EvAscends(evFresh)
  /\ \A i \in 1 .. Len(evFresh) : evFresh[i] \in 1 .. evLast

\* A tab's queue holds counted rows, ascending, and older than those to be broadcast.
EvTabOK(t) ==
  /\ Len(evQ[t]) <= EvQueue /\ (evTab[t] # "open" => evQ[t] = <<>>)
  /\ (evTab[t] = "open" => evLast >= 0)
  /\ \A i \in 1 .. Len(evQ[t]) : evQ[t][i] \in 0 .. evRows /\ evQ[t][i] <= evLast
  /\ \A i, j \in 1 .. Len(evQ[t]) : i < j /\ evQ[t][j] # EvRefresh => evQ[t][i] < evQ[t][j]
  /\ \A i \in 1 .. Len(evQ[t]), n \in 1 .. Len(evFresh) : evQ[t][i] < evFresh[n]
  /\ evKnown[t] \subseteq 1 .. evRows /\ evFrom[t] <= evRows

\* Every row counted since the tab subscribed is shown, queued, about to be broadcast, or
\* covered by a refresh that is queued or about to be broadcast.
EvCovered(t) ==
  evTab[t] = "open" /\ ~evOver[t] =>
    \A r \in evFrom[t] + 1 .. evLast :
      \/ r \in evKnown[t] \/ r \in ToSet(evQ[t]) \/ EvRefresh \in ToSet(evQ[t])
      \/ r \in ToSet(evFresh) \/ Len(evFresh) > EvBurst

EvTabsOK == \A t \in EvTabs : EvTabOK(t) /\ EvCovered(t)
EvWatchOK == EvSubsType /\ EvChannelsOK /\ EvExact
EvDashOK == EvDashType /\ EvBusOK /\ EvTabsOK
EvIndInv == EvCoreOK /\ EvLinkOK /\ EvWatchOK /\ EvDashOK

\* Sequences of numbers: membership, and what Append, Tail and \o do to elements and order.
LEMMA EvSeqIn ==
  ASSUME NEW S, NEW s \in Seq(Nat), \A i \in 1 .. Len(s) : s[i] \in S
  PROVE s \in Seq(S)
  OBVIOUS

LEMMA EvToSetIs ==
  ASSUME NEW s \in Seq(Nat)
  PROVE /\ ToSet(s) = {s[i] : i \in 1 .. Len(s)} /\ ToSet(s) \subseteq Nat
        /\ \A i \in 1 .. Len(s) : s[i] \in ToSet(s)
        /\ \A x \in ToSet(s) : \E i \in 1 .. Len(s) : s[i] = x
  BY DEF ToSet

LEMMA EvAppendIs ==
  ASSUME NEW s \in Seq(Nat), NEW n \in Nat
  PROVE /\ Append(s, n) \in Seq(Nat) /\ Len(Append(s, n)) = Len(s) + 1 /\ Append(s, n)[Len(s) + 1] = n
        /\ \A i \in 1 .. Len(s) : Append(s, n)[i] = s[i]
        /\ \A i \in 1 .. Len(s) + 1 : i \in 1 .. Len(s) \/ i = Len(s) + 1
  OBVIOUS

LEMMA EvTailIs ==
  ASSUME NEW s \in Seq(Nat), s # <<>>
  PROVE /\ Tail(s) \in Seq(Nat) /\ Len(Tail(s)) = Len(s) - 1 /\ Head(s) = s[1] /\ Head(s) \in Nat /\ 1 \in 1 .. Len(s)
        /\ \A i \in 1 .. Len(Tail(s)) : i + 1 \in 1 .. Len(s) /\ Tail(s)[i] = s[i + 1]
        /\ \A i \in 1 .. Len(s) : i = 1 \/ (i - 1 \in 1 .. Len(Tail(s)) /\ Tail(s)[i - 1] = s[i])
  OBVIOUS

LEMMA EvCatIs ==
  ASSUME NEW a \in Seq(Nat), NEW b \in Seq(Nat)
  PROVE /\ a \o b \in Seq(Nat) /\ Len(a \o b) = Len(a) + Len(b)
        /\ \A i \in 1 .. Len(a) : (a \o b)[i] = a[i]
        /\ \A i \in 1 .. Len(b) : (a \o b)[Len(a) + i] = b[i]
        /\ \A i \in 1 .. Len(a) + Len(b) : i \in 1 .. Len(a) \/ i - Len(a) \in 1 .. Len(b)
        /\ \A i \in 1 .. Len(a) + Len(b) : i \notin 1 .. Len(a) => (a \o b)[i] = b[i - Len(a)]
  OBVIOUS

LEMMA EvSeqEqual ==
  ASSUME NEW a \in Seq(Nat), NEW b \in Seq(Nat), Len(a) = Len(b), \A i \in 1 .. Len(a) : a[i] = b[i]
  PROVE a = b
  OBVIOUS

\* Printing the head of the channel moves the border between the two and nothing else.
LEMMA EvCatShift ==
  ASSUME NEW a \in Seq(Nat), NEW b \in Seq(Nat), b # <<>>
  PROVE Append(a, Head(b)) \o Tail(b) = a \o b
<1>1. /\ Head(b) \in Nat /\ Head(b) = b[1] /\ Tail(b) \in Seq(Nat) /\ Len(Tail(b)) = Len(b) - 1
      /\ \A i \in 1 .. Len(Tail(b)) : Tail(b)[i] = b[i + 1]
  BY EvTailIs
<1> DEFINE h == Head(b)
           t == Tail(b)
           ah == Append(a, h)
<1>2. ah \in Seq(Nat) /\ Len(ah) = Len(a) + 1 /\ ah[Len(a) + 1] = h /\ \A i \in 1 .. Len(a) : ah[i] = a[i]
  BY <1>1, EvAppendIs
<1>3. Len(a) \in Nat /\ Len(b) \in Nat /\ t \in Seq(Nat) /\ Len(t) = Len(b) - 1
  BY <1>1
<1> HIDE DEF h, t, ah
<1>4. ah \o t \in Seq(Nat) /\ a \o b \in Seq(Nat) /\ Len(ah \o t) = Len(a) + Len(b) /\ Len(a \o b) = Len(a) + Len(b)
  <2>1. ah \o t \in Seq(Nat) /\ Len(ah \o t) = Len(ah) + Len(t)
    BY <1>2, <1>3, EvCatIs
  <2>2. a \o b \in Seq(Nat) /\ Len(a \o b) = Len(a) + Len(b)
    BY EvCatIs
  <2>3. Len(ah) + Len(t) = Len(a) + Len(b)
    BY <1>2, <1>3
  <2> QED BY <2>1, <2>2, <2>3
<1>5. ASSUME NEW i \in 1 .. Len(a) + Len(b) PROVE (ah \o t)[i] = (a \o b)[i]
  <2>1. CASE i \in 1 .. Len(a)
    <3>1. i \in 1 .. Len(ah)
      BY <2>1, <1>2, <1>3
    <3> QED BY <2>1, <3>1, <1>2, <1>3, EvCatIs
  <2>2. CASE i = Len(a) + 1
    <3>1. i \in 1 .. Len(ah) /\ 1 \in 1 .. Len(b) /\ i = Len(a) + 1
      BY <2>2, <1>2, <1>3
    <3>2. (ah \o t)[i] = h
      BY <3>1, <1>2, <1>3, EvCatIs
    <3>3. (a \o b)[i] = b[1]
      BY <3>1, EvCatIs
    <3> QED BY <3>2, <3>3, <1>1 DEF h
  <2>3. CASE i > Len(a) + 1
    <3> DEFINE m == i - Len(a) - 1
    <3>1. m \in 1 .. Len(t) /\ m + 1 \in 1 .. Len(b) /\ i = Len(ah) + m /\ i = Len(a) + (m + 1)
      BY <2>3, <1>2, <1>3
    <3> HIDE DEF m
    <3>2. (ah \o t)[i] = t[m]
      <4>1. (ah \o t)[Len(ah) + m] = t[m]
        BY <3>1, <1>2, <1>3, EvCatIs
      <4> QED BY <3>1, <4>1
    <3>3. (a \o b)[i] = b[m + 1]
      BY <3>1, EvCatIs
    <3> QED BY <3>1, <3>2, <3>3, <1>1 DEF t
  <2>4. i \in 1 .. Len(a) \/ i = Len(a) + 1 \/ i > Len(a) + 1
    BY <1>3
  <2> QED BY <2>1, <2>2, <2>3, <2>4
<1>6. ah \o t = a \o b
  BY <1>4, <1>5, EvSeqEqual
<1> QED BY <1>6 DEF ah, h, t

\* An event put into the channel comes after everything seen.
LEMMA EvCatAppend ==
  ASSUME NEW a \in Seq(Nat), NEW b \in Seq(Nat), NEW n \in Nat
  PROVE a \o Append(b, n) = Append(a \o b, n)
<1> DEFINE bn == Append(b, n)
           ab == a \o b
<1>1. bn \in Seq(Nat) /\ Len(bn) = Len(b) + 1 /\ bn[Len(b) + 1] = n /\ \A i \in 1 .. Len(b) : bn[i] = b[i]
  BY EvAppendIs
<1>2. Len(a) \in Nat /\ Len(b) \in Nat /\ ab \in Seq(Nat) /\ Len(ab) = Len(a) + Len(b)
  BY EvCatIs
<1>3. Append(ab, n) \in Seq(Nat) /\ Len(Append(ab, n)) = Len(a) + Len(b) + 1 /\ Append(ab, n)[Len(a) + Len(b) + 1] = n
      /\ \A i \in 1 .. Len(a) + Len(b) : Append(ab, n)[i] = ab[i]
  BY <1>2, EvAppendIs
<1> HIDE DEF bn
<1>4. a \o bn \in Seq(Nat) /\ Len(a \o bn) = Len(a) + Len(b) + 1
  <2>1. a \o bn \in Seq(Nat) /\ Len(a \o bn) = Len(a) + Len(bn)
    BY <1>1, EvCatIs
  <2> QED BY <2>1, <1>1, <1>2
<1>5. ASSUME NEW i \in 1 .. Len(a) + Len(b) + 1 PROVE (a \o bn)[i] = Append(ab, n)[i]
  <2>1. CASE i \in 1 .. Len(a)
    BY <2>1, <1>1, <1>2, <1>3, EvCatIs
  <2>2. CASE i \notin 1 .. Len(a) /\ i # Len(a) + Len(b) + 1
    <3> DEFINE m == i - Len(a)
    <3>1. m \in 1 .. Len(b) /\ m \in 1 .. Len(bn) /\ i = Len(a) + m /\ i \in 1 .. Len(a) + Len(b)
      <4>1. Len(a) \in Nat /\ Len(b) \in Nat /\ Len(bn) = Len(b) + 1
        BY <1>1, <1>2
      <4>2. i \in Int /\ Len(a) < i /\ i <= Len(a) + Len(b)
        BY <2>2, <4>1
      <4> QED BY <4>1, <4>2
    <3> HIDE DEF m
    <3>2. (a \o bn)[i] = bn[m]
      BY <3>1, <1>1, EvCatIs
    <3>3. ab[i] = b[m]
      BY <3>1, EvCatIs
    <3> QED BY <3>1, <3>2, <3>3, <1>1, <1>3
  <2>3. CASE i = Len(a) + Len(b) + 1
    <3>1. Len(b) + 1 \in 1 .. Len(bn) /\ i = Len(a) + (Len(b) + 1)
      BY <2>3, <1>1, <1>2
    <3>2. (a \o bn)[i] = bn[Len(b) + 1]
      BY <3>1, <1>1, EvCatIs
    <3> QED BY <2>3, <3>2, <1>1, <1>3
  <2> QED BY <2>1, <2>2, <2>3
<1>6. a \o bn = Append(ab, n)
  BY <1>3, <1>4, <1>5, EvSeqEqual
<1> QED BY <1>6 DEF bn, ab

LEMMA EvGrows ==
  ASSUME NEW s \in Seq(Nat), EvAscends(s), NEW n \in Nat, \A x \in ToSet(s) : x < n
  PROVE EvAscends(Append(s, n)) /\ ToSet(Append(s, n)) = ToSet(s) \cup {n}
<1> DEFINE sn == Append(s, n)
<1>1. /\ sn \in Seq(Nat) /\ Len(sn) = Len(s) + 1 /\ sn[Len(s) + 1] = n /\ Len(s) \in Nat
      /\ \A i \in 1 .. Len(s) : sn[i] = s[i]
      /\ \A i \in 1 .. Len(s) + 1 : i \in 1 .. Len(s) \/ i = Len(s) + 1
  BY EvAppendIs
<1> HIDE DEF sn
<1>2. EvAscends(sn)
  <2> SUFFICES ASSUME NEW i \in 1 .. Len(sn), NEW j \in 1 .. Len(sn), i < j PROVE sn[i] < sn[j]
    BY DEF EvAscends
  <2>1. i \in 1 .. Len(s)
    BY <1>1
  <2>2. CASE j \in 1 .. Len(s)
    BY <2>1, <2>2, <1>1 DEF EvAscends
  <2>3. CASE j = Len(s) + 1
    BY <2>1, <2>3, <1>1, EvToSetIs
  <2> QED BY <2>2, <2>3, <1>1
<1>3. ToSet(sn) = ToSet(s) \cup {n}
  <2>1. ToSet(sn) = {sn[i] : i \in 1 .. Len(sn)} /\ ToSet(s) = {s[i] : i \in 1 .. Len(s)}
    BY <1>1, EvToSetIs
  <2>2. Len(s) + 1 \in 1 .. Len(sn) /\ \A i \in 1 .. Len(s) : i \in 1 .. Len(sn)
    BY <1>1
  <2> QED BY <2>1, <2>2, <1>1
<1> QED BY <1>2, <1>3 DEF sn

-----------------------------------------------------------------------------
(* Steps that leave one of the views alone.                                *)

\* No client becomes a subscriber and no channel changes.
LEMMA EvWatchStays ==
  ASSUME EvWatchOK, UNCHANGED <<evPub, evBuf, evGot, evSince, evMissed>>,
         \A w \in EvWatchers : evAt'[w] = "on" /\ evUp' => evAt[w] = "on" /\ evUp
  PROVE EvWatchOK'
<1>1. EvSubsType' /\ EvChannelsOK'
  BY DEF EvWatchOK, EvSubsType, EvChannelsOK, EvChannelOK
<1>2. EvExact'
  BY DEF EvWatchOK, EvExact, EvAscends, ToSet
<1> QED BY <1>1, <1>2 DEF EvWatchOK

\* Rows may be added.
LEMMA EvDashStays ==
  ASSUME EvDashOK, evRows \in Nat, evRows' \in Nat, evRows <= evRows',
         UNCHANGED <<evLast, evFresh, evTab, evQ, evKnown, evFrom, evOver>>
  PROVE EvDashOK'
<1>1. EvDashType'
  BY DEF EvDashOK, EvDashType
<1>2. EvBusOK'
  BY DEF EvDashOK, EvDashType, EvBusOK, EvAscends
<1>3. ASSUME NEW t \in EvTabs PROVE EvTabOK(t)' /\ EvCovered(t)'
  <2>1. EvTabOK(t) /\ EvCovered(t) /\ evQ[t] \in Seq(Nat) /\ evFrom[t] \in Nat
    BY DEF EvDashOK, EvTabsOK, EvDashType
  <2>2. EvCovered(t)'
    BY <2>1 DEF EvCovered, ToSet
  <2>3. \A i \in 1 .. Len(evQ[t]) : evQ[t][i] \in 0 .. evRows'
    BY <2>1 DEF EvTabOK
  <2>4. evKnown[t] \subseteq 1 .. evRows' /\ evFrom[t] <= evRows'
    BY <2>1 DEF EvTabOK
  <2>5. EvTabOK(t)'
    BY <2>1, <2>3, <2>4 DEF EvTabOK
  <2> QED BY <2>2, <2>5
<1> QED BY <1>1, <1>2, <1>3 DEF EvDashOK, EvTabsOK

-----------------------------------------------------------------------------
(* The bus of the daemon and the watch clients.                            *)

\* Publishing costs a full channel the event, and nobody else anything.
LEMMA EvPublishKeeps ==
  ASSUME EvCoreOK, EvLinkOK, EvWatchOK, EvPublish, UNCHANGED <<evUp, evAt>>
  PROVE EvWatchOK'
<1> DEFINE n == evPub + 1
<1>1. /\ n \in Nat /\ evPub \in Nat /\ evPub' = n /\ UNCHANGED <<evGot, evSince>>
      /\ EvBuf \in Nat
  BY EvConstants DEF EvPublish, EvCoreOK
<1>2. ASSUME NEW w \in EvWatchers
      PROVE /\ evBuf'[w] = IF EvTakes(w) THEN Append(evBuf[w], n) ELSE evBuf[w]
            /\ evMissed'[w] = IF EvSubscribed(w) /\ EvFull(w) THEN evMissed[w] \cup {n} ELSE evMissed[w]
  BY DEF EvPublish, EvWatchOK, EvSubsType
<1>3. ASSUME NEW w \in EvWatchers
      PROVE /\ evBuf[w] \in Seq(Nat) /\ evGot[w] \in Seq(Nat) /\ Len(evBuf[w]) \in Nat /\ Append(evBuf[w], n) \in Seq(Nat)
            /\ Len(Append(evBuf[w], n)) = Len(evBuf[w]) + 1
            /\ evMissed[w] \subseteq 1 .. evPub /\ evSince[w] \in Nat /\ evSince[w] <= evPub
            /\ \A i \in 1 .. Len(evBuf[w]) : evBuf[w][i] \in 1 .. evPub
            /\ \A i \in 1 .. Len(evGot[w]) : evGot[w][i] \in 1 .. evPub
            /\ Len(evBuf[w]) <= EvBuf
  <2>1. /\ evBuf[w] \in Seq(Nat) /\ evGot[w] \in Seq(Nat) /\ evSince[w] \in Nat
    BY DEF EvWatchOK, EvSubsType
  <2>2. Len(evBuf[w]) \in Nat /\ Append(evBuf[w], n) \in Seq(Nat) /\ Len(Append(evBuf[w], n)) = Len(evBuf[w]) + 1
    BY <2>1, <1>1, EvAppendIs
  <2> QED BY <2>1, <2>2 DEF EvWatchOK, EvChannelsOK, EvChannelOK
<1> HIDE DEF n
<1>4. EvSubsType'
  <2>1. DOMAIN evBuf' = EvWatchers /\ DOMAIN evMissed' = EvWatchers
        /\ evBuf' = [w \in EvWatchers |-> evBuf'[w]] /\ evMissed' = [w \in EvWatchers |-> evMissed'[w]]
    BY DEF EvPublish
  <2>2. ASSUME NEW w \in EvWatchers PROVE evBuf'[w] \in Seq(Nat) /\ evMissed'[w] \in SUBSET Nat
    <3>1. evBuf'[w] \in Seq(Nat)
      <4>1. evBuf'[w] = Append(evBuf[w], n) \/ evBuf'[w] = evBuf[w]
        BY <1>2
      <4> QED BY <4>1, <1>3
    <3>2. evMissed'[w] \subseteq Nat
      <4>1. evMissed'[w] \subseteq evMissed[w] \cup {n} /\ evMissed[w] \subseteq 1 .. evPub
        BY <1>2, <1>3
      <4> QED BY <4>1, <1>1
    <3> QED BY <3>1, <3>2
  <2> QED BY <2>1, <2>2, <1>1 DEF EvWatchOK, EvSubsType
<1>5. ASSUME NEW w \in EvWatchers PROVE EvChannelOK(w)'
  <2>1. 1 .. evPub \subseteq 1 .. n /\ n \in 1 .. n
    BY <1>1 DEF n
  <2>2. \A i \in 1 .. Len(evGot'[w]) : evGot'[w][i] \in 1 .. evPub'
    BY <1>1, <1>3, <2>1
  <2>3. evSince'[w] <= evPub' /\ evMissed'[w] \subseteq 1 .. evPub'
    <3>1. evSince[w] <= n
      BY <1>1, <1>3 DEF n
    <3> QED BY <1>1, <1>2, <1>3, <2>1, <3>1
  <2>4. (\A i \in 1 .. Len(evBuf'[w]) : evBuf'[w][i] \in 1 .. evPub') /\ Len(evBuf'[w]) <= EvBuf
    <3>1. CASE EvTakes(w)
      <4>1. evBuf'[w] = Append(evBuf[w], n) /\ ~(Len(evBuf[w]) >= EvBuf)
        BY <3>1, <1>2 DEF EvTakes, EvFull
      <4>2. Len(evBuf'[w]) = Len(evBuf[w]) + 1 /\ Len(evBuf'[w]) <= EvBuf
        BY <4>1, <1>1, <1>3
      <4>3. ASSUME NEW i \in 1 .. Len(evBuf[w]) + 1 PROVE evBuf'[w][i] \in 1 .. n
        <5>1. evBuf[w] \in Seq(Nat) /\ \A k \in 1 .. Len(evBuf[w]) : evBuf[w][k] \in 1 .. evPub
          BY <1>3
        <5>2. i \in 1 .. Len(evBuf[w]) => evBuf'[w][i] = evBuf[w][i]
          BY <4>1, <5>1, <1>1, EvAppendIs
        <5>3. i \in 1 .. Len(evBuf[w]) \/ evBuf'[w][i] = n
          BY <4>1, <5>1, <1>1, EvAppendIs
        <5> QED BY <5>1, <5>2, <5>3, <2>1
      <4> QED BY <4>2, <4>3, <1>1
    <3>2. CASE ~EvTakes(w)
      BY <3>2, <1>1, <1>2, <1>3, <2>1
    <3> QED BY <3>1, <3>2
  <2> QED BY <2>2, <2>3, <2>4 DEF EvChannelOK
<1>6. EvExact'
  <2> SUFFICES ASSUME NEW w \in EvWatchers, evAt[w] = "on", evUp
               PROVE /\ EvAscends((evGot[w] \o evBuf[w])')
                     /\ ToSet((evGot[w] \o evBuf[w])') = (evSince[w] + 1 .. n) \ evMissed'[w]
    BY <1>1 DEF EvExact, EvAscends
  <2> DEFINE shown == evGot[w] \o evBuf[w]
  <2>1. EvAscends(shown) /\ ToSet(shown) = (evSince[w] + 1 .. evPub) \ evMissed[w]
    BY DEF EvWatchOK, EvExact
  <2>2. shown \in Seq(Nat)
    BY <1>3, EvCatIs
  <2>3. evSince[w] + 1 .. n = (evSince[w] + 1 .. evPub) \cup {n} /\ n \notin evMissed[w]
    BY <1>1, <1>3 DEF n
  <2>4. \A x \in ToSet(shown) : x < n
    BY <2>1, <1>1, <1>3 DEF n
  <2>5. CASE EvTakes(w)
    <3>1. evBuf'[w] = Append(evBuf[w], n) /\ evMissed'[w] = evMissed[w]
      BY <2>5, <1>2 DEF EvTakes
    <3>2. evGot'[w] \o evBuf'[w] = Append(shown, n)
      <4>1. evGot[w] \in Seq(Nat) /\ evBuf[w] \in Seq(Nat) /\ n \in Nat /\ evGot'[w] = evGot[w]
        BY <1>1, <1>3
      <4>2. evGot[w] \o Append(evBuf[w], n) = Append(evGot[w] \o evBuf[w], n)
        BY <4>1, EvCatAppend
      <4> QED BY <3>1, <4>1, <4>2
    <3> HIDE DEF shown
    <3>3. EvAscends(Append(shown, n)) /\ ToSet(Append(shown, n)) = ToSet(shown) \cup {n}
      BY <2>1, <2>2, <2>4, <1>1, EvGrows
    <3> QED BY <3>1, <3>2, <3>3, <2>1, <2>3
  <2>6. CASE ~EvTakes(w)
    <3>1. evBuf'[w] = evBuf[w] /\ evMissed'[w] = evMissed[w] \cup {n}
      BY <2>6, <1>2 DEF EvTakes, EvSubscribed
    <3>2. (evGot[w] \o evBuf[w])' = shown
      BY <3>1, <1>1
    <3> HIDE DEF shown
    <3>3. (evSince[w] + 1 .. n) \ evMissed'[w] = (evSince[w] + 1 .. evPub) \ evMissed[w]
      <4>1. n \notin evSince[w] + 1 .. evPub
        BY <1>1, <1>3 DEF n
      <4> QED BY <3>1, <2>3, <4>1
    <3> QED BY <3>2, <3>3, <2>1
  <2> QED BY <2>5, <2>6
<1> QED BY <1>4, <1>5, <1>6 DEF EvWatchOK, EvChannelsOK

LEMMA EvActKeeps ==
  ASSUME EvIndInv, EvAction \/ EvCommand
  PROVE EvIndInv'
<1>1. /\ EvPublish /\ evRows' = evRows + 1 /\ evOwed' \in {0, 1, evOwed} /\ evPub' = evPub + 1
      /\ UNCHANGED <<evFace, evUp, evFaults, evAt, evBack, evNow, evOnce, evLast, evFresh, evTab, evQ, evKnown, evFrom, evOver>>
  BY DEF EvAction, EvCommand, EvPublish, evLink, evBus, evPage
<1>2. EvCoreOK' /\ evRows \in Nat /\ evRows' \in Nat /\ evRows <= evRows'
  BY <1>1 DEF EvIndInv, EvCoreOK
<1>3. EvLinkOK'
  BY <1>1 DEF EvIndInv, EvLinkOK
<1>4. EvWatchOK'
  BY <1>1, EvPublishKeeps DEF EvIndInv
<1>5. EvDashOK'
  BY <1>1, <1>2, EvDashStays DEF EvIndInv
<1> QED BY <1>2, <1>3, <1>4, <1>5 DEF EvIndInv

\* Rows without an event; the daemon goes down and comes back.
LEMMA EvCoreKeeps ==
  ASSUME EvIndInv, EvAttribute \/ EvRefused \/ EvCrash \/ EvRestart
  PROVE EvIndInv'
<1>1. UNCHANGED <<evFace, evPub, evBack, evNow, evOnce, evBuf, evGot, evSince, evMissed, evLast, evFresh, evTab, evQ,
                  evKnown, evFrom, evOver>>
  BY DEF EvAttribute, EvRefused, EvCrash, EvRestart, evLink, evSubs, evBus, evPage
<1>2. evRows \in Nat /\ evRows' \in Nat /\ evRows <= evRows' /\ EvCoreOK'
  <2>1. evRows \in Nat /\ evFaults \in 0 .. EvMaxFaults /\ evOwed \in 0 .. 1 /\ EvMaxFaults \in Nat /\ evUp \in BOOLEAN
    BY EvConstants DEF EvIndInv, EvCoreOK
  <2>2. evRows' \in {evRows, evRows + 1}
    BY DEF EvAttribute, EvRefused, EvCrash, EvRestart
  <2>3. evFaults' \in 0 .. EvMaxFaults /\ evOwed' \in 0 .. 1
    BY <2>1 DEF EvAttribute, EvRefused, EvCrash, EvRestart
  <2>4. evUp' \in BOOLEAN
    BY <2>1 DEF EvAttribute, EvRefused, EvCrash, EvRestart
  <2>5. evRows' \in Nat /\ evRows <= evRows'
    BY <2>1, <2>2
  <2> QED BY <1>1, <2>1, <2>3, <2>4, <2>5 DEF EvIndInv, EvCoreOK
<1>3. EvLinkOK' /\ \A w \in EvWatchers : evAt'[w] = "on" /\ evUp' => evAt[w] = "on" /\ evUp
  <2>1. CASE EvCrash
    <3>1. ASSUME NEW w \in EvWatchers
          PROVE evAt'[w] \in {"idle", "dialled", "acked", "on", "wait", "exit", "quit"} /\ evAt'[w] # "on"
      BY <2>1 DEF EvCrash, EvAfterLoss, EvIndInv, EvLinkOK
    <3>2. evAt' \in [EvWatchers -> {"idle", "dialled", "acked", "on", "wait", "exit", "quit"}]
      <4>1. evAt' = [w \in EvWatchers |-> evAt'[w]]
        BY <2>1 DEF EvCrash
      <4> QED BY <3>1, <4>1
    <3> QED BY <3>1, <3>2, <1>1 DEF EvIndInv, EvLinkOK
  <2>2. CASE EvAttribute \/ EvRefused \/ EvRestart
    BY <2>2, <1>1 DEF EvAttribute, EvRefused, EvRestart, evLink, EvIndInv, EvLinkOK
  <2> QED BY <2>1, <2>2
<1>4. EvWatchOK'
  BY <1>1, <1>3, EvWatchStays DEF EvIndInv
<1>5. EvDashOK'
  BY <1>1, <1>2, EvDashStays DEF EvIndInv
<1> QED BY <1>2, <1>3, <1>4, <1>5 DEF EvIndInv

\* A client dials, is acknowledged, waits, retries or leaves: no channel is touched.
LEMMA EvLinkKeeps ==
  ASSUME EvIndInv, NEW w \in EvWatchers,
         EvDial(w) \/ EvDialRefused(w) \/ EvAck(w) \/ EvStall(w) \/ EvRetry(w) \/ EvInterrupt(w)
  PROVE EvIndInv'
<1>1. UNCHANGED <<evFace, evUp, evPub, evRows, evOwed, evBuf, evGot, evSince, evMissed, evLast, evFresh, evTab, evQ,
                  evKnown, evFrom, evOver>>
  BY DEF EvDial, EvDialRefused, EvAck, EvStall, EvRetry, EvInterrupt, evCore, evSubs, evBus, evPage
<1>2. EvCoreOK'
  <2>1. evFaults' \in 0 .. EvMaxFaults
    BY EvConstants DEF EvDial, EvDialRefused, EvAck, EvStall, EvRetry, EvInterrupt, evCore, EvIndInv, EvCoreOK
  <2> QED BY <1>1, <2>1 DEF EvIndInv, EvCoreOK
<1>3. PICK x \in {"idle", "dialled", "acked", "wait", "exit", "quit"} : evAt' = [evAt EXCEPT ![w] = x]
  BY DEF EvDial, EvDialRefused, EvAck, EvStall, EvRetry, EvInterrupt, EvAfterLoss
<1>4. /\ evAt' \in [EvWatchers -> {"idle", "dialled", "acked", "on", "wait", "exit", "quit"}]
      /\ \A v \in EvWatchers : evAt'[v] = "on" => evAt[v] = "on"
  BY <1>3 DEF EvIndInv, EvLinkOK
<1>5. evBack' \in [EvWatchers -> 1 .. EvMaxBack]
  <2>1. evBack \in [EvWatchers -> 1 .. EvMaxBack] /\ EvMaxBack \in Nat \ {0}
    BY EvConstants DEF EvIndInv, EvLinkOK
  <2>2. CASE EvRetry(w)
    <3> DEFINE b == IF evNow[w] THEN evBack[w] ELSE IF 2 * evBack[w] > EvMaxBack THEN EvMaxBack ELSE 2 * evBack[w]
    <3>1. evBack' = [evBack EXCEPT ![w] = b]
      BY <2>2 DEF EvRetry
    <3>2. evBack[w] \in 1 .. EvMaxBack
      BY <2>1
    <3>3. b \in 1 .. EvMaxBack
      BY <2>1, <3>2
    <3> HIDE DEF b
    <3> QED BY <2>1, <3>1, <3>3
  <2>3. CASE EvAck(w)
    <3>1. evBack' = [evBack EXCEPT ![w] = 1] /\ 1 \in 1 .. EvMaxBack
      BY <2>1, <2>3 DEF EvAck
    <3> QED BY <2>1, <3>1
  <2> QED BY <2>1, <2>2, <2>3 DEF EvDial, EvDialRefused, EvStall, EvInterrupt
<1>6. evNow' \in [EvWatchers -> BOOLEAN] /\ evOnce' \in [EvWatchers -> BOOLEAN]
  BY DEF EvDial, EvDialRefused, EvAck, EvStall, EvRetry, EvInterrupt, EvIndInv, EvLinkOK
<1>7. EvLinkOK'
  BY <1>1, <1>4, <1>5, <1>6 DEF EvIndInv, EvLinkOK
<1>8. EvWatchOK'
  BY <1>1, <1>4, EvWatchStays DEF EvIndInv
<1>9. EvDashOK'
  <2>1. evRows \in Nat /\ evRows' \in Nat /\ evRows <= evRows'
    BY <1>1 DEF EvIndInv, EvCoreOK
  <2> QED BY <1>1, <2>1, EvDashStays DEF EvIndInv
<1> QED BY <1>2, <1>7, <1>8, <1>9 DEF EvIndInv

\* A client registers with an empty channel and nothing printed.
LEMMA EvRegisterKeeps ==
  ASSUME EvIndInv, NEW w \in EvWatchers, EvRegister(w)
  PROVE EvIndInv'
<1>1. /\ evUp /\ evAt' = [evAt EXCEPT ![w] = "on"] /\ evSince' = [evSince EXCEPT ![w] = evPub]
      /\ evBuf' = [evBuf EXCEPT ![w] = <<>>] /\ evGot' = [evGot EXCEPT ![w] = <<>>] /\ evMissed' = [evMissed EXCEPT ![w] = {}]
      /\ UNCHANGED <<evFace, evUp, evFaults, evPub, evRows, evOwed, evBack, evNow, evOnce, evLast, evFresh, evTab, evQ, evKnown,
                     evFrom, evOver>>
  BY DEF EvRegister, evCore, evBus, evPage
<1>2. EvCoreOK' /\ EvLinkOK'
  BY <1>1 DEF EvIndInv, EvCoreOK, EvLinkOK
<1>3. EvSubsType'
  BY <1>1 DEF EvIndInv, EvCoreOK, EvWatchOK, EvSubsType
<1>4. /\ evBuf'[w] = <<>> /\ evGot'[w] = <<>> /\ evSince'[w] = evPub /\ evMissed'[w] = {}
      /\ \A v \in EvWatchers \ {w} : evAt'[v] = evAt[v] /\ evBuf'[v] = evBuf[v] /\ evGot'[v] = evGot[v]
                                     /\ evSince'[v] = evSince[v] /\ evMissed'[v] = evMissed[v]
  BY <1>1 DEF EvIndInv, EvLinkOK, EvWatchOK, EvSubsType
<1>5. ASSUME NEW v \in EvWatchers PROVE EvChannelOK(v)'
  <2>1. CASE v = w
    <3>1. EvBuf \in Nat /\ evPub \in Nat /\ Len(<<>>) = 0
      BY EvConstants DEF EvIndInv, EvCoreOK
    <3> QED BY <2>1, <3>1, <1>1, <1>4 DEF EvChannelOK
  <2>2. CASE v # w
    BY <2>2, <1>1, <1>4 DEF EvIndInv, EvWatchOK, EvChannelsOK, EvChannelOK
  <2> QED BY <2>1, <2>2
<1>6. EvExact'
  <2> SUFFICES ASSUME NEW v \in EvWatchers, evAt'[v] = "on"
               PROVE /\ EvAscends(evGot'[v] \o evBuf'[v])
                     /\ ToSet(evGot'[v] \o evBuf'[v]) = (evSince'[v] + 1 .. evPub) \ evMissed'[v]
    BY <1>1 DEF EvExact, EvAscends
  <2>1. CASE v = w
    <3>1. evGot'[v] \o evBuf'[v] = <<>>
      BY <2>1, <1>4
    <3>2. evPub + 1 .. evPub = {} /\ ToSet(<<>>) = {} /\ EvAscends(<<>>)
      BY DEF EvIndInv, EvCoreOK, ToSet, EvAscends
    <3> QED BY <2>1, <3>1, <3>2, <1>4
  <2>2. CASE v # w
    BY <2>2, <1>1, <1>4 DEF EvIndInv, EvWatchOK, EvExact
  <2> QED BY <2>1, <2>2
<1>7. EvDashOK'
  <2>1. evRows \in Nat /\ evRows' \in Nat /\ evRows <= evRows'
    BY <1>1 DEF EvIndInv, EvCoreOK
  <2> QED BY <1>1, <2>1, EvDashStays DEF EvIndInv
<1> QED BY <1>2, <1>3, <1>5, <1>6, <1>7 DEF EvIndInv, EvWatchOK, EvChannelsOK

\* The connection's goroutine writes out the head of the channel.
LEMMA EvSendKeeps ==
  ASSUME EvIndInv, NEW w \in EvWatchers, EvSend(w)
  PROVE EvIndInv'
<1> DEFINE b == evBuf[w]
           g == evGot[w]
<1>1. /\ b # <<>> /\ evBuf' = [evBuf EXCEPT ![w] = Tail(b)] /\ evGot' = [evGot EXCEPT ![w] = Append(g, Head(b))]
      /\ UNCHANGED <<evFace, evUp, evFaults, evPub, evRows, evOwed, evAt, evBack, evNow, evOnce, evSince, evMissed, evLast,
                     evFresh, evTab, evQ, evKnown, evFrom, evOver>>
  BY DEF EvSend, evCore, evLink, evBus, evPage
<1>2. EvCoreOK' /\ EvLinkOK'
  BY <1>1 DEF EvIndInv, EvCoreOK, EvLinkOK
<1>3. b \in Seq(Nat) /\ g \in Seq(Nat)
  BY DEF EvIndInv, EvWatchOK, EvSubsType
<1>4. /\ Tail(b) \in Seq(Nat) /\ Len(Tail(b)) = Len(b) - 1 /\ Head(b) = b[1] /\ Head(b) \in Nat /\ 1 \in 1 .. Len(b)
      /\ \A i \in 1 .. Len(Tail(b)) : i + 1 \in 1 .. Len(b) /\ Tail(b)[i] = b[i + 1]
  <2> HIDE DEF b
  <2> QED BY <1>1, <1>3, EvTailIs
<1>5. /\ Append(g, Head(b)) \in Seq(Nat) /\ Len(Append(g, Head(b))) = Len(g) + 1 /\ Append(g, Head(b))[Len(g) + 1] = Head(b)
      /\ \A i \in 1 .. Len(g) : Append(g, Head(b))[i] = g[i]
      /\ \A i \in 1 .. Len(g) + 1 : i \in 1 .. Len(g) \/ i = Len(g) + 1
  <2> HIDE DEF b, g
  <2> QED BY <1>3, <1>4, EvAppendIs
<1>6. Append(g, Head(b)) \o Tail(b) = g \o b
  <2> HIDE DEF b, g
  <2> QED BY <1>1, <1>3, EvCatShift
<1>7. /\ evBuf'[w] = Tail(b) /\ evGot'[w] = Append(g, Head(b))
      /\ \A v \in EvWatchers \ {w} : evBuf'[v] = evBuf[v] /\ evGot'[v] = evGot[v]
  BY <1>1 DEF EvIndInv, EvWatchOK, EvSubsType
<1>8. EvSubsType'
  <2>1. Tail(b) \in Seq(Nat) /\ Append(g, Head(b)) \in Seq(Nat)
    BY <1>4, <1>5
  <2> DEFINE tb == Tail(b)
             gh == Append(g, Head(b))
  <2> HIDE DEF b, g, tb, gh
  <2> QED BY <1>1, <2>1 DEF EvIndInv, EvWatchOK, EvSubsType
<1>9. EvChannelOK(w)'
  <2>1. /\ \A i \in 1 .. Len(b) : b[i] \in 1 .. evPub
        /\ \A i \in 1 .. Len(g) : g[i] \in 1 .. evPub
        /\ Len(b) <= EvBuf /\ evSince[w] <= evPub /\ evMissed[w] \subseteq 1 .. evPub
    BY DEF EvIndInv, EvWatchOK, EvChannelsOK, EvChannelOK
  <2> HIDE DEF b, g
  <2>2. \A i \in 1 .. Len(Tail(b)) : Tail(b)[i] \in 1 .. evPub
    BY <2>1, <1>4
  <2>3. \A i \in 1 .. Len(g) + 1 : Append(g, Head(b))[i] \in 1 .. evPub
    BY <2>1, <1>4, <1>5
  <2>4. Len(Tail(b)) <= EvBuf
    <3>1. Len(b) \in Nat /\ EvBuf \in Nat
      BY <1>3, EvConstants
    <3> QED BY <3>1, <2>1, <1>4
  <2> QED BY <2>1, <2>2, <2>3, <2>4, <1>1, <1>5, <1>7 DEF EvChannelOK
<1>10. ASSUME NEW v \in EvWatchers, v # w PROVE EvChannelOK(v)'
  BY <1>10, <1>1, <1>7 DEF EvIndInv, EvWatchOK, EvChannelsOK, EvChannelOK
<1>11. ASSUME NEW v \in EvWatchers PROVE evGot'[v] \o evBuf'[v] = evGot[v] \o evBuf[v]
  BY <1>6, <1>7
<1>12. EvExact'
  BY <1>1, <1>11 DEF EvIndInv, EvWatchOK, EvExact, EvAscends
<1>13. EvDashOK'
  <2>1. evRows \in Nat /\ evRows' \in Nat /\ evRows <= evRows'
    BY <1>1 DEF EvIndInv, EvCoreOK
  <2> QED BY <1>1, <2>1, EvDashStays DEF EvIndInv
<1> QED BY <1>2, <1>8, <1>9, <1>10, <1>12, <1>13 DEF EvIndInv, EvWatchOK, EvChannelsOK

-----------------------------------------------------------------------------
(* The dashboard's bus and the tabs.                                       *)

\* A step of the dashboard leaves daemon and clients alone.
LEMMA EvDashOnly ==
  ASSUME EvIndInv, EvDashOK', evFaults' \in 0 .. EvMaxFaults,
         UNCHANGED <<evFace, evUp, evPub, evRows, evOwed, evAt, evBack, evNow, evOnce, evBuf, evGot, evSince, evMissed>>
  PROVE EvIndInv'
<1>1. EvCoreOK' /\ EvLinkOK'
  BY DEF EvIndInv, EvCoreOK, EvLinkOK
<1>2. EvWatchOK'
  BY EvWatchStays DEF EvIndInv
<1> QED BY <1>1, <1>2 DEF EvIndInv

\* Before the seed no tab is open.
LEMMA EvSeedKeeps ==
  ASSUME EvIndInv, EvSeed
  PROVE EvIndInv'
<1>1. /\ evLast = -1 /\ evLast' \in {evRows, 0}
      /\ UNCHANGED <<evFace, evUp, evFaults, evPub, evRows, evOwed, evAt, evBack, evNow, evOnce, evBuf, evGot, evSince,
                     evMissed, evFresh, evTab, evQ, evKnown, evFrom, evOver>>
  BY DEF EvSeed, evCore, evLink, evSubs, evPage
<1>2. evRows \in Nat /\ evLast' \in Nat /\ evLast' <= evRows /\ evFaults \in 0 .. EvMaxFaults
  BY <1>1 DEF EvIndInv, EvCoreOK
<1>3. evFresh = <<>>
  BY <1>1 DEF EvIndInv, EvDashOK, EvBusOK
<1>4. EvDashType' /\ EvBusOK'
  <2>1. EvDashType'
    BY <1>1, <1>2 DEF EvIndInv, EvDashOK, EvDashType
  <2>2. EvBusOK'
    BY <1>1, <1>2, <1>3 DEF EvBusOK, EvAscends
  <2> QED BY <2>1, <2>2
<1>5. ASSUME NEW t \in EvTabs PROVE EvTabOK(t)' /\ EvCovered(t)'
  <2>1. EvTabOK(t) /\ evTab[t] # "open" /\ evQ[t] = <<>>
    BY <1>1 DEF EvIndInv, EvDashOK, EvTabsOK, EvTabOK
  <2>2. EvTabOK(t)'
    BY <2>1, <1>1 DEF EvTabOK
  <2> QED BY <2>1, <2>2, <1>1 DEF EvCovered
<1> QED BY <1>1, <1>2, <1>4, <1>5, EvDashOnly DEF EvDashOK, EvTabsOK

\* What a poll brings: the rows above from, and from skips nothing a refresh will not cover.
LEMMA EvNewRowsAre ==
  ASSUME EvIndInv, evLast >= 0
  PROVE \E from \in Nat :
          /\ evLast <= from /\ from <= evRows /\ (from = evLast \/ evRows - from = EvLimit)
          /\ EvNewRows \in Seq(Nat) /\ Len(EvNewRows) = evRows - from
          /\ \A k \in 1 .. Len(EvNewRows) : EvNewRows[k] = from + k
<1>1. evLast \in Int /\ evRows \in Nat /\ evLast <= evRows /\ EvLimit \in Nat \ {0}
  BY EvConstants DEF EvIndInv, EvDashOK, EvDashType, EvBusOK, EvCoreOK
<1>2. EvFloor \in Nat /\ EvFloor <= evRows /\ (EvFloor = 0 \/ evRows - EvFloor = EvLimit)
  BY <1>1 DEF EvFloor
<1> DEFINE from == IF evLast > EvFloor THEN evLast ELSE EvFloor
<1>3. from \in Nat /\ evLast <= from /\ from <= evRows /\ (from = evLast \/ evRows - from = EvLimit)
  BY <1>1, <1>2
<1>4. EvNewRows = [k \in 1 .. evRows - from |-> from + k]
  BY DEF EvNewRows
<1> HIDE DEF from
<1>5. evRows - from \in Nat /\ \A k \in 1 .. evRows - from : from + k \in Nat
  BY <1>1, <1>3
<1>6. EvNewRows \in Seq(Nat) /\ Len(EvNewRows) = evRows - from
  BY <1>4, <1>5
<1>7. \A k \in 1 .. Len(EvNewRows) : EvNewRows[k] = from + k
  BY <1>4, <1>6
<1> QED BY <1>3, <1>6, <1>7

LEMMA EvPollKeeps ==
  ASSUME EvIndInv, EvPoll
  PROVE EvIndInv'
<1>1. /\ evLast >= 0 /\ evFresh = <<>> /\ EvNewRows # <<>> /\ evFresh' = EvNewRows /\ evLast' = Last(EvNewRows)
      /\ UNCHANGED <<evFace, evUp, evFaults, evPub, evRows, evOwed, evAt, evBack, evNow, evOnce, evBuf, evGot, evSince,
                     evMissed, evTab, evQ, evKnown, evFrom, evOver>>
  BY DEF EvPoll, EvHead, evCore, evLink, evSubs, evPage
<1>2. PICK from \in Nat :
        /\ evLast <= from /\ from <= evRows /\ (from = evLast \/ evRows - from = EvLimit)
        /\ EvNewRows \in Seq(Nat) /\ Len(EvNewRows) = evRows - from
        /\ \A k \in 1 .. Len(EvNewRows) : EvNewRows[k] = from + k
  BY <1>1, EvNewRowsAre
<1> DEFINE new == EvNewRows
<1>3. /\ new \in Seq(Nat) /\ Len(new) \in Nat /\ Len(new) = evRows - from /\ Len(new) >= 1 /\ evFresh' = new
      /\ \A k \in 1 .. Len(new) : new[k] = from + k
  BY <1>1, <1>2
<1>4. evRows \in Nat /\ evLast \in Int /\ evFaults \in 0 .. EvMaxFaults /\ EvLimit \in Nat /\ EvBurst \in Nat /\ EvBurst < EvLimit
  BY EvConstants DEF EvIndInv, EvCoreOK, EvDashOK, EvDashType
<1> HIDE DEF new
<1>5. evLast' = evRows
  <2>1. evLast' = new[Len(new)] /\ Len(new) \in 1 .. Len(new)
    BY <1>1, <1>3 DEF Last, new
  <2>2. new[Len(new)] = from + Len(new)
    BY <2>1, <1>3
  <2> QED BY <2>1, <2>2, <1>3, <1>4
<1>6. EvDashType'
  BY <1>1, <1>3, <1>4, <1>5 DEF EvIndInv, EvDashOK, EvDashType
<1>7. EvBusOK'
  <2>1. ASSUME NEW i \in 1 .. Len(new) PROVE new[i] \in 1 .. evRows /\ \A j \in 1 .. Len(new) : i < j => new[i] < new[j]
    <3>1. new[i] = from + i /\ i \in Int /\ 1 <= i /\ i <= Len(new)
      BY <1>3
    <3>2. \A j \in 1 .. Len(new) : new[j] = from + j /\ j \in Int
      BY <1>3
    <3> QED BY <3>1, <3>2, <1>3, <1>4
  <2>2. -1 <= evLast' /\ evLast' <= evRows' /\ evLast' # -1
    BY <1>1, <1>4, <1>5
  <2>3. EvAscends(evFresh)' /\ \A i \in 1 .. Len(evFresh') : evFresh'[i] \in 1 .. evLast'
    BY <2>1, <1>3, <1>5 DEF EvAscends
  <2> QED BY <2>2, <2>3 DEF EvBusOK
<1>8. ASSUME NEW t \in EvTabs PROVE EvTabOK(t)' /\ EvCovered(t)'
  <2>1. EvTabOK(t) /\ EvCovered(t) /\ evQ[t] \in Seq(Nat) /\ evFrom[t] \in Nat
    BY DEF EvIndInv, EvDashOK, EvTabsOK, EvDashType
  <2>2. \A i \in 1 .. Len(evQ[t]) : evQ[t][i] \in Int /\ evQ[t][i] <= evLast /\ evQ[t][i] <= evRows
    BY <2>1, <1>4 DEF EvTabOK
  <2>3. ASSUME NEW i \in 1 .. Len(evQ[t]), NEW k \in 1 .. Len(new) PROVE evQ[t][i] < new[k]
    <3>1. evQ[t][i] \in Int /\ evQ[t][i] <= evLast /\ new[k] = from + k /\ k \in Int /\ k >= 1
      BY <2>2, <1>3
    <3> QED BY <3>1, <1>2, <1>4
  <2>4. EvTabOK(t)'
    <3>1. evLast' >= 0 /\ \A i \in 1 .. Len(evQ[t]) : evQ[t][i] <= evLast'
      BY <2>2, <1>4, <1>5
    <3>2. \A i \in 1 .. Len(evQ[t]), n \in 1 .. Len(evFresh') : evQ[t][i] < evFresh'[n]
      BY <2>3, <1>3
    <3> QED BY <2>1, <3>1, <3>2, <1>1 DEF EvTabOK
  <2>5. EvCovered(t)'
    <3> SUFFICES ASSUME evTab[t] = "open", ~evOver[t], NEW r \in evFrom[t] + 1 .. evRows
                 PROVE \/ r \in evKnown[t] \/ r \in ToSet(evQ[t]) \/ EvRefresh \in ToSet(evQ[t])
                       \/ r \in ToSet(new) \/ Len(new) > EvBurst
      BY <1>1, <1>3, <1>5 DEF EvCovered, ToSet
    <3>1. CASE r <= evLast
      <4>1. r \in evFrom[t] + 1 .. evLast /\ ToSet(evFresh) = {} /\ ~(Len(evFresh) > EvBurst)
        BY <3>1, <2>1, <1>1, <1>4 DEF ToSet
      <4> QED BY <4>1, <2>1 DEF EvCovered
    <3>2. CASE r > evLast /\ from = evLast
      <4>1. r \in Int /\ r <= evRows /\ r > from /\ evRows \in Int /\ from \in Int
        BY <3>2, <2>1, <1>4
      <4>2. Len(new) = evRows - from
        BY <1>3
      <4>3. r - from \in 1 .. Len(new) /\ from + (r - from) = r
        BY <4>1, <4>2
      <4>4. new[r - from] = r
        BY <4>3, <1>3
      <4> QED BY <4>3, <4>4, <1>3, EvToSetIs
    <3>3. CASE evRows - from = EvLimit
      BY <3>3, <1>3, <1>4
    <3> QED BY <3>1, <3>2, <3>3, <2>1, <1>2, <1>4
  <2> QED BY <2>4, <2>5
<1>9. EvDashOK'
  BY <1>6, <1>7, <1>8 DEF EvDashOK, EvTabsOK
<1> QED BY <1>1, <1>4, <1>9, EvDashOnly

\* A tab opens with an empty queue; what it has not seen starts here.
LEMMA EvOpenKeeps ==
  ASSUME EvIndInv, NEW t \in EvTabs, EvOpen(t)
  PROVE EvIndInv'
<1>1. /\ evLast >= 0 /\ evTab' = [evTab EXCEPT ![t] = "open"] /\ evQ' = [evQ EXCEPT ![t] = <<>>]
      /\ evFrom' = [evFrom EXCEPT ![t] = evLast] /\ evOver' = [evOver EXCEPT ![t] = FALSE]
      /\ UNCHANGED <<evFace, evUp, evFaults, evPub, evRows, evOwed, evAt, evBack, evNow, evOnce, evBuf, evGot, evSince,
                     evMissed, evLast, evFresh, evKnown>>
  BY DEF EvOpen, evCore, evLink, evSubs, evBus
<1>2. evLast \in Nat /\ evLast <= evRows /\ evRows \in Nat /\ evFaults \in 0 .. EvMaxFaults /\ EvQueue \in Nat
  BY <1>1, EvConstants DEF EvIndInv, EvCoreOK, EvDashOK, EvDashType, EvBusOK
<1>3. EvDashType' /\ EvBusOK'
  <2>1. EvDashType'
    BY <1>1, <1>2 DEF EvIndInv, EvDashOK, EvDashType
  <2>2. EvBusOK'
    BY <1>1 DEF EvIndInv, EvDashOK, EvBusOK, EvAscends
  <2> QED BY <2>1, <2>2
<1>4. ASSUME NEW u \in EvTabs PROVE EvTabOK(u)' /\ EvCovered(u)'
  <2>1. EvTabOK(u) /\ EvCovered(u)
    BY DEF EvIndInv, EvDashOK, EvTabsOK
  <2>2. CASE u = t
    <3>1. evTab'[u] = "open" /\ evQ'[u] = <<>> /\ evFrom'[u] = evLast
      BY <2>2, <1>1 DEF EvIndInv, EvDashOK, EvDashType
    <3>2. Len(evQ'[u]) = 0 /\ 1 .. Len(evQ'[u]) = {}
      BY <3>1
    <3>3. EvTabOK(u)'
      BY <2>1, <3>1, <3>2, <1>1, <1>2 DEF EvTabOK
    <3>4. evFrom'[u] + 1 .. evLast' = {}
      BY <3>1, <1>1, <1>2
    <3> QED BY <3>3, <3>4 DEF EvCovered
  <2>3. CASE u # t
    <3>1. evTab'[u] = evTab[u] /\ evQ'[u] = evQ[u] /\ evFrom'[u] = evFrom[u] /\ evOver'[u] = evOver[u]
      BY <2>3, <1>1 DEF EvIndInv, EvDashOK, EvDashType
    <3> QED BY <2>1, <3>1, <1>1 DEF EvTabOK, EvCovered
  <2> QED BY <2>2, <2>3
<1>5. EvDashOK'
  BY <1>3, <1>4 DEF EvDashOK, EvTabsOK
<1> QED BY <1>1, <1>2, <1>5, EvDashOnly

\* A page reloads or loses its connection: its queue is gone.
LEMMA EvLeaveKeeps ==
  ASSUME EvIndInv, NEW t \in EvTabs, EvReload(t) \/ EvTabLost(t)
  PROVE EvIndInv'
<1>1. /\ evQ' = [evQ EXCEPT ![t] = <<>>]
      /\ UNCHANGED <<evFace, evUp, evPub, evRows, evOwed, evAt, evBack, evNow, evOnce, evBuf, evGot, evSince,
                     evMissed, evLast, evFresh, evFrom, evOver>>
  BY DEF EvReload, EvTabLost, evCore, evLink, evSubs, evBus
<1>2. PICK x \in {"page", "closed"} : evTab' = [evTab EXCEPT ![t] = x]
  BY DEF EvReload, EvTabLost
<1>3. PICK rows \in SUBSET (1 .. evRows) : evKnown' = [evKnown EXCEPT ![t] = rows]
  <2>1. CASE EvReload(t)
    BY <2>1 DEF EvReload
  <2>2. CASE EvTabLost(t)
    <3>1. evKnown' = [evKnown EXCEPT ![t] = evKnown[t]] /\ evKnown[t] \subseteq 1 .. evRows
      BY <2>2 DEF EvTabLost, EvIndInv, EvDashOK, EvDashType, EvTabsOK, EvTabOK
    <3> QED BY <3>1
  <2> QED BY <2>1, <2>2
<1>4. evRows \in Nat /\ EvQueue \in Nat /\ evFaults' \in 0 .. EvMaxFaults
  BY EvConstants DEF EvReload, EvTabLost, evCore, EvIndInv, EvCoreOK
<1>5. EvDashType' /\ EvBusOK'
  <2>1. EvDashType'
    BY <1>1, <1>2, <1>3, <1>4 DEF EvIndInv, EvDashOK, EvDashType
  <2>2. EvBusOK'
    BY <1>1 DEF EvIndInv, EvDashOK, EvBusOK, EvAscends
  <2> QED BY <2>1, <2>2
<1>6. ASSUME NEW u \in EvTabs PROVE EvTabOK(u)' /\ EvCovered(u)'
  <2>1. EvTabOK(u) /\ EvCovered(u)
    BY DEF EvIndInv, EvDashOK, EvTabsOK
  <2>2. CASE u = t
    <3>1. evTab'[u] # "open" /\ evQ'[u] = <<>> /\ evKnown'[u] \subseteq 1 .. evRows
      BY <2>2, <1>1, <1>2, <1>3 DEF EvIndInv, EvDashOK, EvDashType
    <3>2. Len(evQ'[u]) = 0 /\ 1 .. Len(evQ'[u]) = {}
      BY <3>1
    <3>3. EvTabOK(u)'
      BY <2>1, <3>1, <3>2, <1>1, <1>4 DEF EvTabOK
    <3> QED BY <3>1, <3>3 DEF EvCovered
  <2>3. CASE u # t
    <3>1. evTab'[u] = evTab[u] /\ evQ'[u] = evQ[u] /\ evKnown'[u] = evKnown[u]
      BY <2>3, <1>1, <1>2, <1>3 DEF EvIndInv, EvDashOK, EvDashType
    <3> QED BY <2>1, <3>1, <1>1 DEF EvTabOK, EvCovered
  <2> QED BY <2>2, <2>3
<1>7. EvDashOK'
  BY <1>5, <1>6 DEF EvDashOK, EvTabsOK
<1> QED BY <1>1, <1>4, <1>7, EvDashOnly

\* A row reaches the page.
LEMMA EvPushKeeps ==
  ASSUME EvIndInv, NEW t \in EvTabs, EvPushRow(t)
  PROVE EvIndInv'
<1> DEFINE q == evQ[t]
<1>1. /\ q # <<>> /\ Head(q) # EvRefresh /\ evQ' = [evQ EXCEPT ![t] = Tail(q)]
      /\ evKnown' = [evKnown EXCEPT ![t] = evKnown[t] \cup {Head(q)}]
      /\ UNCHANGED <<evFace, evUp, evFaults, evPub, evRows, evOwed, evAt, evBack, evNow, evOnce, evBuf, evGot, evSince,
                     evMissed, evLast, evFresh, evTab, evFrom, evOver>>
  BY DEF EvPushRow, evCore, evLink, evSubs, evBus
<1>2. evRows \in Nat /\ EvQueue \in Nat /\ evFaults \in 0 .. EvMaxFaults /\ q \in Seq(Nat) /\ EvTabOK(t) /\ EvCovered(t)
  BY EvConstants DEF EvIndInv, EvCoreOK, EvDashOK, EvDashType, EvTabsOK
<1> HIDE DEF q
<1>3. /\ Tail(q) \in Seq(Nat) /\ Len(Tail(q)) = Len(q) - 1 /\ Head(q) = q[1] /\ Head(q) \in Nat /\ 1 \in 1 .. Len(q)
      /\ \A i \in 1 .. Len(Tail(q)) : i + 1 \in 1 .. Len(q) /\ Tail(q)[i] = q[i + 1]
      /\ \A i \in 1 .. Len(q) : i = 1 \/ (i - 1 \in 1 .. Len(Tail(q)) /\ Tail(q)[i - 1] = q[i])
  BY <1>1, <1>2, EvTailIs
<1>4. Head(q) \in 1 .. evRows
  <2>1. q[1] \in 0 .. evRows
    BY <1>2, <1>3 DEF EvTabOK, q
  <2> QED BY <2>1, <1>1, <1>2, <1>3 DEF EvRefresh
<1>5. /\ evQ'[t] = Tail(q) /\ evKnown'[t] = evKnown[t] \cup {Head(q)}
      /\ \A u \in EvTabs \ {t} : evQ'[u] = evQ[u] /\ evKnown'[u] = evKnown[u]
  BY <1>1 DEF EvIndInv, EvDashOK, EvDashType
<1>6. EvDashType' /\ EvBusOK'
  <2>1. EvDashType'
    <3>1. evQ' \in [EvTabs -> Seq(Nat)]
      BY <1>1, <1>3 DEF EvIndInv, EvDashOK, EvDashType
    <3>2. evKnown[t] \cup {Head(q)} \in SUBSET Nat
      BY <1>3 DEF EvIndInv, EvDashOK, EvDashType
    <3>3. evKnown' \in [EvTabs -> SUBSET Nat]
      BY <1>1, <3>2 DEF EvIndInv, EvDashOK, EvDashType
    <3> QED BY <1>1, <3>1, <3>3 DEF EvIndInv, EvDashOK, EvDashType
  <2>2. EvBusOK'
    BY <1>1 DEF EvIndInv, EvDashOK, EvBusOK, EvAscends
  <2> QED BY <2>1, <2>2
<1>7. EvTabOK(t)'
  <2>1. Len(Tail(q)) <= EvQueue
    <3>1. Len(q) \in Nat /\ Len(q) <= EvQueue
      BY <1>2 DEF EvTabOK, q
    <3> QED BY <3>1, <1>2, <1>3
  <2>2. ASSUME NEW i \in 1 .. Len(Tail(q))
        PROVE /\ Tail(q)[i] \in 0 .. evRows /\ Tail(q)[i] <= evLast
              /\ \A n \in 1 .. Len(evFresh) : Tail(q)[i] < evFresh[n]
    BY <1>2, <1>3 DEF EvTabOK, q
  <2>3. ASSUME NEW i \in 1 .. Len(Tail(q)), NEW j \in 1 .. Len(Tail(q)), i < j, Tail(q)[j] # EvRefresh
        PROVE Tail(q)[i] < Tail(q)[j]
    <3>1. i + 1 \in 1 .. Len(q) /\ j + 1 \in 1 .. Len(q) /\ Tail(q)[i] = q[i + 1] /\ Tail(q)[j] = q[j + 1] /\ i + 1 < j + 1
      BY <2>3, <1>3
    <3> QED BY <2>3, <3>1, <1>2 DEF EvTabOK, q
  <2>4. evTab[t] = "open" /\ evKnown'[t] \subseteq 1 .. evRows
    BY <1>2, <1>4, <1>5 DEF EvPushRow, EvTabOK
  <2> QED BY <2>1, <2>2, <2>3, <2>4, <1>1, <1>2, <1>5 DEF EvTabOK
<1>8. EvCovered(t)'
  <2>1. ASSUME NEW x \in ToSet(q) PROVE x = Head(q) \/ x \in ToSet(Tail(q))
    <3>1. PICK i \in 1 .. Len(q) : q[i] = x
      BY <1>2, EvToSetIs
    <3>2. CASE i = 1
      BY <3>1, <3>2, <1>3
    <3>3. CASE i # 1
      <4>1. i - 1 \in 1 .. Len(Tail(q)) /\ Tail(q)[i - 1] = x
        BY <3>1, <3>3, <1>3
      <4> QED BY <4>1, <1>3, EvToSetIs
    <3> QED BY <3>2, <3>3
  <2> SUFFICES ASSUME evTab[t] = "open", ~evOver[t], NEW r \in evFrom[t] + 1 .. evLast
               PROVE \/ r \in evKnown[t] \cup {Head(q)} \/ r \in ToSet(Tail(q)) \/ EvRefresh \in ToSet(Tail(q))
                     \/ r \in ToSet(evFresh) \/ Len(evFresh) > EvBurst
    BY <1>1, <1>5 DEF EvCovered, ToSet
  <2>2. \/ r \in evKnown[t] \/ r \in ToSet(q) \/ EvRefresh \in ToSet(q) \/ r \in ToSet(evFresh) \/ Len(evFresh) > EvBurst
    BY <1>2 DEF EvCovered, q
  <2> QED BY <2>1, <2>2, <1>1
<1>9. ASSUME NEW u \in EvTabs, u # t PROVE EvTabOK(u)' /\ EvCovered(u)'
  <2>1. EvTabOK(u) /\ EvCovered(u)
    BY DEF EvIndInv, EvDashOK, EvTabsOK
  <2>2. evQ'[u] = evQ[u] /\ evKnown'[u] = evKnown[u]
    BY <1>5, <1>9
  <2> QED BY <2>1, <2>2, <1>1 DEF EvTabOK, EvCovered
<1>10. EvDashOK'
  BY <1>6, <1>7, <1>8, <1>9 DEF EvDashOK, EvTabsOK
<1> QED BY <1>1, <1>2, <1>10, EvDashOnly

\* What a broadcast sends: all of the rows in order, or one refresh in their place.
LEMMA EvPayloadsAre ==
  ASSUME EvIndInv, evFresh # <<>>
  PROVE LET out == EvPayloads(evFresh)
        IN /\ out \in Seq(Nat) /\ Len(out) \in Nat
           /\ \A i \in 1 .. Len(out) : out[i] \in 0 .. evLast
           /\ \A i, j \in 1 .. Len(out) : i < j => out[i] < out[j]
           /\ \A i \in 1 .. Len(out) : out[i] = EvRefresh \/ \E n \in 1 .. Len(evFresh) : out[i] = evFresh[n]
           /\ Len(evFresh) > EvBurst => EvRefresh \in ToSet(out)
           /\ ~(Len(evFresh) > EvBurst) => out = evFresh
<1>1. /\ evFresh \in Seq(Nat) /\ EvAscends(evFresh) /\ evLast \in Int /\ evLast >= 0
      /\ \A i \in 1 .. Len(evFresh) : evFresh[i] \in 1 .. evLast
  BY DEF EvIndInv, EvDashOK, EvDashType, EvBusOK
<1>2. CASE Len(evFresh) > EvBurst
  <2> DEFINE out == <<EvRefresh>>
  <2>1. EvPayloads(evFresh) = out
    BY <1>2 DEF EvPayloads
  <2>2. out \in Seq(Nat) /\ Len(out) = 1 /\ out[1] = EvRefresh /\ EvRefresh = 0
    BY DEF EvRefresh
  <2> HIDE DEF out
  <2>3. EvRefresh \in ToSet(out)
    BY <2>2, EvToSetIs
  <2> QED BY <1>1, <1>2, <2>1, <2>2, <2>3
<1>3. CASE ~(Len(evFresh) > EvBurst)
  <2>1. EvPayloads(evFresh) = evFresh
    BY <1>3 DEF EvPayloads
  <2> QED BY <1>1, <1>3, <2>1 DEF EvAscends
<1> QED BY <1>2, <1>3

\* A queue with what it has room for of a broadcast.
LEMMA EvQueued ==
  ASSUME NEW q \in Seq(Nat), NEW out \in Seq(Nat), NEW n \in 0 .. Len(out)
  PROVE LET k == SubSeq(out, 1, n)
        IN /\ q \o k \in Seq(Nat) /\ Len(q \o k) = Len(q) + n
           /\ \A i \in 1 .. Len(q) : (q \o k)[i] = q[i]
           /\ \A i \in 1 .. Len(q) + n : i \in 1 .. Len(q) \/ (i - Len(q) \in 1 .. n /\ (q \o k)[i] = out[i - Len(q)])
           /\ n = Len(out) => \A x \in ToSet(out) : x \in ToSet(q \o k)
           /\ \A x \in ToSet(q) : x \in ToSet(q \o k)
<1> DEFINE k == SubSeq(out, 1, n)
<1>1. k \in Seq(Nat) /\ Len(k) = n /\ \A i \in 1 .. n : k[i] = out[i]
  OBVIOUS
<1>2. Len(q) \in Nat /\ n \in Nat /\ Len(out) \in Nat
  OBVIOUS
<1> HIDE DEF k
<1>3. /\ q \o k \in Seq(Nat) /\ Len(q \o k) = Len(q) + n
      /\ \A i \in 1 .. Len(q) : (q \o k)[i] = q[i]
      /\ \A i \in 1 .. n : (q \o k)[Len(q) + i] = k[i]
  BY <1>1, EvCatIs
<1>4. ASSUME NEW i \in 1 .. Len(q) + n, i \notin 1 .. Len(q)
      PROVE i - Len(q) \in 1 .. n /\ (q \o k)[i] = out[i - Len(q)]
  <2> DEFINE m == i - Len(q)
  <2>1. m \in 1 .. n /\ Len(q) + m = i
    BY <1>2, <1>4
  <2> HIDE DEF m
  <2>2. (q \o k)[i] = out[m]
    BY <2>1, <1>1, <1>3
  <2> QED BY <2>1, <2>2 DEF m
<1>5. ASSUME n = Len(out), NEW x \in ToSet(out) PROVE x \in ToSet(q \o k)
  <2>1. PICK i \in 1 .. Len(out) : out[i] = x
    BY EvToSetIs
  <2>2. Len(q) + i \in 1 .. Len(q \o k) /\ (q \o k)[Len(q) + i] = x
    BY <2>1, <1>1, <1>2, <1>3, <1>5
  <2> QED BY <2>2, <1>3, EvToSetIs
<1>6. ASSUME NEW x \in ToSet(q) PROVE x \in ToSet(q \o k)
  <2>1. PICK i \in 1 .. Len(q) : q[i] = x
    BY EvToSetIs
  <2>2. i \in 1 .. Len(q \o k) /\ (q \o k)[i] = x
    BY <2>1, <1>2, <1>3
  <2> QED BY <2>2, <1>3, EvToSetIs
<1> QED BY <1>3, <1>4, <1>5, <1>6 DEF k

\* A broadcast hands the rows to every open tab and forgets them.
LEMMA EvBroadcastKeeps ==
  ASSUME EvIndInv, EvBroadcast
  PROVE EvIndInv'
<1> DEFINE out == EvPayloads(evFresh)
           room(t) == EvQueue - Len(evQ[t])
           n(t) == IF Len(out) < room(t) THEN Len(out) ELSE room(t)
           kept(t) == SubSeq(out, 1, n(t))
<1>1. /\ evFresh # <<>> /\ evFresh' = <<>>
      /\ evQ' = [t \in EvTabs |-> IF evTab[t] = "open" THEN evQ[t] \o kept(t) ELSE evQ[t]]
      /\ evOver' = [t \in EvTabs |-> evOver[t] \/ (evTab[t] = "open" /\ Len(out) > room(t))]
      /\ UNCHANGED <<evFace, evUp, evFaults, evPub, evRows, evOwed, evAt, evBack, evNow, evOnce, evBuf, evGot, evSince,
                     evMissed, evLast, evTab, evKnown, evFrom>>
  BY DEF EvBroadcast, evCore, evLink, evSubs
<1>2. /\ out \in Seq(Nat) /\ Len(out) \in Nat
      /\ \A i \in 1 .. Len(out) : out[i] \in 0 .. evLast
      /\ \A i, j \in 1 .. Len(out) : i < j => out[i] < out[j]
      /\ \A i \in 1 .. Len(out) : out[i] = EvRefresh \/ \E m \in 1 .. Len(evFresh) : out[i] = evFresh[m]
      /\ Len(evFresh) > EvBurst => EvRefresh \in ToSet(out)
      /\ ~(Len(evFresh) > EvBurst) => out = evFresh
  BY <1>1, EvPayloadsAre
<1>3. /\ evRows \in Nat /\ EvQueue \in Nat /\ evFaults \in 0 .. EvMaxFaults /\ evLast \in Nat /\ evLast <= evRows
      /\ evFresh \in Seq(Nat)
  BY <1>1, EvConstants DEF EvIndInv, EvCoreOK, EvDashOK, EvDashType, EvBusOK
<1> HIDE DEF out
<1>4. ASSUME NEW t \in EvTabs, evTab[t] = "open"
      PROVE /\ evQ[t] \in Seq(Nat) /\ EvTabOK(t) /\ EvCovered(t) /\ n(t) \in 0 .. Len(out) /\ Len(evQ[t]) + n(t) <= EvQueue
            /\ Len(evQ[t]) \in Nat /\ evQ'[t] = evQ[t] \o kept(t)
            /\ (evOver'[t] = FALSE => evOver[t] = FALSE /\ n(t) = Len(out))
            /\ evOver'[t] \in BOOLEAN
  <2>1. evQ[t] \in Seq(Nat) /\ EvTabOK(t) /\ EvCovered(t) /\ evOver[t] \in BOOLEAN
    BY DEF EvIndInv, EvDashOK, EvDashType, EvTabsOK
  <2>2. Len(evQ[t]) \in Nat /\ Len(evQ[t]) <= EvQueue
    BY <2>1 DEF EvTabOK
  <2>3. room(t) \in Nat /\ n(t) \in 0 .. Len(out) /\ Len(evQ[t]) + n(t) <= EvQueue /\ (~(Len(out) > room(t)) => n(t) = Len(out))
    <3> DEFINE lq == Len(evQ[t])
               lo == Len(out)
    <3>1. lq \in Nat /\ lq <= EvQueue /\ lo \in Nat /\ EvQueue \in Nat
      BY <2>2, <1>2, <1>3
    <3> HIDE DEF lq, lo
    <3>2. EvQueue - lq \in Nat
      BY <3>1
    <3>3. LET m == IF lo < EvQueue - lq THEN lo ELSE EvQueue - lq
          IN m \in 0 .. lo /\ lq + m <= EvQueue /\ (~(lo > EvQueue - lq) => m = lo)
      BY <3>1, <3>2
    <3> QED BY <3>2, <3>3 DEF lq, lo
  <2>4. evQ'[t] = evQ[t] \o kept(t) /\ evOver'[t] = (evOver[t] \/ (evTab[t] = "open" /\ Len(out) > room(t)))
    BY <1>1, <1>4
  <2> HIDE DEF n, room
  <2>5. (evOver'[t] = FALSE => evOver[t] = FALSE /\ ~(Len(out) > room(t))) /\ evOver'[t] \in BOOLEAN
    BY <2>1, <2>4, <1>4
  <2> QED BY <2>1, <2>2, <2>3, <2>4, <2>5
<1>5. ASSUME NEW t \in EvTabs, evTab[t] # "open"
      PROVE evQ'[t] = evQ[t] /\ evQ[t] = <<>> /\ EvTabOK(t)
  BY <1>1, <1>5 DEF EvIndInv, EvDashOK, EvTabsOK, EvTabOK
<1>6. ASSUME NEW t \in EvTabs, evTab[t] = "open"
      PROVE /\ evQ'[t] \in Seq(Nat) /\ Len(evQ'[t]) = Len(evQ[t]) + n(t)
            /\ \A i \in 1 .. Len(evQ[t]) : evQ'[t][i] = evQ[t][i]
            /\ \A i \in 1 .. Len(evQ'[t]) : \/ i \in 1 .. Len(evQ[t])
                                            \/ i - Len(evQ[t]) \in 1 .. n(t) /\ evQ'[t][i] = out[i - Len(evQ[t])]
            /\ n(t) = Len(out) => \A x \in ToSet(out) : x \in ToSet(evQ'[t])
            /\ \A x \in ToSet(evQ[t]) : x \in ToSet(evQ'[t])
  <2>1. n(t) \in 0 .. Len(out) /\ evQ[t] \in Seq(Nat) /\ evQ'[t] = evQ[t] \o kept(t)
    BY <1>4, <1>6
  <2> DEFINE m == n(t)
             q == evQ[t]
             k == SubSeq(out, 1, m)
  <2>2. m \in 0 .. Len(out) /\ q \in Seq(Nat) /\ evQ'[t] = q \o k
    BY <2>1
  <2> HIDE DEF m, q
  <2>3. /\ q \o k \in Seq(Nat) /\ Len(q \o k) = Len(q) + m
        /\ \A i \in 1 .. Len(q) : (q \o k)[i] = q[i]
        /\ \A i \in 1 .. Len(q) + m : i \in 1 .. Len(q) \/ (i - Len(q) \in 1 .. m /\ (q \o k)[i] = out[i - Len(q)])
        /\ m = Len(out) => \A x \in ToSet(out) : x \in ToSet(q \o k)
        /\ \A x \in ToSet(q) : x \in ToSet(q \o k)
    BY <2>2, <1>2, EvQueued
  <2> HIDE DEF k
  <2>4. /\ evQ'[t] \in Seq(Nat) /\ Len(evQ'[t]) = Len(q) + m
        /\ \A i \in 1 .. Len(q) : evQ'[t][i] = q[i]
        /\ \A i \in 1 .. Len(evQ'[t]) : i \in 1 .. Len(q) \/ (i - Len(q) \in 1 .. m /\ evQ'[t][i] = out[i - Len(q)])
        /\ m = Len(out) => \A x \in ToSet(out) : x \in ToSet(evQ'[t])
        /\ \A x \in ToSet(q) : x \in ToSet(evQ'[t])
    BY <2>2, <2>3
  <2> HIDE DEF n
  <2> QED BY <2>4 DEF m, q
<1>7. EvDashType' /\ EvBusOK'
  <2>1. ASSUME NEW t \in EvTabs PROVE evQ'[t] \in Seq(Nat) /\ evOver'[t] \in BOOLEAN
    <3>1. evQ'[t] \in Seq(Nat)
      BY <1>5, <1>6 DEF EvIndInv, EvDashOK, EvDashType
    <3>2. evOver'[t] = (evOver[t] \/ (evTab[t] = "open" /\ Len(out) > room(t)))
      BY <1>1
    <3> QED BY <3>1, <3>2
  <2>2. evQ' = [t \in EvTabs |-> evQ'[t]] /\ evOver' = [t \in EvTabs |-> evOver'[t]]
    BY <1>1
  <2>3. evQ' \in [EvTabs -> Seq(Nat)] /\ evOver' \in [EvTabs -> BOOLEAN]
    BY <2>1, <2>2
  <2>4. EvDashType'
    BY <1>1, <2>3 DEF EvIndInv, EvDashOK, EvDashType
  <2>5. EvBusOK'
    BY <1>1, <1>3 DEF EvBusOK, EvAscends
  <2> QED BY <2>4, <2>5
<1>8. ASSUME NEW t \in EvTabs, evTab[t] = "open" PROVE EvTabOK(t)' /\ EvCovered(t)'
  <2> DEFINE q == evQ[t]
             p == evQ'[t]
  <2>1. /\ q \in Seq(Nat) /\ EvTabOK(t) /\ EvCovered(t) /\ n(t) \in 0 .. Len(out) /\ Len(q) + n(t) <= EvQueue
        /\ Len(q) \in Nat /\ p \in Seq(Nat) /\ Len(p) = Len(q) + n(t)
    BY <1>4, <1>6, <1>8
  <2>2. /\ \A i \in 1 .. Len(q) : p[i] = q[i]
        /\ \A i \in 1 .. Len(p) : i \in 1 .. Len(q) \/ (i - Len(q) \in 1 .. n(t) /\ p[i] = out[i - Len(q)])
    BY <1>6, <1>8
  <2>3. /\ \A i \in 1 .. Len(q) : q[i] \in 0 .. evRows /\ q[i] <= evLast
        /\ \A i, j \in 1 .. Len(q) : i < j /\ q[j] # EvRefresh => q[i] < q[j]
        /\ \A i \in 1 .. Len(q), m \in 1 .. Len(evFresh) : q[i] < evFresh[m]
        /\ evKnown[t] \subseteq 1 .. evRows /\ evFrom[t] <= evRows
    BY <2>1 DEF EvTabOK
  <2> HIDE DEF q, p, n
  <2>4. ASSUME NEW i \in 1 .. Len(p) PROVE p[i] \in 0 .. evRows /\ p[i] <= evLast
    <3>1. CASE i \in 1 .. Len(q)
      BY <3>1, <2>2, <2>3
    <3>2. CASE i - Len(q) \in 1 .. n(t) /\ p[i] = out[i - Len(q)]
      <4>1. i - Len(q) \in 1 .. Len(out)
        BY <3>2, <2>1, <1>2
      <4>2. p[i] \in 0 .. evLast
        BY <3>2, <4>1, <1>2
      <4> QED BY <4>2, <1>3
    <3> QED BY <3>1, <3>2, <2>2
  <2>5. ASSUME NEW i \in 1 .. Len(p), NEW j \in 1 .. Len(p), i < j, p[j] # EvRefresh PROVE p[i] < p[j]
    <3>1. CASE j \in 1 .. Len(q)
      <4>1. i \in 1 .. Len(q)
        BY <2>1, <2>5, <3>1
      <4> QED BY <2>2, <2>3, <2>5, <3>1, <4>1
    <3>2. CASE j - Len(q) \in 1 .. n(t) /\ p[j] = out[j - Len(q)]
      <4> DEFINE y == j - Len(q)
      <4>1. y \in 1 .. Len(out) /\ p[j] = out[y]
        BY <3>2, <2>1, <1>2
      <4>2. PICK m \in 1 .. Len(evFresh) : out[y] = evFresh[m]
        BY <4>1, <2>5, <1>2
      <4>3. CASE i \in 1 .. Len(q)
        BY <4>1, <4>2, <4>3, <2>2, <2>3
      <4>4. CASE i - Len(q) \in 1 .. n(t) /\ p[i] = out[i - Len(q)]
        <5> DEFINE x == i - Len(q)
        <5>1. x \in 1 .. Len(out) /\ p[i] = out[x] /\ x < y
          BY <4>4, <2>1, <2>5, <1>2
        <5> HIDE DEF x, y
        <5> QED BY <4>1, <5>1, <1>2
      <4> QED BY <4>3, <4>4, <2>2
    <3> QED BY <3>1, <3>2, <2>2
  <2>6. EvTabOK(t)'
    <3>1. Len(p) <= EvQueue /\ 1 .. Len(<<>>) = {} /\ evLast >= 0
      BY <2>1, <1>3
    <3> QED BY <2>3, <2>4, <2>5, <3>1, <1>1, <1>8 DEF EvTabOK, p
  <2>7. EvCovered(t)'
    <3> SUFFICES ASSUME evOver'[t] = FALSE, NEW r \in evFrom[t] + 1 .. evLast
                 PROVE r \in evKnown[t] \/ r \in ToSet(p) \/ EvRefresh \in ToSet(p)
      <4>1. evOver'[t] \in BOOLEAN
        BY <1>4, <1>8
      <4> QED BY <4>1, <1>1 DEF EvCovered, p
    <3>1. evOver[t] = FALSE /\ n(t) = Len(out)
      BY <1>4, <1>8
    <3>2. (\A x \in ToSet(out) : x \in ToSet(p)) /\ (\A x \in ToSet(q) : x \in ToSet(p))
      BY <1>6, <1>8, <3>1 DEF p, q
    <3>3. \/ r \in evKnown[t] \/ r \in ToSet(q) \/ EvRefresh \in ToSet(q) \/ r \in ToSet(evFresh) \/ Len(evFresh) > EvBurst
      BY <2>1, <3>1, <1>8 DEF EvCovered, q
    <3> QED BY <3>2, <3>3, <1>2
  <2> QED BY <2>6, <2>7
<1>9. ASSUME NEW t \in EvTabs, evTab[t] # "open" PROVE EvTabOK(t)' /\ EvCovered(t)'
  <2>1. evQ'[t] = <<>> /\ EvTabOK(t) /\ evQ[t] = <<>>
    BY <1>5, <1>9
  <2>2. 1 .. Len(<<>>) = {}
    OBVIOUS
  <2> QED BY <2>1, <2>2, <1>1, <1>9 DEF EvTabOK, EvCovered
<1>10. EvDashOK'
  BY <1>7, <1>8, <1>9 DEF EvDashOK, EvTabsOK
<1> QED BY <1>1, <1>3, <1>10, EvDashOnly

LEMMA EvBegin == EvInit => EvIndInv
<1> SUFFICES ASSUME EvInit PROVE EvIndInv
  OBVIOUS
<1>1. EvBuf \in Nat /\ EvQueue \in Nat /\ EvMaxFaults \in Nat /\ EvMaxBack \in Nat \ {0} /\ Len(<<>>) = 0 /\ 1 .. 0 = {}
  BY EvConstants
<1>2. EvCoreOK
  <2>1. evFace \in EvFaces /\ evUp = TRUE
    BY DEF EvInit
  <2>2. evFaults = 0 /\ evPub = 0 /\ evRows = 0 /\ evOwed = 0
    BY DEF EvInit
  <2>3. evFaults \in 0 .. EvMaxFaults /\ evPub \in Nat /\ evRows \in Nat /\ evOwed \in 0 .. 1
    BY <2>2, <1>1
  <2> QED BY <2>1, <2>3 DEF EvCoreOK
<1>3. EvLinkOK
  <2>1. 1 \in 1 .. EvMaxBack
    BY <1>1
  <2> QED BY <2>1 DEF EvInit, EvLinkOK
<1>4. EvSubsType
  BY DEF EvInit, EvSubsType
<1>5. ASSUME NEW w \in EvWatchers PROVE EvChannelOK(w)
  <2>1. evBuf[w] = <<>> /\ evGot[w] = <<>> /\ evSince[w] = 0 /\ evMissed[w] = {} /\ evPub = 0
    BY DEF EvInit
  <2> QED BY <2>1, <1>1 DEF EvChannelOK
<1>6. EvExact
  BY DEF EvInit, EvExact
<1>7. EvDashType /\ EvBusOK
  <2>1. evLast = -1 /\ evFresh = <<>> /\ evRows = 0
    BY DEF EvInit
  <2>2. EvBusOK
    BY <2>1, <1>1 DEF EvBusOK, EvAscends
  <2>3. evLast \in Int /\ evFresh \in Seq(Nat)
    BY <2>1
  <2>4. EvDashType
    BY <2>3 DEF EvInit, EvDashType
  <2> QED BY <2>2, <2>4
<1>8. ASSUME NEW t \in EvTabs PROVE EvTabOK(t) /\ EvCovered(t)
  <2>1. evTab[t] = "page" /\ evQ[t] = <<>> /\ evKnown[t] = {} /\ evFrom[t] = 0 /\ evRows = 0
    BY DEF EvInit
  <2> QED BY <2>1, <1>1 DEF EvTabOK, EvCovered
<1> QED BY <1>2, <1>3, <1>4, <1>5, <1>6, <1>7, <1>8 DEF EvIndInv, EvWatchOK, EvChannelsOK, EvDashOK, EvTabsOK

-----------------------------------------------------------------------------
\* Channels and queues stay within their bounds, in order and complete but for what a full one
\* lost, and every row the dashboard's bus has counted is accounted for in every open tab
\* (eventBus.publish, handleSubscribe, freshEvents, broadcast).
THEOREM EvInvariant == EvSpec => []EvIndInv
<1>1. EvInit => EvIndInv
  BY EvBegin
<1>2. EvIndInv /\ [EvNext]_evVars => EvIndInv'
  <2> SUFFICES ASSUME EvIndInv, [EvNext]_evVars PROVE EvIndInv'
    OBVIOUS
  <2>1. CASE EvDaemon
    BY <2>1, EvActKeeps, EvCoreKeeps DEF EvDaemon
  <2>2. CASE EvWatch
    BY <2>2, EvLinkKeeps, EvRegisterKeeps, EvSendKeeps DEF EvWatch, EvClient
  <2>3. CASE EvDash
    BY <2>3, EvSeedKeeps, EvPollKeeps, EvBroadcastKeeps, EvActKeeps, EvCoreKeeps, EvOpenKeeps, EvPushKeeps, EvLeaveKeeps
       DEF EvDash, EvJournal
  <2>4. CASE UNCHANGED evVars
    <3>1. UNCHANGED <<evFace, evUp, evFaults, evPub, evRows, evOwed, evAt, evBack, evNow, evOnce, evBuf, evGot, evSince,
                      evMissed, evLast, evFresh, evTab, evQ, evKnown, evFrom, evOver>>
      BY <2>4 DEF evVars, evCore, evLink, evSubs, evBus, evPage
    <3>2. evRows \in Nat /\ evRows' \in Nat /\ evRows <= evRows' /\ evFaults' \in 0 .. EvMaxFaults
      BY <3>1 DEF EvIndInv, EvCoreOK
    <3>3. EvDashOK'
      BY <3>1, <3>2, EvDashStays DEF EvIndInv
    <3> QED BY <3>1, <3>2, <3>3, EvDashOnly
  <2> QED BY <2>1, <2>2, <2>3, <2>4 DEF EvNext
<1> QED BY <1>1, <1>2, PTL DEF EvSpec

\* A slow subscriber costs nobody else an event, and the poll, the burst cap and the fetch limit
\* together neither skip nor repeat an audit row, for any number of clients and any sizes.
THEOREM EvStreamsAreExact == EvSpec => []EvInv
<1>1. EvIndInv => EvInv
  <2> SUFFICES ASSUME EvIndInv PROVE EvInv
    OBVIOUS
  <2>1. ASSUME NEW w \in EvWatchers
        PROVE /\ evBuf[w] \in Seq(1 .. evPub) /\ Len(evBuf[w]) <= EvBuf
              /\ evGot[w] \in Seq(1 .. evPub)
              /\ evSince[w] \in 0 .. evPub /\ evMissed[w] \subseteq 1 .. evPub
    <3>1. evBuf[w] \in Seq(Nat) /\ evGot[w] \in Seq(Nat) /\ evSince[w] \in Nat /\ evPub \in Nat /\ EvChannelOK(w)
      BY DEF EvIndInv, EvCoreOK, EvWatchOK, EvSubsType, EvChannelsOK
    <3>2. evBuf[w] \in Seq(1 .. evPub) /\ evGot[w] \in Seq(1 .. evPub)
      BY <3>1, EvSeqIn DEF EvChannelOK
    <3>3. evSince[w] \in 0 .. evPub
      BY <3>1 DEF EvChannelOK
    <3> QED BY <3>1, <3>2, <3>3 DEF EvChannelOK
  <2>2. evLast \in -1 .. evRows /\ evFresh \in Seq(1 .. evRows)
    <3>1. evLast \in Int /\ evRows \in Nat /\ -1 <= evLast /\ evLast <= evRows /\ evFresh \in Seq(Nat)
          /\ \A i \in 1 .. Len(evFresh) : evFresh[i] \in 1 .. evLast
      BY DEF EvIndInv, EvCoreOK, EvDashOK, EvDashType, EvBusOK
    <3>2. 1 .. evLast \subseteq 1 .. evRows /\ evLast \in -1 .. evRows
      BY <3>1
    <3>3. \A i \in 1 .. Len(evFresh) : evFresh[i] \in 1 .. evRows
      BY <3>1, <3>2
    <3> QED BY <3>1, <3>2, <3>3, EvSeqIn
  <2>3. ASSUME NEW t \in EvTabs
        PROVE /\ evQ[t] \in Seq({EvRefresh} \cup 1 .. evRows)
              /\ Len(evQ[t]) <= EvQueue
              /\ evKnown[t] \subseteq 1 .. evRows
              /\ evFrom[t] \in 0 .. evRows /\ evOver[t] \in BOOLEAN
    <3>1. evQ[t] \in Seq(Nat) /\ evFrom[t] \in Nat /\ evRows \in Nat /\ evOver[t] \in BOOLEAN /\ EvTabOK(t)
      BY DEF EvIndInv, EvCoreOK, EvDashOK, EvDashType, EvTabsOK
    <3>2. \A i \in 1 .. Len(evQ[t]) : evQ[t][i] \in {EvRefresh} \cup 1 .. evRows
      BY <3>1 DEF EvTabOK, EvRefresh
    <3>3. evQ[t] \in Seq({EvRefresh} \cup 1 .. evRows)
      BY <3>1, <3>2, EvSeqIn
    <3>4. evFrom[t] \in 0 .. evRows
      BY <3>1 DEF EvTabOK
    <3> QED BY <3>1, <3>3, <3>4 DEF EvTabOK
  <2>4. EvTypeOK
    <3>1. evFace \in EvFaces /\ evUp \in BOOLEAN /\ evFaults \in 0 .. EvMaxFaults
          /\ evPub \in Nat /\ evRows \in Nat /\ evOwed \in 0 .. 1
      BY DEF EvIndInv, EvCoreOK
    <3>2. /\ evAt \in [EvWatchers -> {"idle", "dialled", "acked", "on", "wait", "exit", "quit"}]
          /\ evBack \in [EvWatchers -> 1 .. EvMaxBack]
          /\ evNow \in [EvWatchers -> BOOLEAN] /\ evOnce \in [EvWatchers -> BOOLEAN]
      BY DEF EvIndInv, EvLinkOK
    <3>3. evTab \in [EvTabs -> {"page", "open", "closed"}]
      BY DEF EvIndInv, EvDashOK, EvDashType
    <3> QED BY <3>1, <3>2, <3>3, <2>1, <2>2, <2>3 DEF EvTypeOK
  <2>5. EvNothingSkipped
    <3> SUFFICES ASSUME NEW t \in EvTabs, evTab[t] = "open", ~evOver[t], evFresh = <<>>, NEW r \in evFrom[t] + 1 .. evLast
                 PROVE r \in evKnown[t] \/ r \in ToSet(evQ[t]) \/ EvRefresh \in ToSet(evQ[t])
      BY DEF EvNothingSkipped
    <3>1. ToSet(evFresh) = {} /\ ~(Len(evFresh) > EvBurst)
      BY EvConstants DEF ToSet
    <3>2. EvCovered(t)
      BY DEF EvIndInv, EvDashOK, EvTabsOK
    <3> QED BY <3>1, <3>2 DEF EvCovered
  <2>6. EvPushedOnce
    <3>1. EvAscends(evFresh) /\ evFresh \in Seq(Nat)
      BY DEF EvIndInv, EvDashOK, EvDashType, EvBusOK
    <3>2. ASSUME NEW t \in EvTabs
          PROVE /\ \A i, j \in 1 .. Len(evQ[t]) : i < j /\ evQ[t][j] # EvRefresh => evQ[t][i] < evQ[t][j]
                /\ \A r \in ToSet(evQ[t]), n \in ToSet(evFresh) : r < n
      <4>1. evQ[t] \in Seq(Nat) /\ EvTabOK(t)
        BY DEF EvIndInv, EvDashOK, EvDashType, EvTabsOK
      <4>2. ASSUME NEW r \in ToSet(evQ[t]), NEW n \in ToSet(evFresh) PROVE r < n
        <5>1. PICK i \in 1 .. Len(evQ[t]) : evQ[t][i] = r
          BY <4>1, EvToSetIs
        <5>2. PICK k \in 1 .. Len(evFresh) : evFresh[k] = n
          BY <3>1, EvToSetIs
        <5> QED BY <5>1, <5>2, <4>1 DEF EvTabOK
      <4> QED BY <4>1, <4>2 DEF EvTabOK
    <3> QED BY <3>1, <3>2 DEF EvPushedOnce
  <2> QED BY <2>4, <2>5, <2>6 DEF EvInv, EvIndInv, EvWatchOK
<1> QED BY <1>1, EvInvariant, PTL

-----------------------------------------------------------------------------
(* The supervised collectors, for any number of them. A line that a        *)
(* collector has handed over is in its mid, in rawLines, processed or      *)
(* given up: CsAccountOK counts them, with CsWaiting as the set of the     *)
(* slots taken in all the mids, so that a send adds or removes one element *)
(* of a finite set. CsChannelsOK says who may still hold lines, and        *)
(* CsStoryOK ties the alert to the streak of failures that raised it.      *)

\* The other variables.
CsShape ==
  /\ csKind \in [CsColls -> CsKinds] /\ csOutages \in Nat /\ csLines \in Nat
  /\ csReading \in [CsColls -> BOOLEAN] /\ csEver \in [CsColls -> BOOLEAN]
  /\ csLong \in [CsColls -> BOOLEAN] /\ csErr \in [CsColls -> {"nil", "error"}]
  /\ csHealth \in [CsColls -> BOOLEAN] /\ csAlerts \in [CsColls -> Nat]
  /\ csOrphan \in [CsColls -> Nat] /\ csClosed \in BOOLEAN /\ csCrashed \in BOOLEAN
  /\ csDone \in Nat /\ csDropped \in Nat /\ csPanics \in Nat

\* Who holds lines: a run and its forwarder, and what panics left behind.
CsChannelsOK ==
  /\ \A c \in CsColls : csMid[c] > 0 => csPc[c] \in {"running", "forward"}
  /\ \A c \in CsColls : csOrphan[c] > 0 => csPanics > 0
  /\ csClosed => \A c \in CsColls : csPc[c] = "done"
  /\ csCrashed => csPanics > 0

\* The slots taken in the mids.
CsWaiting == {s \in CsColls \X (1 .. CsMidCap) : s[2] <= csMid[s[1]]}

\* Until a panic or a cancelled context, every line is somewhere.
CsAccountOK ==
  csPanics = 0 /\ csCtx # "cancelled" =>
    /\ csPipe = "ended" => csClosed /\ csOut = 0
    /\ IsFiniteSet(CsWaiting)
    /\ csLines = csDone + csDropped + csOut + Cardinality(CsWaiting)

\* DEGRADED is the streak of failures at the threshold.
CsStoryOK ==
  \A c \in CsColls : csPc[c] # "done" => (csHealth[c] <=> csFails[c] >= CsAlert)

\* The inductive invariant.
CsIndInv == CsTypeOK /\ CsShape /\ CsChannelsOK /\ CsAccountOK /\ CsOneStory /\ CsStoryOK

\* CsInit: the daemon starts with empty channels.
LEMMA CsInitInv == CsInit => CsIndInv
<1> SUFFICES ASSUME CsInit PROVE CsIndInv
  OBVIOUS
<1>0. /\ CsBase \in Nat \ {0} /\ CsMaxBackoff \in Nat /\ CsBase <= CsMaxBackoff
      /\ CsAlert \in Nat \ {0} /\ CsReconnectMax \in Nat /\ CsMidCap \in Nat /\ CsOutCap \in Nat
  BY CsConstants
<1>1. CsTypeOK /\ CsShape
  <2>1. CsTypeOK
    BY <1>0 DEF CsInit, CsTypeOK
  <2>2. CsShape
    BY DEF CsInit, CsShape
  <2> QED
    BY <2>1, <2>2
<1>4. CsChannelsOK
  BY DEF CsInit, CsChannelsOK
<1>5. CsOneStory /\ CsStoryOK
  BY CsConstants DEF CsInit, CsOneStory, CsStoryOK
<1>2. CsWaiting = {}
  BY CsConstants DEF CsInit, CsWaiting
<1>3. CsAccountOK
  BY <1>2, FS_EmptySet DEF CsInit, CsAccountOK
<1> QED
  BY <1>1, <1>3, <1>4, <1>5 DEF CsIndInv

\* Types: the counters that the code bounds stay within their bounds.
LEMMA CsTypeKept == ASSUME CsTypeOK, CsShape, [CsNext]_csVars PROVE CsTypeOK' /\ CsShape'
<1> USE CsConstants DEF CsTypeOK, CsShape, CsLeast, csEnv, csColl, csChan
<1>1. CASE \E c \in CsColls : CsStart(c)
  BY <1>1 DEF CsStart
<1>2. CASE \E c \in CsColls : CsConnect(c)
  BY <1>2 DEF CsConnect
<1>3. CASE \E c \in CsColls : CsAttemptFails(c)
  <2> PICK c \in CsColls : CsAttemptFails(c)
    BY <1>3
  <2>1. csTries' \in [CsColls -> 0 .. CsReconnectMax]
    BY DEF CsAttemptFails
  <2>2. CASE CsReturn(c, "error")
    BY <2>1, <2>2 DEF CsReturn
  <2>3. CASE UNCHANGED <<csPc, csMode, csReading, csEver, csLong, csErr, csBackoff,
                         csFails, csHealth, csAlerts, csEnv, csChan>>
    BY <2>1, <2>3
  <2> QED
    BY <2>2, <2>3 DEF CsAttemptFails
<1>4. CASE \E c \in CsColls : CsInspectFails(c)
  BY <1>4 DEF CsInspectFails
<1>5. CASE \E c \in CsColls : CsStreamEnds(c)
  BY <1>5 DEF CsStreamEnds
<1>6. CASE \E c \in CsColls : CsChildExits(c)
  BY <1>6 DEF CsChildExits, CsReturn
<1>7. CASE \E c \in CsColls : CsStopped(c)
  BY <1>7 DEF CsStopped, CsReturn
<1>8. CASE \E c \in CsColls : CsForwarded(c)
  BY <1>8 DEF CsForwarded, CsFwdDone
<1>9. CASE \E c \in CsColls : CsEnds(c)
  BY <1>9 DEF CsEnds
<1>10. CASE \E c \in CsColls : CsFails(c)
  BY <1>10 DEF CsFails, CsFailsNow, CsFresh, CsDegradedNow, CsAlertsNow
<1>11. CASE \E c \in CsColls : CsRestart(c)
  BY <1>11 DEF CsRestart
<1>12. CASE \E c \in CsColls : CsWaitCancelled(c)
  BY <1>12 DEF CsWaitCancelled
<1>13. CASE \E c \in CsColls : CsForward(c)
  BY <1>13 DEF CsForward, CsSend
<1>14. CASE \E c \in CsColls : CsForwardOrphan(c)
  BY <1>14 DEF CsForwardOrphan, CsSend
<1>15. CASE \E c \in CsColls : CsSendPanics(c)
  BY <1>15 DEF CsSendPanics
<1>16. CASE \E c \in CsColls : CsLine(c)
  BY <1>16 DEF CsLine
<1>17. CASE \E c \in CsColls : CsLineDropped(c)
  BY <1>17 DEF CsLineDropped
<1>18. CASE \E c \in CsColls : CsSurvives(c)
  BY <1>18 DEF CsSurvives
<1>19. CASE \E c \in CsColls : CsCompletes(c)
  BY <1>19 DEF CsCompletes, CsReturn
<1>20. CASE \E c \in CsColls : CsPanic(c)
  BY <1>20 DEF CsPanic
<1>21. CASE \E c \in CsColls : CsOutage(c)
  BY <1>21 DEF CsOutage
<1>22. CASE \E c \in CsColls : CsRepair(c)
  BY <1>22 DEF CsRepair
<1>23. CASE CsClose
  BY <1>23 DEF CsClose
<1>24. CASE CsProcess
  BY <1>24 DEF CsProcess
<1>25. CASE CsPipeEnds
  BY <1>25 DEF CsPipeEnds
<1>26. CASE CsPipePanics
  BY <1>26 DEF CsPipePanics
<1>27. CASE CsSigterm
  BY <1>27 DEF CsSigterm
<1>28. CASE CsDrained
  BY <1>28 DEF CsDrained
<1>29. CASE CsSigint
  BY <1>29 DEF CsSigint
<1>30. CASE CsDrainTimeout
  BY <1>30 DEF CsDrainTimeout
<1>31. CASE UNCHANGED csVars
  BY <1>31 DEF csVars
<1> QED
  BY <1>1, <1>2, <1>3, <1>4, <1>5, <1>6, <1>7, <1>8, <1>9, <1>10, <1>11, <1>12, <1>13, <1>14, <1>15,
     <1>16, <1>17, <1>18, <1>19, <1>20, <1>21, <1>22, <1>23, <1>24, <1>25, <1>26, <1>27, <1>28, <1>29, <1>30, <1>31
     DEF CsNext, CsStep, CsForwards, CsPipeline

\* What may be in the channels: runCollectorOnce returns only when its forwarder
\* has emptied mid, and rawLines is closed when every supervisor has returned.
LEMMA CsChannelsKept ==
  ASSUME CsTypeOK, CsShape, CsChannelsOK, [CsNext]_csVars PROVE CsChannelsOK'
<1> USE CsConstants DEF CsTypeOK, CsShape, CsChannelsOK, csEnv, csColl, csChan
<1>1. CASE \E c \in CsColls : CsStart(c)
  BY <1>1 DEF CsStart
<1>2. CASE \E c \in CsColls : CsConnect(c)
  BY <1>2 DEF CsConnect
<1>3. CASE \E c \in CsColls : CsAttemptFails(c)
  BY <1>3 DEF CsAttemptFails, CsReturn
<1>4. CASE \E c \in CsColls : CsInspectFails(c)
  BY <1>4 DEF CsInspectFails
<1>5. CASE \E c \in CsColls : CsStreamEnds(c)
  BY <1>5 DEF CsStreamEnds
<1>6. CASE \E c \in CsColls : CsChildExits(c)
  BY <1>6 DEF CsChildExits, CsReturn
<1>7. CASE \E c \in CsColls : CsStopped(c)
  BY <1>7 DEF CsStopped, CsReturn
<1>8. CASE \E c \in CsColls : CsForwarded(c)
  BY <1>8 DEF CsForwarded, CsFwdDone
<1>9. CASE \E c \in CsColls : CsEnds(c)
  BY <1>9 DEF CsEnds
<1>10. CASE \E c \in CsColls : CsFails(c)
  BY <1>10 DEF CsFails
<1>11. CASE \E c \in CsColls : CsRestart(c)
  BY <1>11 DEF CsRestart
<1>12. CASE \E c \in CsColls : CsWaitCancelled(c)
  BY <1>12 DEF CsWaitCancelled
<1>13. CASE \E c \in CsColls : CsForward(c)
  BY <1>13 DEF CsForward, CsSend
<1>14. CASE \E c \in CsColls : CsForwardOrphan(c)
  BY <1>14 DEF CsForwardOrphan, CsSend
<1>15. CASE \E c \in CsColls : CsSendPanics(c)
  BY <1>15 DEF CsSendPanics
<1>16. CASE \E c \in CsColls : CsLine(c)
  BY <1>16 DEF CsLine
<1>17. CASE \E c \in CsColls : CsLineDropped(c)
  BY <1>17 DEF CsLineDropped
<1>18. CASE \E c \in CsColls : CsSurvives(c)
  BY <1>18 DEF CsSurvives
<1>19. CASE \E c \in CsColls : CsCompletes(c)
  BY <1>19 DEF CsCompletes, CsReturn
<1>20. CASE \E c \in CsColls : CsPanic(c)
  BY <1>20 DEF CsPanic
<1>21. CASE \E c \in CsColls : CsOutage(c)
  BY <1>21 DEF CsOutage
<1>22. CASE \E c \in CsColls : CsRepair(c)
  BY <1>22 DEF CsRepair
<1>23. CASE CsClose
  BY <1>23 DEF CsClose
<1>24. CASE CsProcess
  BY <1>24 DEF CsProcess
<1>25. CASE CsPipeEnds
  BY <1>25 DEF CsPipeEnds
<1>26. CASE CsPipePanics
  BY <1>26 DEF CsPipePanics
<1>27. CASE CsSigterm
  BY <1>27 DEF CsSigterm
<1>28. CASE CsDrained
  BY <1>28 DEF CsDrained
<1>29. CASE CsSigint
  BY <1>29 DEF CsSigint
<1>30. CASE CsDrainTimeout
  BY <1>30 DEF CsDrainTimeout
<1>31. CASE UNCHANGED csVars
  BY <1>31 DEF csVars
<1> QED
  BY <1>1, <1>2, <1>3, <1>4, <1>5, <1>6, <1>7, <1>8, <1>9, <1>10, <1>11, <1>12, <1>13, <1>14, <1>15,
     <1>16, <1>17, <1>18, <1>19, <1>20, <1>21, <1>22, <1>23, <1>24, <1>25, <1>26, <1>27, <1>28, <1>29, <1>30, <1>31
     DEF CsNext, CsStep, CsForwards, CsPipeline

\* recordCollectorFailure and recordCollectorHealthy: one alert per streak.
LEMMA CsStoryKept ==
  ASSUME CsTypeOK, CsShape, CsOneStory, CsStoryOK, [CsNext]_csVars PROVE CsOneStory' /\ CsStoryOK'
<1> USE CsConstants DEF CsTypeOK, CsShape, CsOneStory, CsStoryOK, csEnv, csColl, csChan
<1>1. CASE \E c \in CsColls : CsStart(c)
  BY <1>1 DEF CsStart
<1>2. CASE \E c \in CsColls : CsConnect(c)
  BY <1>2 DEF CsConnect
<1>3. CASE \E c \in CsColls : CsAttemptFails(c)
  BY <1>3 DEF CsAttemptFails, CsReturn
<1>4. CASE \E c \in CsColls : CsInspectFails(c)
  BY <1>4 DEF CsInspectFails
<1>5. CASE \E c \in CsColls : CsStreamEnds(c)
  BY <1>5 DEF CsStreamEnds
<1>6. CASE \E c \in CsColls : CsChildExits(c)
  BY <1>6 DEF CsChildExits, CsReturn
<1>7. CASE \E c \in CsColls : CsStopped(c)
  BY <1>7 DEF CsStopped, CsReturn
<1>8. CASE \E c \in CsColls : CsForwarded(c)
  BY <1>8 DEF CsForwarded, CsFwdDone
<1>9. CASE \E c \in CsColls : CsEnds(c)
  <2> PICK c \in CsColls : CsEnds(c)
    BY <1>9
  <2>1. csHealth'[c] = (csHealth[c] /\ ~(csCtx = "run" /\ csLong[c]))
    BY DEF CsEnds
  <2>2. csAlerts'[c] = IF csCtx = "run" /\ csLong[c] THEN 0 ELSE csAlerts[c]
    BY DEF CsEnds
  <2>3. \A d \in CsColls \ {c} : csHealth'[d] = csHealth[d] /\ csAlerts'[d] = csAlerts[d] /\ csPc'[d] = csPc[d]
    BY DEF CsEnds
  <2>4. csPc'[c] = "done" /\ csFails' = csFails
    BY DEF CsEnds
  <2>5. csAlerts'[c] = IF csHealth'[c] THEN 1 ELSE 0
    BY <2>1, <2>2
  <2> QED
    BY <2>3, <2>4, <2>5
<1>10. CASE \E c \in CsColls : CsFails(c)
  <2> PICK c \in CsColls : CsFails(c)
    BY <1>10
  <2>1. csHealth'[c] = CsDegradedNow(c) /\ csAlerts'[c] = CsAlertsNow(c) /\ csFails'[c] = CsFailsNow(c)
    BY DEF CsFails
  <2>2. \A d \in CsColls \ {c} : /\ csHealth'[d] = csHealth[d] /\ csAlerts'[d] = csAlerts[d]
                                 /\ csFails'[d] = csFails[d] /\ csPc'[d] = csPc[d]
    BY DEF CsFails
  <2>3. csHealth[c] <=> csFails[c] >= CsAlert
    BY DEF CsFails
  <2>4. csHealth'[c] <=> (CsFailsNow(c) >= CsAlert \/ (csHealth[c] /\ ~CsFresh(c)))
    BY <2>1, Zenon DEF CsDegradedNow
  <2>5. CASE CsFresh(c)
    <3>1. CsFailsNow(c) = 1 /\ csAlerts'[c] = IF CsFailsNow(c) = CsAlert THEN 1 ELSE 0
      BY <2>1, <2>5 DEF CsFailsNow, CsAlertsNow, CsLeast
    <3> QED
      BY <2>1, <2>2, <2>4, <2>5, <3>1
  <2>6. CASE ~CsFresh(c) /\ csFails[c] >= CsAlert
    <3>1. CsFailsNow(c) = CsAlert + 1 /\ csAlerts'[c] = csAlerts[c]
      BY <2>1, <2>6 DEF CsFailsNow, CsAlertsNow, CsLeast
    <3> QED
      BY <2>1, <2>2, <2>3, <2>4, <2>6, <3>1
  <2>7. CASE ~CsFresh(c) /\ ~(csFails[c] >= CsAlert)
    <3>1. CsFailsNow(c) = csFails[c] + 1 /\ csAlerts[c] = 0 /\ ~csHealth[c]
      BY <2>3, <2>7 DEF CsFailsNow, CsLeast
    <3>2. csAlerts'[c] = IF CsFailsNow(c) = CsAlert THEN 1 ELSE 0
      BY <2>1, <2>7, <3>1 DEF CsAlertsNow
    <3> QED
      BY <2>1, <2>2, <2>4, <2>7, <3>1, <3>2
  <2> QED
    BY <2>5, <2>6, <2>7
<1>11. CASE \E c \in CsColls : CsRestart(c)
  BY <1>11 DEF CsRestart
<1>12. CASE \E c \in CsColls : CsWaitCancelled(c)
  BY <1>12 DEF CsWaitCancelled
<1>13. CASE \E c \in CsColls : CsForward(c)
  BY <1>13 DEF CsForward, CsSend
<1>14. CASE \E c \in CsColls : CsForwardOrphan(c)
  BY <1>14 DEF CsForwardOrphan, CsSend
<1>15. CASE \E c \in CsColls : CsSendPanics(c)
  BY <1>15 DEF CsSendPanics
<1>16. CASE \E c \in CsColls : CsLine(c)
  BY <1>16 DEF CsLine
<1>17. CASE \E c \in CsColls : CsLineDropped(c)
  BY <1>17 DEF CsLineDropped
<1>18. CASE \E c \in CsColls : CsSurvives(c)
  BY <1>18 DEF CsSurvives
<1>19. CASE \E c \in CsColls : CsCompletes(c)
  BY <1>19 DEF CsCompletes, CsReturn
<1>20. CASE \E c \in CsColls : CsPanic(c)
  BY <1>20 DEF CsPanic
<1>21. CASE \E c \in CsColls : CsOutage(c)
  BY <1>21 DEF CsOutage
<1>22. CASE \E c \in CsColls : CsRepair(c)
  BY <1>22 DEF CsRepair
<1>23. CASE CsClose
  BY <1>23 DEF CsClose
<1>24. CASE CsProcess
  BY <1>24 DEF CsProcess
<1>25. CASE CsPipeEnds
  BY <1>25 DEF CsPipeEnds
<1>26. CASE CsPipePanics
  BY <1>26 DEF CsPipePanics
<1>27. CASE CsSigterm
  BY <1>27 DEF CsSigterm
<1>28. CASE CsDrained
  BY <1>28 DEF CsDrained
<1>29. CASE CsSigint
  BY <1>29 DEF CsSigint
<1>30. CASE CsDrainTimeout
  BY <1>30 DEF CsDrainTimeout
<1>31. CASE UNCHANGED csVars
  BY <1>31 DEF csVars
<1> QED
  BY <1>1, <1>2, <1>3, <1>4, <1>5, <1>6, <1>7, <1>8, <1>9, <1>10, <1>11, <1>12, <1>13, <1>14, <1>15,
     <1>16, <1>17, <1>18, <1>19, <1>20, <1>21, <1>22, <1>23, <1>24, <1>25, <1>26, <1>27, <1>28, <1>29, <1>30, <1>31
     DEF CsNext, CsStep, CsForwards, CsPipeline

\* Steps that touch neither the channels nor the counts.
LEMMA CsAccountFrame ==
  ASSUME CsAccountOK, csMid' = csMid, csPanics' = csPanics, csPipe' = csPipe, csOut' = csOut,
         csClosed' = csClosed, csLines' = csLines, csDone' = csDone, csDropped' = csDropped,
         csCtx' \in {csCtx, "cancelled"} \/ csCtx = "run"
  PROVE  CsAccountOK'
<1>1. CsWaiting' = CsWaiting
  BY DEF CsWaiting
<1> QED
  BY <1>1 DEF CsAccountOK

\* Nobody loses a line: every step moves it from one place to the next.
LEMMA CsAccountKept ==
  ASSUME CsTypeOK, CsShape, CsChannelsOK, CsAccountOK, [CsNext]_csVars PROVE CsAccountOK'
<1> USE CsConstants DEF CsTypeOK, CsShape
<1>1. CASE \E c \in CsColls : CsStart(c)
  BY <1>1, CsAccountFrame DEF CsStart, csEnv, csColl, csChan
<1>2. CASE \E c \in CsColls : CsConnect(c)
  BY <1>2, CsAccountFrame DEF CsConnect, csEnv, csColl, csChan
<1>3. CASE \E c \in CsColls : CsAttemptFails(c)
  BY <1>3, CsAccountFrame DEF CsAttemptFails, csEnv, csColl, csChan, CsReturn
<1>4. CASE \E c \in CsColls : CsInspectFails(c)
  BY <1>4, CsAccountFrame DEF CsInspectFails, csEnv, csColl, csChan
<1>5. CASE \E c \in CsColls : CsStreamEnds(c)
  BY <1>5, CsAccountFrame DEF CsStreamEnds, csEnv, csColl, csChan
<1>6. CASE \E c \in CsColls : CsChildExits(c)
  BY <1>6, CsAccountFrame DEF CsChildExits, csEnv, csColl, csChan, CsReturn
<1>7. CASE \E c \in CsColls : CsStopped(c)
  BY <1>7, CsAccountFrame DEF CsStopped, csEnv, csColl, csChan, CsReturn
<1>8. CASE \E c \in CsColls : CsForwarded(c)
  BY <1>8, CsAccountFrame DEF CsForwarded, csEnv, csColl, csChan, CsFwdDone
<1>9. CASE \E c \in CsColls : CsEnds(c)
  BY <1>9, CsAccountFrame DEF CsEnds, csEnv, csColl, csChan
<1>10. CASE \E c \in CsColls : CsFails(c)
  BY <1>10, CsAccountFrame DEF CsFails, csEnv, csColl, csChan
<1>11. CASE \E c \in CsColls : CsRestart(c)
  BY <1>11, CsAccountFrame DEF CsRestart, csEnv, csColl, csChan
<1>12. CASE \E c \in CsColls : CsWaitCancelled(c)
  BY <1>12, CsAccountFrame DEF CsWaitCancelled, csEnv, csColl, csChan
<1>13. CASE \E c \in CsColls : CsForward(c)
  <2> PICK c \in CsColls : CsForward(c)
    BY <1>13
  <2> DEFINE s == <<c, csMid[c]>>
  <2>1. CsWaiting' = CsWaiting \ {s} /\ s \in CsWaiting
    BY DEF CsForward, CsWaiting
  <2>2. IsFiniteSet(CsWaiting) => Cardinality(CsWaiting) \in Nat
    BY FS_CardinalityType
  <2>3. IsFiniteSet(CsWaiting) => IsFiniteSet(CsWaiting') /\ Cardinality(CsWaiting') = Cardinality(CsWaiting) - 1
    <3> HIDE DEF s
    <3>1. ASSUME IsFiniteSet(CsWaiting)
          PROVE  IsFiniteSet(CsWaiting \ {s}) /\ Cardinality(CsWaiting \ {s}) = Cardinality(CsWaiting) - 1
      BY <2>1, <3>1, FS_RemoveElement
    <3> QED
      BY <2>1, <3>1
  <2> QED
    BY <2>2, <2>3 DEF CsForward, CsSend, CsAccountOK, csEnv
<1>14. CASE \E c \in CsColls : CsForwardOrphan(c)
  BY <1>14 DEF CsForwardOrphan, CsSend, CsChannelsOK, CsAccountOK
<1>15. CASE \E c \in CsColls : CsSendPanics(c)
  BY <1>15, CsAccountFrame DEF CsSendPanics, csEnv, csColl, csChan
<1>16. CASE \E c \in CsColls : CsLine(c)
  <2> PICK c \in CsColls : CsLine(c)
    BY <1>16
  <2> DEFINE s == <<c, csMid[c] + 1>>
  <2>0. csMid[c] + 1 \in 1 .. CsMidCap /\ csMid' = [csMid EXCEPT ![c] = csMid[c] + 1]
    BY DEF CsLine
  <2>1. CsWaiting' = CsWaiting \cup {s} /\ s \notin CsWaiting
    BY <2>0 DEF CsWaiting
  <2>2. IsFiniteSet(CsWaiting) => Cardinality(CsWaiting) \in Nat
    BY FS_CardinalityType
  <2>3. IsFiniteSet(CsWaiting) => IsFiniteSet(CsWaiting') /\ Cardinality(CsWaiting') = Cardinality(CsWaiting) + 1
    BY <2>1, FS_AddElement
  <2> QED
    BY <2>2, <2>3 DEF CsLine, CsAccountOK
<1>17. CASE \E c \in CsColls : CsLineDropped(c)
  <2>1. CsWaiting' = CsWaiting
    BY <1>17 DEF CsLineDropped, CsWaiting
  <2>2. IsFiniteSet(CsWaiting) => Cardinality(CsWaiting) \in Nat
    BY FS_CardinalityType
  <2> QED
    BY <1>17, <2>1, <2>2 DEF CsLineDropped, CsAccountOK
<1>18. CASE \E c \in CsColls : CsSurvives(c)
  BY <1>18, CsAccountFrame DEF CsSurvives, csEnv, csColl, csChan
<1>19. CASE \E c \in CsColls : CsCompletes(c)
  BY <1>19, CsAccountFrame DEF CsCompletes, csEnv, csColl, csChan, CsReturn
<1>20. CASE \E c \in CsColls : CsPanic(c)
  BY <1>20 DEF CsPanic, CsAccountOK
<1>21. CASE \E c \in CsColls : CsOutage(c)
  BY <1>21, CsAccountFrame DEF CsOutage, csEnv, csColl, csChan
<1>22. CASE \E c \in CsColls : CsRepair(c)
  BY <1>22, CsAccountFrame DEF CsRepair, csEnv, csColl, csChan
<1>23. CASE CsClose
  <2>1. CsWaiting' = CsWaiting
    BY <1>23 DEF CsClose, CsWaiting
  <2> QED
    BY <1>23, <2>1 DEF CsClose, CsAccountOK, csEnv
<1>24. CASE CsProcess
  <2>1. CsWaiting' = CsWaiting
    BY <1>24 DEF CsProcess, CsWaiting
  <2>2. IsFiniteSet(CsWaiting) => Cardinality(CsWaiting) \in Nat
    BY FS_CardinalityType
  <2> QED
    BY <1>24, <2>1, <2>2 DEF CsProcess, CsAccountOK, csEnv
<1>25. CASE CsPipeEnds
  <2>1. CsWaiting' = CsWaiting
    BY <1>25 DEF CsPipeEnds, CsWaiting
  <2> QED
    BY <1>25, <2>1 DEF CsPipeEnds, CsAccountOK, csEnv
<1>26. CASE CsPipePanics
  BY <1>26 DEF CsPipePanics, CsAccountOK
<1>27. CASE CsSigterm
  BY <1>27, CsAccountFrame DEF CsSigterm, csEnv, csColl, csChan
<1>28. CASE CsDrained
  BY <1>28, CsAccountFrame DEF CsDrained, csEnv, csColl, csChan
<1>29. CASE CsSigint
  BY <1>29, CsAccountFrame DEF CsSigint, csEnv, csColl, csChan
<1>30. CASE CsDrainTimeout
  BY <1>30, CsAccountFrame DEF CsDrainTimeout, csEnv, csColl, csChan
<1>31. CASE UNCHANGED csVars
  BY <1>31, CsAccountFrame DEF csVars, csEnv, csColl, csChan
<1> QED
  BY <1>1, <1>2, <1>3, <1>4, <1>5, <1>6, <1>7, <1>8, <1>9, <1>10, <1>11, <1>12, <1>13, <1>14, <1>15,
     <1>16, <1>17, <1>18, <1>19, <1>20, <1>21, <1>22, <1>23, <1>24, <1>25, <1>26, <1>27, <1>28, <1>29, <1>30, <1>31
     DEF CsNext, CsStep, CsForwards, CsPipeline

\* runCollector, runCollectorOnce and Daemon.Run keep the invariant.
LEMMA CsNextInv == ASSUME CsIndInv, [CsNext]_csVars PROVE CsIndInv'
BY CsTypeKept, CsChannelsKept, CsStoryKept, CsAccountKept DEF CsIndInv

\* Channels, counts, health and alerts fit together in every state, for any
\* number of collectors of any kinds.
THEOREM CsInvariant == CsSpec => []CsIndInv
BY CsInitInv, CsNextInv, PTL DEF CsSpec

\* Daemon.Run and runCollector: without a panic nothing is sent on the closed
\* rawLines, a graceful stop has processed every line that a collector handed
\* over, and a collector shown as DEGRADED was announced exactly once, for any
\* number of collectors, any capacities and any thresholds.
THEOREM CsCollectorsAreAccounted == CsSpec => []CsInv
<1>1. CsIndInv => CsInv
  <2> SUFFICES ASSUME CsIndInv PROVE CsInv
    OBVIOUS
  <2>1. CsTypeOK /\ CsNoSendAfterClose /\ CsOneStory
    BY DEF CsIndInv, CsNoSendAfterClose, CsChannelsOK
  <2>2. ASSUME csCtx = "drain", csPipe = "ended", csPanics = 0 PROVE csLines = csDone + csDropped
    <3>1. csClosed /\ csOut = 0 /\ csLines = csDone + csDropped + csOut + Cardinality(CsWaiting)
      BY <2>2 DEF CsIndInv, CsAccountOK
    <3>2. CsWaiting = {}
      BY <3>1, CsConstants DEF CsIndInv, CsChannelsOK, CsWaiting, CsTypeOK
    <3> QED
      BY <3>1, <3>2, FS_EmptySet DEF CsIndInv, CsShape
  <2> QED
    BY <2>1, <2>2 DEF CsInv, CsDrainComplete
<1> QED
  BY <1>1, CsInvariant, PTL

-----------------------------------------------------------------------------
(* SSH peers: the two caches, the gate and the re-check queue.             *)

\* What the cached lists know of an address whose session is older than they are: logind's
\* answer names it, and so does the peer list built from that answer.
SpCachesOK ==
    /\ spSess.ok /\ spSessAge < SpSessTTL => \A i \in SpIPs : spIn[i] > spSessAge => i \in spSess.hosts
    /\ spPeersAge <= SpPeerTTL =>
         \A i \in SpIPs : spUp[i] > spPeersAge /\ spIn[i] > spPeersAge + SpSessTTL => i \in spPeers

\* An armed entry is due a whole delay after the last refusal, and one that was taken is
\* looked at in the tick in which it became due, unless an event was refused meanwhile.
SpDelayOK ==
    /\ \A i \in SpIPs : spQ[i].att >= 0 => spRef[i] + spQ[i].due >= SpDelay
    /\ \A i \in SpIPs : spItem[i] >= 0 => spRef[i] >= SpDelay \/ spRef[i] = 0
    /\ \A i \in SpIPs : spItem[i] >= 0 /\ spQ[i].att >= 0 => spQ[i].due = SpDelay

\* The inductive invariant.
SpIndInv == SpTypeOK /\ SpCachesOK /\ SpDelayOK /\ SpNotForgotten

\* A look at the peer list, from the cache or through a new probe.
SpLook(peers) == peers \subseteq SpIPs /\ SpPeersAre(peers) /\ UNCHANGED spWorld

\* The part of the type invariant about the probe's caches.
SpProbeOK ==
    /\ spPeers \subseteq SpIPs /\ spPeersAge \in 0..SpPeerTTL + 1
    /\ spSess \in [ok : BOOLEAN, hosts : SUBSET SpIPs] /\ spSessAge \in 0..SpSessTTL
    /\ spSeen \in [SpIPs -> -1..SpGrace + 1]

\* A look keeps the caches truthful.
LEMMA SpLookKeeps ==
    ASSUME SpIndInv, NEW peers, SpLook(peers)
    PROVE  /\ SpProbeOK' /\ SpCachesOK'
           /\ spPeersAge' <= SpPeerTTL /\ peers = spPeers'
<1> USE SpAssumption
<1>0. spUp \in [SpIPs -> -1..SpOld] /\ spIn \in [SpIPs -> -1..SpOld] /\ spSeen \in [SpIPs -> -1..SpGrace + 1]
      /\ SpProbeOK /\ SpCachesOK
    BY DEF SpIndInv, SpTypeOK, SpProbeOK
<1>1. spUp' = spUp /\ spIn' = spIn
    BY DEF SpLook, spWorld
<1>2. CASE spPeersAge <= SpPeerTTL
    <2>1. peers = spPeers /\ UNCHANGED spProbe
        BY <1>2 DEF SpLook, SpPeersAre
    <2> QED
        BY <1>0, <1>1, <1>2, <2>1 DEF spProbe, SpProbeOK, SpCachesOK
<1>3. CASE ~(spPeersAge <= SpPeerTTL)
    <2>1. PICK sess \in SpSessions :
            /\ peers = SpKept(sess, SpFirstSeen)
            /\ spSeen' = SpFirstSeen
            /\ spSess' = sess /\ spSessAge' = IF spSessAge < SpSessTTL THEN spSessAge ELSE 0
            /\ spPeers' = peers /\ spPeersAge' = 0
        BY <1>3 DEF SpLook, SpPeersAre
    <2>2. sess \in [ok : BOOLEAN, hosts : SUBSET SpIPs]
        <3>1. CASE spSessAge < SpSessTTL
            BY <1>0, <2>1, <3>1 DEF SpSessions, SpProbeOK
        <3>2. CASE ~(spSessAge < SpSessTTL)
            <4>1. sess \in SpRemoteHosts
                BY <2>1, <3>2 DEF SpSessions
            <4>2. PICK h \in SUBSET SpIPs : \E ok \in BOOLEAN : sess = [ok |-> ok, hosts |-> h]
                <5>1. CASE sess = SpUnavailable
                    BY <5>1 DEF SpUnavailable
                <5>2. CASE sess = [ok |-> TRUE, hosts |-> {i \in SpIPs : spIn[i] >= 0}]
                    BY <5>2
                <5> QED
                    BY <4>1, <5>1, <5>2 DEF SpRemoteHosts
            <4> QED
                BY <4>2
        <3> QED
            BY <3>1, <3>2
    <2>3. spSessAge' \in 0..SpSessTTL /\ spSessAge' < SpSessTTL
        BY <1>0, <2>1 DEF SpProbeOK
    <2>4. SpFirstSeen \in [SpIPs -> -1..SpGrace + 1]
        BY <1>0 DEF SpFirstSeen
    <2>5. SpProbeOK'
        <3>1. peers \subseteq SpIPs
            BY DEF SpLook
        <3> QED
            BY <2>1, <2>2, <2>3, <2>4, <3>1 DEF SpProbeOK
    <2>6. ASSUME sess.ok, NEW i \in SpIPs, spIn[i] > spSessAge' PROVE i \in sess.hosts
        <3>1. CASE spSessAge < SpSessTTL
            BY <1>0, <2>1, <2>6, <3>1 DEF SpSessions, SpCachesOK
        <3>2. CASE ~(spSessAge < SpSessTTL)
            <4>1. sess \in SpRemoteHosts /\ spSessAge' = 0
                BY <2>1, <3>2 DEF SpSessions
            <4>2. sess = [ok |-> TRUE, hosts |-> {j \in SpIPs : spIn[j] >= 0}]
                BY <2>6, <4>1 DEF SpRemoteHosts, SpUnavailable
            <4>3. spIn[i] >= 0
                BY <1>0, <2>6, <4>1
            <4> QED
                BY <4>2, <4>3
        <3> QED
            BY <3>1, <3>2
    <2>7. ASSUME NEW i \in SpIPs, spUp[i] > 0, spIn[i] > SpSessTTL PROVE i \in peers
        <3>1. i \in SpEstablished
            BY <1>0, <2>7 DEF SpEstablished
        <3>2. CASE sess.ok
            <4>1. spIn[i] > spSessAge'
                BY <1>0, <2>3, <2>7
            <4>2. i \in sess.hosts
                BY <2>6, <3>2, <4>1
            <4> QED
                BY <2>1, <3>1, <3>2, <4>2 DEF SpKept
        <3>3. CASE ~sess.ok
            BY <2>1, <3>1, <3>3 DEF SpKept
        <3> QED
            BY <3>2, <3>3
    <2>8. SpCachesOK'
        BY <1>1, <2>1, <2>6, <2>7 DEF SpCachesOK
    <2> QED
        BY <2>1, <2>5, <2>8
<1> QED
    BY <1>2, <1>3

\* Nobody with an old session is missing from the list a look returns.
LEMMA SpLookSees ==
    ASSUME SpIndInv, NEW peers, SpLook(peers), NEW i \in SpIPs, i \notin peers
    PROVE  spUp[i] <= SpPeerTTL \/ spIn[i] <= SpPeerTTL + SpSessTTL
<1>1. SpCachesOK' /\ SpProbeOK' /\ spPeersAge' <= SpPeerTTL /\ peers = spPeers'
    BY SpLookKeeps
<1>2. spUp' = spUp /\ spIn' = spIn
    BY DEF SpLook, spWorld
<1>3. spUp[i] \in -1..SpOld /\ spIn[i] \in -1..SpOld
    BY DEF SpIndInv, SpTypeOK
<1>4. spPeersAge' \in 0..SpPeerTTL + 1
    BY <1>1 DEF SpProbeOK
<1> QED
    BY <1>1, <1>2, <1>3, <1>4, SpAssumption DEF SpCachesOK, SpOld

\* The queue side of the invariant.
SpQueueOK ==
    /\ spQ \in [SpIPs -> [due : 0..SpDelay, att : -1..SpMaxAttempts - 1]]
    /\ spItem \in [SpIPs -> -1..SpMaxAttempts - 1]
    /\ spRef \in [SpIPs -> 0..SpDelay + 1]
    /\ spOwed \subseteq SpIPs
    /\ SpDelayOK /\ SpNotForgotten

\* The invariant is about the probe and about the queue.
LEMMA SpBoth ==
    SpIndInv <=> /\ SpProbeOK /\ SpCachesOK /\ SpQueueOK
                 /\ spUp \in [SpIPs -> -1..SpOld] /\ spIn \in [SpIPs -> -1..SpOld]
                 /\ spWin \in [SpIPs -> 0..SpWindow]
                 /\ spCrowd \in BOOLEAN /\ spBans \subseteq SpIPs /\ spEvents \in 0..SpMaxEvents
    BY DEF SpIndInv, SpTypeOK, SpProbeOK, SpQueueOK


\* The same, address by address: types first.
SpQueueShape(q, item, ref, owed) ==
    /\ q \in [SpIPs -> [due : 0..SpDelay, att : -1..SpMaxAttempts - 1]]
    /\ item \in [SpIPs -> -1..SpMaxAttempts - 1]
    /\ ref \in [SpIPs -> 0..SpDelay + 1]
    /\ owed \subseteq SpIPs

\* An address's entry, item, last refusal and debt.
SpEntryOK(entry, it, ref, owed) ==
    /\ entry.att >= 0 => ref + entry.due >= SpDelay
    /\ it >= 0 => ref >= SpDelay \/ ref = 0
    /\ it >= 0 /\ entry.att >= 0 => entry.due = SpDelay
    /\ owed => entry.att >= 0 \/ it >= 0

\* The queue's invariant, address by address.
LEMMA SpByAddress ==
    SpQueueOK <=> /\ SpQueueShape(spQ, spItem, spRef, spOwed)
                  /\ \A i \in SpIPs : SpEntryOK(spQ[i], spItem[i], spRef[i], i \in spOwed)
<1>2. SpDelayOK <=> \A i \in SpIPs : /\ spQ[i].att >= 0 => spRef[i] + spQ[i].due >= SpDelay
                                     /\ spItem[i] >= 0 => spRef[i] >= SpDelay \/ spRef[i] = 0
                                     /\ spItem[i] >= 0 /\ spQ[i].att >= 0 => spQ[i].due = SpDelay
    BY DEF SpDelayOK
<1>3. (spOwed \subseteq SpIPs) =>
        (SpNotForgotten <=> \A i \in SpIPs : i \in spOwed => spQ[i].att >= 0 \/ spItem[i] >= 0)
    BY DEF SpNotForgotten, SpArmed
<1> HIDE DEF SpDelayOK, SpNotForgotten
<1>4. ASSUME SpQueueOK PROVE /\ SpQueueShape(spQ, spItem, spRef, spOwed)
                  /\ \A i \in SpIPs : SpEntryOK(spQ[i], spItem[i], spRef[i], i \in spOwed)
    BY <1>2, <1>3, <1>4 DEF SpQueueOK, SpQueueShape, SpEntryOK
<1>5. ASSUME SpQueueShape(spQ, spItem, spRef, spOwed),
             \A i \in SpIPs : SpEntryOK(spQ[i], spItem[i], spRef[i], i \in spOwed)
      PROVE  SpQueueOK
    <2>1. SpDelayOK
        BY <1>2, <1>5 DEF SpEntryOK
    <2>2. SpNotForgotten
        BY <1>3, <1>5 DEF SpEntryOK, SpQueueShape
    <2> QED
        BY <1>5, <2>1, <2>2 DEF SpQueueOK, SpQueueShape
<1> QED
    BY <1>4, <1>5

\* A step of one address.
LEMMA SpOneAddress ==
    ASSUME SpQueueOK, NEW ip \in SpIPs,
           \A i \in SpIPs \ {ip} : spQ'[i] = spQ[i] /\ spItem'[i] = spItem[i] /\ spRef'[i] = spRef[i]
                                   /\ (i \in spOwed' => i \in spOwed),
           SpQueueShape(spQ, spItem, spRef, spOwed)',
           SpEntryOK(spQ[ip], spItem[ip], spRef[ip], ip \in spOwed)'
    PROVE  SpQueueOK'
<1>1. \A i \in SpIPs : SpEntryOK(spQ[i], spItem[i], spRef[i], i \in spOwed)
    BY SpByAddress
<1>2. ASSUME NEW i \in SpIPs PROVE SpEntryOK(spQ[i], spItem[i], spRef[i], i \in spOwed)'
    <2>1. CASE i = ip
        BY <2>1
    <2>2. CASE i # ip
        BY <1>1, <2>2 DEF SpEntryOK
    <2> QED
        BY <2>1, <2>2
<1> HIDE DEF SpEntryOK, SpQueueShape, SpQueueOK
<1>3. (\A i \in SpIPs : SpEntryOK(spQ[i], spItem[i], spRef[i], i \in spOwed))'
    BY <1>2
<1> QED
    BY <1>3, SpByAddress, PTL

\* Types of the queue, for a step that takes an item or refuses an address.
LEMMA SpTaking ==
    ASSUME SpQueueOK, NEW ip \in SpIPs, SpTaken(ip)
    PROVE  /\ spItem' \in [SpIPs -> -1..SpMaxAttempts - 1] /\ spItem'[ip] = -1
           /\ \A i \in SpIPs \ {ip} : spItem'[i] = spItem[i]
    BY SpAssumption DEF SpQueueOK, SpTaken

\* The history of refusals after one of them.
LEMMA SpRefusing ==
    ASSUME SpQueueOK, NEW ip \in SpIPs, SpRefused(ip)
    PROVE  /\ spRef' \in [SpIPs -> 0..SpDelay + 1] /\ spRef'[ip] = 0
           /\ \A i \in SpIPs \ {ip} : spRef'[i] = spRef[i]
<1>1. SpDelay \in Nat
    BY SpAssumption DEF SpDelay
<1> QED
    BY <1>1 DEF SpQueueOK, SpRefused

\* requeue, after the item was taken: armed or no longer owed.
LEMMA SpRequeues ==
    ASSUME SpQueueOK, NEW ip \in SpIPs, spItem[ip] >= 0, SpTaken(ip), SpRequeue(ip, spItem[ip] + 1),
           \/ UNCHANGED spRef \/ SpRefused(ip)
    PROVE  SpQueueOK'
<1>0. /\ SpQueueShape(spQ, spItem, spRef, spOwed)
      /\ SpEntryOK(spQ[ip], spItem[ip], spRef[ip], ip \in spOwed)
    BY SpByAddress
<1>a. SpDelay \in Nat
    BY SpAssumption DEF SpDelay
<1>1. spItem' \in [SpIPs -> -1..SpMaxAttempts - 1] /\ spItem'[ip] = -1
      /\ \A i \in SpIPs \ {ip} : spItem'[i] = spItem[i]
    BY SpTaking
<1>2. spRef' \in [SpIPs -> 0..SpDelay + 1] /\ (spRef'[ip] = 0 \/ spRef' = spRef)
      /\ \A i \in SpIPs \ {ip} : spRef'[i] = spRef[i]
    BY <1>0, SpRefusing DEF SpQueueShape
<1>3. spRef'[ip] \in Nat
    BY <1>2, <1>a
<1>4. CASE spItem[ip] + 1 < SpMaxAttempts /\ ip \notin SpArmed /\ ~SpFull
    <2>1. spQ' = [spQ EXCEPT ![ip] = [due |-> SpDelay, att |-> spItem[ip] + 1]] /\ spOwed' = spOwed
        BY <1>4 DEF SpRequeue
    <2>2. [due |-> SpDelay, att |-> spItem[ip] + 1] \in [due : 0..SpDelay, att : -1..SpMaxAttempts - 1]
        <3>1. spItem[ip] + 1 \in -1..SpMaxAttempts - 1
            BY <1>0, <1>4, SpAssumption DEF SpQueueShape
        <3> QED
            BY <1>a, <3>1
    <2>3. spQ' \in [SpIPs -> [due : 0..SpDelay, att : -1..SpMaxAttempts - 1]]
          /\ spQ'[ip].due = SpDelay /\ spQ'[ip].att >= 0 /\ \A i \in SpIPs \ {ip} : spQ'[i] = spQ[i]
        BY <1>0, <2>1, <2>2 DEF SpQueueShape
    <2>4. SpQueueShape(spQ, spItem, spRef, spOwed)'
        BY <1>0, <1>1, <1>2, <2>1, <2>3 DEF SpQueueShape
    <2>5. SpEntryOK(spQ[ip], spItem[ip], spRef[ip], ip \in spOwed)'
        BY <1>1, <1>3, <1>a, <2>3 DEF SpEntryOK
    <2> QED
        BY <1>1, <1>2, <2>1, <2>3, <2>4, <2>5, SpOneAddress
<1>5. CASE ip \in SpArmed
    <2>1. spQ' = spQ /\ spOwed' = spOwed /\ spQ[ip].att >= 0
        BY <1>5 DEF SpRequeue, SpArmed
    <2>2. SpQueueShape(spQ, spItem, spRef, spOwed)'
        BY <1>0, <1>1, <1>2, <2>1 DEF SpQueueShape
    <2>3. SpEntryOK(spQ[ip], spItem[ip], spRef[ip], ip \in spOwed)'
        BY <1>0, <1>1, <1>2, <1>3, <1>a, <2>1 DEF SpEntryOK
    <2> QED
        BY <1>1, <1>2, <2>1, <2>2, <2>3, SpOneAddress
<1>6. CASE ip \notin SpArmed /\ ~(spItem[ip] + 1 < SpMaxAttempts /\ ~SpFull)
    <2>1. spQ' = spQ /\ spOwed' = spOwed \ {ip} /\ ~(spQ[ip].att >= 0)
        BY <1>6 DEF SpRequeue, SpArmed
    <2>2. SpQueueShape(spQ, spItem, spRef, spOwed)'
        BY <1>0, <1>1, <1>2, <2>1 DEF SpQueueShape
    <2>3. SpEntryOK(spQ[ip], spItem[ip], spRef[ip], ip \in spOwed)'
        BY <1>1, <2>1 DEF SpEntryOK
    <2> QED
        BY <1>1, <1>2, <2>1, <2>2, <2>3, SpOneAddress
<1> QED
    BY <1>4, <1>5, <1>6

\* schedule, after a refusal on the event path.
LEMMA SpSchedules ==
    ASSUME SpQueueOK, NEW ip \in SpIPs, SpRefused(ip), SpSchedule(ip), UNCHANGED spItem
    PROVE  SpQueueOK'
<1>0. /\ SpQueueShape(spQ, spItem, spRef, spOwed)
      /\ SpEntryOK(spQ[ip], spItem[ip], spRef[ip], ip \in spOwed)
    BY SpByAddress
<1>a. SpDelay \in Nat /\ SpMaxAttempts \in Nat \ {0}
    BY SpAssumption DEF SpDelay
<1>1. spRef' \in [SpIPs -> 0..SpDelay + 1] /\ spRef'[ip] = 0
      /\ \A i \in SpIPs \ {ip} : spRef'[i] = spRef[i]
    BY SpRefusing
<1>2. CASE ip \in SpArmed \/ ~SpFull
    <2>1. spQ' = [spQ EXCEPT ![ip] = [due |-> SpDelay, att |-> 0]] /\ spOwed' = spOwed \cup {ip}
        BY <1>2 DEF SpSchedule
    <2>2. [due |-> SpDelay, att |-> 0] \in [due : 0..SpDelay, att : -1..SpMaxAttempts - 1]
        BY <1>a
    <2>3. spQ' \in [SpIPs -> [due : 0..SpDelay, att : -1..SpMaxAttempts - 1]]
          /\ spQ'[ip].due = SpDelay /\ spQ'[ip].att >= 0 /\ \A i \in SpIPs \ {ip} : spQ'[i] = spQ[i]
        BY <1>0, <2>1, <2>2 DEF SpQueueShape
    <2>4. SpQueueShape(spQ, spItem, spRef, spOwed)'
        BY <1>0, <1>1, <2>1, <2>3 DEF SpQueueShape
    <2>5. SpEntryOK(spQ[ip], spItem[ip], spRef[ip], ip \in spOwed)'
        BY <1>1, <1>a, <2>3 DEF SpEntryOK
    <2> QED
        BY <1>1, <2>1, <2>3, <2>4, <2>5, SpOneAddress
<1>3. CASE ~(ip \in SpArmed \/ ~SpFull)
    <2>1. spQ' = spQ /\ spOwed' = spOwed /\ ~(spQ[ip].att >= 0)
        BY <1>3 DEF SpSchedule, SpArmed
    <2>2. SpQueueShape(spQ, spItem, spRef, spOwed)'
        BY <1>0, <1>1, <2>1 DEF SpQueueShape
    <2>3. SpEntryOK(spQ[ip], spItem[ip], spRef[ip], ip \in spOwed)'
        BY <1>0, <1>1, <2>1 DEF SpEntryOK
    <2> QED
        BY <1>1, <2>1, <2>2, <2>3, SpOneAddress
<1> QED
    BY <1>2, <1>3

\* Dropped or banned: taken and settled.
LEMMA SpSettles ==
    ASSUME SpQueueOK, NEW ip \in SpIPs, SpTaken(ip), UNCHANGED <<spQ, spRef>>,
           spOwed' = spOwed \ {ip} \/ SpSettled(ip)
    PROVE  SpQueueOK'
<1>0. /\ SpQueueShape(spQ, spItem, spRef, spOwed)
      /\ SpEntryOK(spQ[ip], spItem[ip], spRef[ip], ip \in spOwed)
    BY SpByAddress
<1>1. spItem' \in [SpIPs -> -1..SpMaxAttempts - 1] /\ spItem'[ip] = -1
      /\ \A i \in SpIPs \ {ip} : spItem'[i] = spItem[i]
    BY SpTaking
<1>2. spOwed' \subseteq spOwed /\ (ip \in spOwed' => spQ[ip].att >= 0)
    BY DEF SpSettled, SpArmed
<1>3. SpQueueShape(spQ, spItem, spRef, spOwed)'
    BY <1>0, <1>1, <1>2 DEF SpQueueShape
<1>4. SpEntryOK(spQ[ip], spItem[ip], spRef[ip], ip \in spOwed)'
    BY <1>0, <1>1, <1>2 DEF SpEntryOK
<1> QED
    BY <1>1, <1>2, <1>3, <1>4, SpOneAddress

\* due.
LEMMA SpPops == SpQueueOK /\ SpPop => SpQueueOK'
<1> SUFFICES ASSUME SpQueueOK, SpPop PROVE SpQueueOK'
    OBVIOUS
<1> DEFINE due == {i \in SpArmed : spQ[i].due = 0}
<1>a. SpDelay \in Nat /\ SpMaxAttempts \in Nat \ {0}
    BY SpAssumption DEF SpDelay
<1>0. SpQueueShape(spQ, spItem, spRef, spOwed)
      /\ \A i \in SpIPs : SpEntryOK(spQ[i], spItem[i], spRef[i], i \in spOwed)
    BY SpByAddress
<1>1. /\ \A i \in SpIPs : spItem[i] = -1
      /\ spItem' = [i \in SpIPs |-> IF i \in due THEN spQ[i].att ELSE -1]
      /\ spQ' = [i \in SpIPs |-> IF i \in due THEN SpNone ELSE spQ[i]]
      /\ spRef' = spRef /\ spOwed' = spOwed
    BY DEF SpPop
<1>2. SpNone \in [due : 0..SpDelay, att : -1..SpMaxAttempts - 1]
    BY <1>a DEF SpNone
<1>3. SpQueueShape(spQ, spItem, spRef, spOwed)'
    BY <1>0, <1>1, <1>2, <1>a DEF SpQueueShape
<1>4. ASSUME NEW i \in SpIPs PROVE SpEntryOK(spQ'[i], spItem'[i], spRef'[i], i \in spOwed')
    <2>0. spQ[i].due \in Nat /\ spRef[i] \in Nat /\ spQ[i].att \in Int
        BY <1>0, <1>a DEF SpQueueShape
    <2>1. CASE i \in due
        <3>1. spItem'[i] = spQ[i].att /\ spQ'[i].att = -1 /\ spQ[i].att >= 0 /\ spQ[i].due = 0
            BY <1>1, <2>1 DEF SpNone, SpArmed
        <3> QED
            BY <1>0, <1>1, <1>a, <2>0, <3>1 DEF SpEntryOK
    <2>2. CASE i \notin due
        <3>1. spItem'[i] = -1 /\ spQ'[i] = spQ[i] /\ spItem[i] = -1
            BY <1>1, <2>2
        <3> QED
            BY <1>0, <1>1, <3>1 DEF SpEntryOK
    <2> QED
        BY <2>1, <2>2
<1>5. (\A i \in SpIPs : SpEntryOK(spQ[i], spItem[i], spRef[i], i \in spOwed))'
    BY <1>4
<1> QED
    BY <1>3, <1>5, SpByAddress, PTL

\* A tick ages the refusals and the delays together.
LEMMA SpTicks == SpQueueOK /\ SpTick => SpQueueOK'
<1> SUFFICES ASSUME SpQueueOK, SpTick PROVE SpQueueOK'
    OBVIOUS
<1>a. SpDelay \in Nat /\ SpMaxAttempts \in Nat \ {0}
    BY SpAssumption DEF SpDelay
<1>0. SpQueueShape(spQ, spItem, spRef, spOwed)
      /\ \A i \in SpIPs : SpEntryOK(spQ[i], spItem[i], spRef[i], i \in spOwed)
    BY SpByAddress
<1>1. /\ \A i \in SpIPs : spItem[i] = -1 /\ ~(i \in SpArmed /\ spQ[i].due = 0)
      /\ spRef' = [i \in SpIPs |-> SpUpTo(spRef[i], SpDelay + 1)]
      /\ spQ' = [i \in SpIPs |-> [spQ[i] EXCEPT !.due = SpDown(@)]]
      /\ spItem' = spItem /\ spOwed' = spOwed
    BY DEF SpTick
<1>2. ASSUME NEW i \in SpIPs
      PROVE  /\ spQ'[i] \in [due : 0..SpDelay, att : -1..SpMaxAttempts - 1]
             /\ spQ'[i].att = spQ[i].att /\ spQ'[i].due = SpDown(spQ[i].due)
             /\ spRef'[i] \in 0..SpDelay + 1 /\ spRef'[i] = SpUpTo(spRef[i], SpDelay + 1)
    <2>1. spQ[i] \in [due : 0..SpDelay, att : -1..SpMaxAttempts - 1] /\ spRef[i] \in 0..SpDelay + 1
        BY <1>0 DEF SpQueueShape
    <2>2. SpDown(spQ[i].due) \in 0..SpDelay
        BY <1>a, <2>1 DEF SpDown
    <2>3. spQ'[i] = [spQ[i] EXCEPT !.due = SpDown(spQ[i].due)]
        BY <1>1
    <2>4. SpUpTo(spRef[i], SpDelay + 1) \in 0..SpDelay + 1
        BY <1>a, <2>1 DEF SpUpTo
    <2> HIDE DEF SpDown, SpUpTo
    <2> QED
        BY <1>1, <2>1, <2>2, <2>3, <2>4
<1>3. SpQueueShape(spQ, spItem, spRef, spOwed)'
    BY <1>0, <1>1, <1>2 DEF SpQueueShape
<1>4. ASSUME NEW i \in SpIPs PROVE SpEntryOK(spQ'[i], spItem'[i], spRef'[i], i \in spOwed')
    <2>1. spQ[i].due \in 0..SpDelay /\ spRef[i] \in 0..SpDelay + 1 /\ spQ[i].att \in Int
        BY <1>0, <1>a DEF SpQueueShape
    <2>2. spItem'[i] = -1 /\ spItem[i] = -1 /\ (spQ[i].att >= 0 => spQ[i].due # 0)
        BY <1>1 DEF SpArmed
    <2>3. spQ'[i].att >= 0 => spRef'[i] + spQ'[i].due >= SpDelay
        BY <1>0, <1>2, <1>a, <2>1, <2>2 DEF SpEntryOK, SpDown, SpUpTo
    <2> QED
        BY <1>0, <1>1, <1>2, <2>2, <2>3 DEF SpEntryOK
<1>5. (\A i \in SpIPs : SpEntryOK(spQ[i], spItem[i], spRef[i], i \in spOwed))'
    BY <1>4
<1> QED
    BY <1>3, <1>5, SpByAddress, PTL


\* Every step keeps the invariant.
LEMMA SpStep == SpIndInv /\ [SpNext]_spVars => SpIndInv'
<1> SUFFICES ASSUME SpIndInv, [SpNext]_spVars PROVE SpIndInv'
    OBVIOUS
<1> USE SpAssumption
<1> DEFINE Rest == /\ spUp \in [SpIPs -> -1..SpOld] /\ spIn \in [SpIPs -> -1..SpOld]
                   /\ spWin \in [SpIPs -> 0..SpWindow]
                   /\ spCrowd \in BOOLEAN /\ spBans \subseteq SpIPs /\ spEvents \in 0..SpMaxEvents
<1>0. SpProbeOK /\ SpCachesOK /\ SpQueueOK /\ Rest /\ SpOld \in Nat
    BY SpBoth DEF SpOld
<1>a. ASSUME SpProbeOK', SpCachesOK', SpQueueOK', Rest' PROVE SpIndInv'
    BY <1>a, SpBoth, PTL
<1>b. UNCHANGED <<spProbe, spWorld>> => SpProbeOK' /\ SpCachesOK'
    BY <1>0 DEF spProbe, spWorld, SpProbeOK, SpCachesOK
<1>c. UNCHANGED <<spQueue, spRef, spOwed>> => SpQueueOK'
    <2> SUFFICES ASSUME UNCHANGED <<spQueue, spRef, spOwed>> PROVE SpQueueOK'
        OBVIOUS
    <2> QED
        BY <1>0 DEF spQueue, SpQueueOK, SpDelayOK, SpNotForgotten, SpArmed
<1>1. ASSUME NEW ip \in SpIPs, SpEvent(ip) PROVE SpIndInv'
    <2>1. PICK peers \in SUBSET SpIPs :
            /\ SpPeersAre(peers)
            /\ IF ip \in peers
               THEN SpRefused(ip) /\ SpSchedule(ip) /\ UNCHANGED spBans
               ELSE /\ UNCHANGED <<spRef, spQ>>
                    /\ \/ spBans' = spBans \cup {ip} /\ spOwed' = spOwed \ {ip}
                       \/ UNCHANGED <<spBans, spOwed>>
        BY <1>1 DEF SpEvent
    <2>2. UNCHANGED <<spWorld, spItem>> /\ spWin' = [spWin EXCEPT ![ip] = SpWindow]
          /\ spEvents' = spEvents + 1 /\ spEvents < SpMaxEvents
        BY <1>1 DEF SpEvent
    <2>3. SpProbeOK' /\ SpCachesOK'
        BY <2>1, <2>2, SpLookKeeps DEF SpLook
    <2>4. SpQueueOK'
        <3>1. CASE ip \in peers
            BY <1>0, <2>1, <2>2, <3>1, SpSchedules
        <3>2. CASE ip \notin peers
            <4>1. UNCHANGED <<spRef, spQ, spItem>> /\ spOwed' \subseteq spOwed
                BY <2>1, <2>2, <3>2
            <4> QED
                BY <1>0, <4>1 DEF SpQueueOK, SpDelayOK, SpNotForgotten, SpArmed
        <3> QED
            BY <3>1, <3>2
    <2>5. Rest'
        BY <1>0, <2>1, <2>2 DEF spWorld
    <2> QED
        BY <1>a, <2>3, <2>4, <2>5
<1>2. ASSUME NEW ip \in SpIPs, SpRecheckDropped(ip) PROVE SpIndInv'
    <2>1. spItem[ip] >= 0 /\ SpTaken(ip) /\ SpSettled(ip)
          /\ UNCHANGED <<spWorld, spProbe, spQ, spWin, spRef, spBans, spEvents>>
        BY <1>2 DEF SpRecheckDropped
    <2>2. SpQueueOK'
        BY <1>0, <2>1, SpSettles
    <2>3. Rest'
        BY <1>0, <2>1 DEF spWorld
    <2> QED
        BY <1>a, <1>b, <2>1, <2>2, <2>3
<1>3. ASSUME NEW ip \in SpIPs, SpRecheckLimited(ip) \/ SpRecheckRefused(ip) PROVE SpIndInv'
    <2>1. PICK peers \in SUBSET SpIPs : SpPeersAre(peers)
        BY <1>3 DEF SpRecheckLimited, SpRecheckRefused
    <2>2. /\ spItem[ip] >= 0 /\ SpTaken(ip) /\ SpRequeue(ip, spItem[ip] + 1)
          /\ UNCHANGED <<spWorld, spWin, spBans, spEvents>> /\ (UNCHANGED spRef \/ SpRefused(ip))
        BY <1>3 DEF SpRecheckLimited, SpRecheckRefused
    <2>3. SpProbeOK' /\ SpCachesOK'
        BY <2>1, <2>2, SpLookKeeps DEF SpLook
    <2>4. SpQueueOK'
        BY <1>0, <2>2, SpRequeues
    <2>5. Rest'
        BY <1>0, <2>2 DEF spWorld
    <2> QED
        BY <1>a, <2>3, <2>4, <2>5
<1>4. ASSUME NEW ip \in SpIPs, SpRecheckBans(ip) PROVE SpIndInv'
    <2>1. PICK peers \in SUBSET SpIPs : SpPeersAre(peers)
        BY <1>4 DEF SpRecheckBans
    <2>2. /\ SpTaken(ip) /\ spBans' = spBans \cup {ip} /\ spOwed' = spOwed \ {ip}
          /\ UNCHANGED <<spWorld, spQ, spWin, spRef, spEvents>>
        BY <1>4 DEF SpRecheckBans
    <2>3. SpProbeOK' /\ SpCachesOK'
        BY <2>1, <2>2, SpLookKeeps DEF SpLook
    <2>4. SpQueueOK'
        BY <1>0, <2>2, SpSettles
    <2>5. Rest'
        BY <1>0, <2>2 DEF spWorld
    <2> QED
        BY <1>a, <2>3, <2>4, <2>5
<1>5. ASSUME NEW ip \in SpIPs, SpBanEnds(ip) PROVE SpIndInv'
    <2>1. Rest'
        BY <1>0, <1>5 DEF SpBanEnds, spWorld
    <2> QED
        BY <1>5, <1>a, <1>b, <1>c, <2>1 DEF SpBanEnds
<1>6. ASSUME NEW ip \in SpIPs, SpConnect(ip) \/ SpLogin(ip) \/ SpDisconnect(ip) PROVE SpIndInv'
    <2>1. UNCHANGED <<spCrowd, spProbe, spQueue, spWin, spRef, spOwed, spBans, spEvents>>
        BY <1>6 DEF SpConnect, SpLogin, SpDisconnect
    <2>2. spUp' \in [SpIPs -> -1..SpOld] /\ spIn' \in [SpIPs -> -1..SpOld]
        BY <1>0, <1>6 DEF SpConnect, SpLogin, SpDisconnect
    <2>3. \A i \in SpIPs : (spUp'[i] = spUp[i] \/ spUp'[i] <= 0) /\ (spIn'[i] = spIn[i] \/ spIn'[i] <= 0)
        BY <1>0, <1>6 DEF SpConnect, SpLogin, SpDisconnect
    <2>4. SpProbeOK'
        BY <1>0, <2>1 DEF SpProbeOK, spProbe
    <2>5. SpCachesOK'
        <3>1. spSess' = spSess /\ spSessAge' = spSessAge /\ spPeers' = spPeers /\ spPeersAge' = spPeersAge
              /\ spSessAge \in Nat /\ spPeersAge \in Nat
            BY <1>0, <2>1 DEF spProbe, SpProbeOK
        <3>2. ASSUME NEW i \in SpIPs, NEW n \in Nat
              PROVE  (spUp'[i] > n => spUp[i] > n) /\ (spIn'[i] > n => spIn[i] > n)
            <4>1. spUp[i] \in Int /\ spIn[i] \in Int
                BY <1>0
            <4>2. spUp'[i] \in Int /\ spIn'[i] \in Int
                BY <2>2
            <4> QED
                BY <2>3, <4>1, <4>2
        <3> HIDE DEF Rest
        <3>3. spPeersAge + SpSessTTL \in Nat
            BY <3>1
        <3> QED
            BY <1>0, <3>1, <3>2, <3>3 DEF SpCachesOK
    <2>6. Rest'
        BY <1>0, <2>1, <2>2
    <2> QED
        BY <1>a, <1>c, <2>1, <2>4, <2>5, <2>6
<1>7. CASE SpPop
    <2>1. UNCHANGED <<spWorld, spProbe, spWin, spBans, spEvents>>
        BY <1>7 DEF SpPop
    <2>2. SpQueueOK'
        BY <1>0, <1>7, SpPops
    <2>3. Rest'
        BY <1>0, <2>1 DEF spWorld
    <2> QED
        BY <1>a, <1>b, <2>1, <2>2, <2>3
<1>8. CASE SpTick
    <2>1. /\ spUp' = [i \in SpIPs |-> SpUpTo(spUp[i], SpOld)]
          /\ spIn' = [i \in SpIPs |-> SpUpTo(spIn[i], SpOld)]
          /\ spSeen' = [i \in SpIPs |-> SpUpTo(spSeen[i], SpGrace + 1)]
          /\ spPeersAge' = SpUpTo(spPeersAge, SpPeerTTL + 1) /\ spSessAge' = SpUpTo(spSessAge, SpSessTTL)
          /\ spWin' = [i \in SpIPs |-> SpDown(spWin[i])]
          /\ UNCHANGED <<spCrowd, spPeers, spSess, spBans, spEvents>>
        BY <1>8 DEF SpTick
    <2>2. SpQueueOK'
        BY <1>0, <1>8, SpTicks
    <2>3. SpProbeOK'
        BY <1>0, <2>1 DEF SpProbeOK, SpUpTo
    <2>4. Rest'
        <3>1. spUp' \in [SpIPs -> -1..SpOld] /\ spIn' \in [SpIPs -> -1..SpOld]
            BY <1>0, <2>1 DEF SpUpTo
        <3>2. spWin' \in [SpIPs -> 0..SpWindow]
            BY <1>0, <2>1 DEF SpDown
        <3> QED
            BY <1>0, <2>1, <3>1, <3>2
    <2>5. SpCachesOK'
        <3>1. spSessAge \in 0..SpSessTTL /\ spPeersAge \in 0..SpPeerTTL + 1
            BY <1>0 DEF SpProbeOK
        <3>2. ASSUME NEW i \in SpIPs, NEW n \in Nat, n < SpOld
              PROVE  (spUp'[i] > n => spUp[i] >= n) /\ (spIn'[i] > n => spIn[i] >= n)
                     /\ (spUp'[i] > n + 1 => spUp[i] > n) /\ (spIn'[i] > n + 1 => spIn[i] > n)
            <4>1. spUp[i] \in -1..SpOld /\ spIn[i] \in -1..SpOld
                BY <1>0
            <4>2. spUp'[i] = SpUpTo(spUp[i], SpOld) /\ spIn'[i] = SpUpTo(spIn[i], SpOld)
                BY <2>1
            <4> QED
                BY <1>0, <3>2, <4>1, <4>2 DEF SpUpTo
        <3> HIDE DEF Rest
        <3>3. ASSUME spSess'.ok, spSessAge' < SpSessTTL, NEW i \in SpIPs, spIn'[i] > spSessAge'
              PROVE  i \in spSess'.hosts
            <4>1. spSessAge' = spSessAge + 1 /\ spSessAge < SpSessTTL /\ spSessAge < SpOld /\ spSess' = spSess
                BY <2>1, <3>1, <3>3 DEF SpUpTo, SpOld
            <4>2. spIn[i] > spSessAge
                BY <3>1, <3>2, <3>3, <4>1
            <4> QED
                BY <1>0, <3>3, <4>1, <4>2 DEF SpCachesOK
        <3>4. ASSUME spPeersAge' <= SpPeerTTL, NEW i \in SpIPs, spUp'[i] > spPeersAge',
                     spIn'[i] > spPeersAge' + SpSessTTL
              PROVE  i \in spPeers'
            <4>1. spPeersAge' = spPeersAge + 1 /\ spPeersAge <= SpPeerTTL /\ spPeersAge < SpOld
                  /\ spPeersAge + SpSessTTL < SpOld /\ spPeers' = spPeers
                BY <2>1, <3>1, <3>4 DEF SpUpTo, SpOld
            <4>2. spUp[i] > spPeersAge
                BY <3>1, <3>2, <3>4, <4>1
            <4>3. spIn[i] > spPeersAge + SpSessTTL
                <5> DEFINE n == spPeersAge + SpSessTTL
                <5>1. n \in Nat /\ n < SpOld /\ spPeersAge' + SpSessTTL = n + 1
                    BY <3>1, <4>1
                <5> HIDE DEF n
                <5>2. spIn[i] > n
                    BY <3>2, <3>4, <5>1
                <5> QED
                    BY <5>2 DEF n
            <4> QED
                BY <1>0, <4>1, <4>2, <4>3 DEF SpCachesOK
        <3> QED
            BY <3>3, <3>4 DEF SpCachesOK
    <2> QED
        BY <1>a, <2>2, <2>3, <2>4, <2>5
<1>9. CASE SpOthers
    <2>1. UNCHANGED <<spQueue, spWin, spRef, spOwed, spBans, spEvents, spUp, spIn>>
        BY <1>9 DEF SpOthers, spWorld
    <2>2. CASE spCrowd' = ~spCrowd /\ UNCHANGED <<spUp, spIn, spProbe>>
        <3>1. SpProbeOK' /\ SpCachesOK'
            BY <1>0, <2>2 DEF spProbe, SpProbeOK, SpCachesOK
        <3>2. Rest'
            BY <1>0, <2>1, <2>2
        <3> QED
            BY <1>a, <1>c, <2>1, <3>1, <3>2
    <2>3. CASE (\E peers \in SUBSET SpIPs : SpPeersAre(peers)) /\ UNCHANGED spWorld
        <3>1. PICK peers \in SUBSET SpIPs : SpPeersAre(peers)
            BY <2>3
        <3>2. SpProbeOK' /\ SpCachesOK'
            BY <2>3, <3>1, SpLookKeeps DEF SpLook
        <3>3. Rest'
            BY <1>0, <2>1, <2>3 DEF spWorld
        <3> QED
            BY <1>a, <1>c, <2>1, <3>2, <3>3
    <2> QED
        BY <1>9, <2>2, <2>3 DEF SpOthers
<1>10. CASE UNCHANGED spVars
    <2>1. UNCHANGED <<spWorld, spProbe, spQueue, spWin, spRef, spOwed, spBans, spEvents>>
        BY <1>10 DEF spVars
    <2>2. Rest'
        BY <1>0, <2>1 DEF spWorld
    <2> QED
        BY <1>a, <1>b, <1>c, <2>1, <2>2
<1> QED
    BY <1>1, <1>2, <1>3, <1>4, <1>5, <1>6, <1>7, <1>8, <1>9, <1>10 DEF SpNext, SpRecheck

\* No connection, empty caches and an empty queue satisfy the invariant.
LEMMA SpInitial == SpInit => SpIndInv
<1> SUFFICES ASSUME SpInit PROVE SpIndInv
    OBVIOUS
<1> USE SpAssumption DEF SpInit
<1>1. SpProbeOK
    BY DEF SpProbeOK, SpUnavailable
<1>2. SpCachesOK
    BY DEF SpCachesOK, SpUnavailable
<1>3. SpQueueOK
    <2>1. SpDelay \in Nat /\ SpNone \in [due : 0..SpDelay, att : -1..SpMaxAttempts - 1] /\ SpNone.att = -1
        BY DEF SpDelay, SpNone
    <2>2. SpDelayOK
        BY <2>1 DEF SpDelayOK
    <2> QED
        BY <2>1, <2>2 DEF SpQueueOK, SpNotForgotten
<1>4. spUp \in [SpIPs -> -1..SpOld] /\ spIn \in [SpIPs -> -1..SpOld]
    <2>1. SpOld \in Nat
        BY DEF SpOld
    <2> QED
        BY <2>1
<1>5. spWin \in [SpIPs -> 0..SpWindow]
    OBVIOUS
<1>6. spCrowd \in BOOLEAN
    OBVIOUS
<1>7. spBans \subseteq SpIPs /\ spEvents \in 0..SpMaxEvents
    OBVIOUS
<1> HIDE DEF SpInit
<1> QED
    BY <1>1, <1>2, <1>3, <1>4, <1>5, <1>6, <1>7, SpBoth

\* A ban comes out of a look that did not return its address.
LEMMA SpBansAfterLook ==
    ASSUME [SpNext]_spVars, NEW i \in spBans' \ spBans
    PROVE  \E peers \in SUBSET SpIPs : SpLook(peers) /\ i \notin peers /\ i \in SpIPs
<1>1. CASE \E ip \in SpIPs : SpEvent(ip)
    <2>1. PICK ip \in SpIPs : SpEvent(ip)
        BY <1>1
    <2>2. PICK peers \in SUBSET SpIPs :
            /\ SpPeersAre(peers)
            /\ IF ip \in peers
               THEN UNCHANGED spBans
               ELSE spBans' = spBans \cup {ip} \/ UNCHANGED spBans
        BY <2>1 DEF SpEvent
    <2>3. UNCHANGED spWorld
        BY <2>1 DEF SpEvent
    <2> QED
        BY <2>2, <2>3 DEF SpLook
<1>2. CASE \E ip \in SpIPs : SpRecheckBans(ip)
    BY <1>2 DEF SpRecheckBans, SpLook
<1>3. CASE UNCHANGED spBans
    BY <1>3
<1>4. CASE \E ip \in SpIPs : SpBanEnds(ip)
    BY <1>4 DEF SpBanEnds
<1>5. ASSUME NEW ip \in SpIPs, SpRecheckDropped(ip) \/ SpRecheckLimited(ip) \/ SpRecheckRefused(ip) \/
             SpConnect(ip) \/ SpLogin(ip) \/ SpDisconnect(ip) PROVE UNCHANGED spBans
    BY <1>5 DEF SpRecheckDropped, SpRecheckLimited, SpRecheckRefused, SpConnect, SpLogin, SpDisconnect
<1>6. SpPop \/ SpTick \/ SpOthers \/ UNCHANGED spVars => UNCHANGED spBans
    BY DEF SpPop, SpTick, SpOthers, spVars
<1> QED
    BY <1>1, <1>2, <1>3, <1>4, <1>5, <1>6 DEF SpNext, SpRecheck

\* A re-check that bans or is refused again looked, at a list younger than the refusal it follows.
LEMMA SpFreshStep ==
    ASSUME SpIndInv, [SpNext]_spVars, NEW i \in SpIPs, spItem[i] >= 0, spItem'[i] = -1, spRef[i] > 0,
           i \in spBans' \ spBans \/ spRef'[i] = 0
    PROVE  spPeersAge' < spRef[i]
<1> USE SpAssumption
<1>0. /\ spItem \in [SpIPs -> -1..SpMaxAttempts - 1] /\ spRef \in [SpIPs -> 0..SpDelay + 1]
      /\ SpDelay = 2 * SpPeerTTL /\ SpDelay \in Nat
    BY DEF SpIndInv, SpTypeOK, SpDelay
<1>1. spRef[i] >= SpDelay
    BY <1>0 DEF SpIndInv, SpDelayOK
<1>2. SpRecheck(i)
    <2>1. spItem' # spItem
        BY <1>0
    <2>2. ASSUME NEW ip \in SpIPs, SpEvent(ip) \/ SpBanEnds(ip) \/ SpConnect(ip) \/ SpLogin(ip) \/ SpDisconnect(ip)
          PROVE  FALSE
        BY <2>1, <2>2 DEF SpEvent, SpBanEnds, SpConnect, SpLogin, SpDisconnect, spQueue
    <2>3. ~(SpTick \/ SpOthers \/ UNCHANGED spVars)
        BY <2>1 DEF SpTick, SpOthers, spVars, spQueue
    <2>4. ~SpPop
        BY <1>0 DEF SpPop
    <2>5. ASSUME NEW ip \in SpIPs, SpRecheck(ip) PROVE ip = i
        <3>1. SpTaken(ip)
            BY <2>5 DEF SpRecheck, SpRecheckDropped, SpRecheckLimited, SpRecheckRefused, SpRecheckBans
        <3> QED
            BY <1>0, <3>1 DEF SpTaken
    <2> QED
        BY <2>2, <2>3, <2>4, <2>5 DEF SpNext
<1>3. ~SpRecheckDropped(i)
    BY <1>0 DEF SpRecheckDropped
<1>4. \E peers \in SUBSET SpIPs : SpLook(peers)
    BY <1>2, <1>3 DEF SpRecheck, SpRecheckLimited, SpRecheckRefused, SpRecheckBans, SpLook
<1>5. spPeersAge' <= SpPeerTTL /\ SpProbeOK'
    BY <1>4, SpLookKeeps
<1>6. spPeersAge' \in 0..SpPeerTTL + 1
    BY <1>5 DEF SpProbeOK
<1> QED
    BY <1>0, <1>1, <1>5, <1>6

\* The invariant of the peer caches and the re-check queue holds in every state.
THEOREM SpInvariant == SpSpec => []SpIndInv
    BY SpInitial, SpStep, PTL DEF SpSpec

\* For any addresses, TTLs, grace and budget, no session older than the caches is banned, a
\* re-check decides from a list younger than the refusal, and no refused ban is forgotten.
THEOREM SshGateIsSafe == SpSpec => SpSafe
<1>1. SpIndInv => SpTypeOK /\ SpNotForgotten
    BY DEF SpIndInv
<1>2. SpIndInv /\ [SpNext]_spVars =>
        [\A i \in spBans' \ spBans : spUp[i] <= SpPeerTTL \/ spIn[i] <= SpPeerTTL + SpSessTTL]_spVars
    BY SpBansAfterLook, SpLookSees
<1>3. SpIndInv /\ [SpNext]_spVars =>
        [\A i \in SpIPs : /\ spItem[i] >= 0 /\ spItem'[i] = -1 /\ spRef[i] > 0
                          /\ (i \in spBans' \ spBans \/ spRef'[i] = 0)
                          => spPeersAge' < spRef[i]]_spVars
    BY SpFreshStep
<1>4. SpSpec => SpOperatorSafe
    BY <1>2, SpInvariant, PTL DEF SpSpec, SpOperatorSafe
<1>5. SpSpec => SpFreshRecheck
    BY <1>3, SpInvariant, PTL DEF SpSpec, SpFreshRecheck
<1> QED
    BY <1>1, <1>4, <1>5, SpInvariant, PTL DEF SpSafe
-----------------------------------------------------------------------------
(* The file collector. *)

\* A non-empty set of naturals has a least element: what stands in for an
\* induction over the writes of a file.
LEMMA LeastNatural ==
    ASSUME NEW T \in SUBSET Nat, T # {}
    PROVE  \E x \in T : \A y \in T : x <= y
<1> DEFINE R == {ss \in Nat \X Nat : ss[1] < ss[2]}
<1>1. IsWellFoundedOn(R, Nat)
  BY NatLessThanWellFounded DEF OpToRel
<1>2. PICK x \in T : \A y \in T : ~ (<<y, x>> \in R)
  BY <1>1, WFMin
<1>3. \A y \in T : ~(y < x)
  BY <1>2
<1> QED
  BY <1>3

\* What a drain of the content D from offset off leaves, write by write.
FtReads(read, D, off, acc) ==
  read = [n \in 0 .. Len(D) |-> IF n <= off THEN acc ELSE FtFeed(read[n - 1], D[n])]

\* The recursion of drainLines has a solution.
LEMMA FtReadExists ==
  ASSUME NEW D, Len(D) \in Nat, NEW off \in Nat, NEW acc
  PROVE  \E read : FtReads(read, D, off, acc)
<1> DEFINE P(k) == \E g : /\ g = [n \in 0 .. k |-> g[n]]
                          /\ \A n \in 0 .. k : g[n] = IF n <= off THEN acc ELSE FtFeed(g[n - 1], D[n])
           T == {k \in Nat : ~P(k)}
<1>1. P(0)
  <2> DEFINE g == [n \in 0 .. 0 |-> acc]
  <2>1. g = [n \in 0 .. 0 |-> g[n]] /\ \A n \in 0 .. 0 : n <= off /\ g[n] = acc
    OBVIOUS
  <2> HIDE DEF g
  <2>2. \A n \in 0 .. 0 : g[n] = IF n <= off THEN acc ELSE FtFeed(g[n - 1], D[n])
    BY <2>1
  <2> QED
    BY <2>1, <2>2
<1>2. ASSUME NEW k \in Nat, P(k) PROVE P(k + 1)
  <2>1. PICK g : /\ g = [n \in 0 .. k |-> g[n]]
                 /\ \A n \in 0 .. k : g[n] = IF n <= off THEN acc ELSE FtFeed(g[n - 1], D[n])
    BY <1>2
  <2> DEFINE last == IF k + 1 <= off THEN acc ELSE FtFeed(g[k], D[k + 1])
             h == [n \in 0 .. k + 1 |-> IF n = k + 1 THEN last ELSE g[n]]
  <2>2. h = [n \in 0 .. k + 1 |-> h[n]] /\ h[k + 1] = last /\ \A n \in 0 .. k : h[n] = g[n]
    OBVIOUS
  <2> HIDE DEF h
  <2>3. ASSUME NEW n \in 0 .. k + 1 PROVE h[n] = IF n <= off THEN acc ELSE FtFeed(h[n - 1], D[n])
    <3>1. CASE n = k + 1
      <4>1. n - 1 = k /\ h[n - 1] = g[k]
        BY <2>2, <3>1
      <4> QED
        BY <2>2, <3>1, <4>1
    <3>2. CASE n # k + 1
      <4>1. n \in 0 .. k /\ h[n] = g[n]
        BY <2>2, <3>2
      <4>2. CASE n = 0
        BY <2>1, <4>1, <4>2
      <4>3. CASE n # 0
        <5>1. n - 1 \in 0 .. k
          BY <4>1, <4>3
        <5>2. h[n - 1] = g[n - 1]
          BY <2>2, <5>1
        <5> QED
          BY <2>1, <4>1, <5>2
      <4> QED
        BY <4>2, <4>3
    <3> QED
      BY <3>1, <3>2
  <2> QED
    BY <2>2, <2>3
<1> HIDE DEF P
<1>3. T = {}
  <2> SUFFICES ASSUME T # {} PROVE FALSE
    OBVIOUS
  <2>1. PICK k \in T : \A m \in T : k <= m
    BY LeastNatural
  <2>2. k # 0
    BY <1>1, <2>1
  <2>3. k - 1 \in Nat /\ k - 1 \notin T
    BY <2>1, <2>2
  <2>4. P(k - 1)
    BY <2>3
  <2>5. P((k - 1) + 1)
    BY <1>2, <2>3, <2>4
  <2>6. (k - 1) + 1 = k
    BY <2>1
  <2> QED
    BY <2>1, <2>5, <2>6
<1>4. P(Len(D))
  BY <1>3
<1>5. PICK g : /\ g = [n \in 0 .. Len(D) |-> g[n]]
               /\ \A n \in 0 .. Len(D) : g[n] = IF n <= off THEN acc ELSE FtFeed(g[n - 1], D[n])
  BY <1>4 DEF P
<1>6. g = [n \in 0 .. Len(D) |-> IF n <= off THEN acc ELSE FtFeed(g[n - 1], D[n])]
  BY <1>5
<1> QED
  BY <1>6 DEF FtReads

\* What FtDrained is.
LEMMA FtDrainedIs ==
  ASSUME Len(ftData[ftFd]) \in Nat, ftOff \in Nat
  PROVE  \E read : /\ FtReads(read, ftData[ftFd], ftOff, [asm |-> ftAsm, out |-> ftOut])
                   /\ FtDrained = read[Len(ftData[ftFd])]
<1> DEFINE D == ftData[ftFd]
           acc == [asm |-> ftAsm, out |-> ftOut]
           read == CHOOSE r : r = [n \in 0 .. Len(D) |-> IF n <= ftOff THEN acc ELSE FtFeed(r[n - 1], D[n])]
<1>1. \E r : r = [n \in 0 .. Len(D) |-> IF n <= ftOff THEN acc ELSE FtFeed(r[n - 1], D[n])]
  <2>1. Len(D) \in Nat
    OBVIOUS
  <2> HIDE DEF D, acc, read
  <2>2. PICK r : FtReads(r, D, ftOff, acc)
    BY <2>1, FtReadExists
  <2> QED
    BY <2>2 DEF FtReads
<1>2. read = [n \in 0 .. Len(D) |-> IF n <= ftOff THEN acc ELSE FtFeed(read[n - 1], D[n])]
  BY <1>1
<1>3. FtDrained = read[Len(D)]
  BY DEF FtDrained
<1> QED
  BY <1>2, <1>3 DEF FtReads

\* The content of a file: writes in their order, a tail right behind its head.
FtFileOK(D) ==
  /\ D \in Seq(1 .. FtMaxWrites)
  /\ \A m, n \in 1 .. Len(D) : m < n => D[m] < D[n]
  /\ \A n \in 2 .. Len(D) : D[n - 1] % 2 = 1 => D[n] = D[n - 1] + 1

\* The files: later inodes hold later writes; a head without its tail is the last write.
FtFilesOK ==
  /\ ftData \in [FtInodes -> Seq(1 .. FtMaxWrites)]
  /\ \A i \in FtInodes : FtFileOK(ftData[i])
  /\ \A i \in FtInodes : \A n \in 1 .. Len(ftData[i]) : ftData[i][n] <= ftWrites
  /\ \A i \in FtInodes : \A n \in 1 .. Len(ftData[i]) :
       n = Len(ftData[i]) /\ ftData[i][n] % 2 = 1 => i = ftLogger /\ ftData[i][n] = ftWrites
  /\ \A i, j \in FtInodes : i < j =>
       \A m \in 1 .. Len(ftData[i]), n \in 1 .. Len(ftData[j]) : ftData[i][m] < ftData[j][n]
  /\ \A j \in FtInodes : j > ftLogger => Len(ftData[j]) = 0

\* The path names the newest inode, the logger writes to that or an older one.
FtPathOK == ftPath \in {0, ftMade} /\ {ftLogger, ftMade} \subseteq FtInodes /\ ftLogger <= ftMade
            /\ ftWrites \in 0 .. FtMaxWrites /\ (ftPath = 0 => ftMade < FtMaxFiles)

\* The line of write w: both its writes, or only the tail.
FtLineOf(l, w) == l \in Seq(Int) /\ (l = <<w>> \/ l = <<w - 1, w>>)

\* Delivered lines: whole, in the order of their writes, none after write b.
FtOutOK(out, b) ==
  /\ out \in Seq(Seq(Int))
  /\ \A i \in 1 .. Len(out) : \E w \in 1 .. b : FtLineOf(out[i], w)
  /\ \A i, j \in 1 .. Len(out) : i < j => Last(out[i]) < Last(out[j])

\* The partial line is the head of one.
FtAsmOK(asm) == asm = <<>> \/ \E w \in 1 .. FtMaxWrites : w % 2 = 1 /\ asm = <<w>>

\* What a collector with the partial line asm and the lines out, at offset off of inode f,
\* will read next continues the partial line and is newer than every line.
FtReaderOK(asm, out, off, f) ==
  /\ off \in Nat /\ FtAsmOK(asm) /\ FtOutOK(out, ftWrites)
  /\ asm # <<>> => off # 0 /\ (Len(ftData[f]) >= off => ftData[f][off] = asm[1])
  /\ \A i \in 1 .. Len(out), m \in 1 .. Len(ftData[f]) :
       m > off \/ Len(ftData[f]) < off => Last(out[i]) < ftData[f][m]
  /\ \A i \in 1 .. Len(out), j \in FtInodes : j > f =>
       \A m \in 1 .. Len(ftData[j]) : Last(out[i]) < ftData[j][m]

\* A sequence of two.
LEMMA FtPair ==
  ASSUME NEW s \in Seq(Int), Len(s) = 2
  PROVE  s = <<s[1], s[2]>>
  OBVIOUS

\* A line ends with the write it is named after.
LEMMA FtLastOf ==
  ASSUME NEW l, NEW w \in Nat, FtLineOf(l, w)
  PROVE  Last(l) = w /\ Len(l) \in 1 .. 2
<1>1. CASE l = <<w>>
  BY <1>1 DEF Last
<1>2. CASE l = <<w - 1, w>>
  <2>1. Len(l) = 2 /\ l[2] = w
    BY <1>2
  <2> QED
    BY <2>1 DEF Last
<1> QED
  BY <1>1, <1>2 DEF FtLineOf

\* One write more is fed to the assembler.
LEMMA FtFeeds ==
  ASSUME FtConstants, FtFilesOK, FtPathOK, NEW f \in FtInodes, NEW n \in 1 .. Len(ftData[f]), NEW asm, NEW out,
         FtReaderOK(asm, out, n - 1, f)
  PROVE  FtReaderOK(FtFeed([asm |-> asm, out |-> out], ftData[f][n]).asm,
                    FtFeed([asm |-> asm, out |-> out], ftData[f][n]).out, n, f)
<1> DEFINE w == ftData[f][n]
           line == IF Len(asm) < FtLineCap THEN Append(asm, w) ELSE asm
<1> USE DEF FtConstants
<1>0. /\ FtFileOK(ftData[f]) /\ w \in 1 .. FtMaxWrites /\ w \in 1 .. ftWrites /\ w \in Nat
      /\ Len(ftData[f]) \in Nat /\ n \in Nat /\ ftWrites \in Nat
  <2>1. FtFileOK(ftData[f]) /\ ftWrites \in Nat /\ w <= ftWrites
    BY DEF FtFilesOK, FtPathOK
  <2>2. Len(ftData[f]) \in Nat /\ w \in 1 .. FtMaxWrites
    BY <2>1 DEF FtFileOK
  <2> QED
    BY <2>1, <2>2
<1>1. \A m \in 1 .. Len(ftData[f]) : m > n => w < ftData[f][m]
  BY <1>0 DEF FtFileOK
<1>2. \A j \in FtInodes : j > f => \A m \in 1 .. Len(ftData[j]) : w < ftData[j][m]
  BY DEF FtFilesOK
<1>3. CASE w % 2 = 0
  <2>1. FtFeed([asm |-> asm, out |-> out], w) = [asm |-> <<>>, out |-> Append(out, line)]
    BY <1>3 DEF FtFeed
  <2>2. FtLineOf(line, w)
    <3>1. CASE asm = <<>>
      BY <1>0, <3>1 DEF FtLineOf
    <3>2. CASE asm # <<>>
      <4>1. PICK v \in 1 .. FtMaxWrites : v % 2 = 1 /\ asm = <<v>>
        BY <3>2 DEF FtReaderOK, FtAsmOK
      <4>2. n - 1 # 0 /\ ftData[f][n - 1] = v
        BY <1>0, <3>2, <4>1 DEF FtReaderOK
      <4>3. w = v + 1
        <5>1. n \in 2 .. Len(ftData[f]) /\ ftData[f][n - 1] % 2 = 1
          BY <1>0, <4>1, <4>2
        <5> QED
          BY <1>0, <4>2, <5>1 DEF FtFileOK
      <4>4. Len(asm) = 1 /\ v \in Int
        BY <4>1
      <4>5. Append(<<v>>, w) \in Seq(Int) /\ Len(Append(<<v>>, w)) = 2
            /\ Append(<<v>>, w)[1] = v /\ Append(<<v>>, w)[2] = w
        BY <1>0, <4>4
      <4>6. Append(<<v>>, w) = <<v, w>>
        BY <4>5, FtPair
      <4>7. line = <<w - 1, w>> /\ line \in Seq(Int)
        BY <1>0, <4>1, <4>3, <4>4, <4>5, <4>6
      <4> QED
        BY <4>7 DEF FtLineOf
    <3> QED
      BY <3>1, <3>2
  <2>3. Last(line) = w /\ line \in Seq(Int)
    <3> HIDE DEF line
    <3>1. CASE line = <<w>>
      BY <1>0, <2>2, <3>1 DEF FtLineOf, Last
    <3>2. CASE line = <<w - 1, w>>
      <4>1. Len(line) = 2 /\ line[2] = w
        BY <3>2
      <4> QED
        BY <2>2, <4>1 DEF FtLineOf, Last
    <3> QED
      BY <2>2, <3>1, <3>2 DEF FtLineOf
  <2>4. \A i \in 1 .. Len(out) : Last(out[i]) < w
    BY <1>0 DEF FtReaderOK
  <2>5. /\ out \in Seq(Seq(Int)) /\ Append(out, line) \in Seq(Seq(Int)) /\ Len(Append(out, line)) = Len(out) + 1
        /\ Len(out) \in Nat
        /\ Append(out, line)[Len(out) + 1] = line /\ \A i \in 1 .. Len(out) : Append(out, line)[i] = out[i]
    <3>1. out \in Seq(Seq(Int))
      BY DEF FtReaderOK, FtOutOK
    <3> HIDE DEF line
    <3> QED
      BY <2>3, <3>1
  <2> DEFINE out2 == Append(out, line)
  <2> HIDE DEF line, w
  <2>6. \A i \in 1 .. Len(out2) : i = Len(out) + 1 \/ i \in 1 .. Len(out)
    BY <2>5
  <2>7. FtOutOK(out2, ftWrites)
    <3>1. \A i \in 1 .. Len(out2) : \E v \in 1 .. ftWrites : FtLineOf(out2[i], v)
      <4> SUFFICES ASSUME NEW i \in 1 .. Len(out2) PROVE \E v \in 1 .. ftWrites : FtLineOf(out2[i], v)
        OBVIOUS
      <4>1. CASE i = Len(out) + 1
        BY <1>0, <2>2, <2>5, <4>1
      <4>2. CASE i \in 1 .. Len(out)
        <5>1. \E v \in 1 .. ftWrites : FtLineOf(out[i], v)
          BY <4>2 DEF FtReaderOK, FtOutOK
        <5> QED
          BY <2>5, <4>2, <5>1
      <4> QED
        BY <2>6, <4>1, <4>2
    <3>2. ASSUME NEW i \in 1 .. Len(out2), NEW j \in 1 .. Len(out2), i < j
          PROVE  Last(out2[i]) < Last(out2[j])
      <4>1. i \in 1 .. Len(out) /\ out2[i] = out[i]
        BY <2>5, <3>2
      <4>2. CASE j = Len(out) + 1
        BY <2>3, <2>4, <2>5, <4>1, <4>2
      <4>3. CASE j \in 1 .. Len(out)
        <5>1. Last(out[i]) < Last(out[j])
          BY <3>2, <4>1, <4>3 DEF FtReaderOK, FtOutOK
        <5> QED
          BY <2>5, <4>1, <4>3, <5>1
      <4> QED
        BY <2>6, <4>2, <4>3
    <3>3. out2 \in Seq(Seq(Int))
      BY <2>5
    <3> HIDE DEF out2
    <3> QED
      BY <3>1, <3>2, <3>3 DEF FtOutOK
  <2>8. \A i \in 1 .. Len(out2) : Last(out2[i]) = w \/ (i \in 1 .. Len(out) /\ Last(out2[i]) = Last(out[i]))
    BY <2>3, <2>5, <2>6
  <2>9. \A i \in 1 .. Len(out2), m \in 1 .. Len(ftData[f]) :
          m > n \/ Len(ftData[f]) < n => Last(out2[i]) < ftData[f][m]
    <3>0. n <= Len(ftData[f]) /\ ~(Len(ftData[f]) < n)
      BY <1>0
    <3> SUFFICES ASSUME NEW i \in 1 .. Len(out2), NEW m \in 1 .. Len(ftData[f]), m > n
                 PROVE  Last(out2[i]) < ftData[f][m]
      BY <3>0, Zenon
    <3>1. m > n - 1
      BY <1>0
    <3>2. CASE Last(out2[i]) = w
      BY <1>1, <3>2
    <3>3. CASE i \in 1 .. Len(out) /\ Last(out2[i]) = Last(out[i])
      BY <3>1, <3>3 DEF FtReaderOK
    <3> QED
      BY <2>8, <3>2, <3>3
  <2>10. \A i \in 1 .. Len(out2), j \in FtInodes : j > f =>
           \A m \in 1 .. Len(ftData[j]) : Last(out2[i]) < ftData[j][m]
    <3> SUFFICES ASSUME NEW i \in 1 .. Len(out2), NEW j \in FtInodes, j > f, NEW m \in 1 .. Len(ftData[j])
                 PROVE  Last(out2[i]) < ftData[j][m]
      OBVIOUS
    <3>2. CASE Last(out2[i]) = w
      BY <1>2, <3>2
    <3>3. CASE i \in 1 .. Len(out) /\ Last(out2[i]) = Last(out[i])
      BY <3>3 DEF FtReaderOK
    <3> QED
      BY <2>8, <3>2, <3>3
  <2> HIDE DEF out2
  <2>11. FtReaderOK(<<>>, out2, n, f)
    BY <1>0, <2>7, <2>9, <2>10 DEF FtReaderOK, FtAsmOK
  <2>12. /\ FtFeed([asm |-> asm, out |-> out], w).asm = <<>>
         /\ FtFeed([asm |-> asm, out |-> out], w).out = out2
    BY <2>1 DEF out2
  <2> QED
    BY <2>11, <2>12 DEF w
<1>4. CASE w % 2 # 0
  <2>1. w % 2 = 1
    BY <1>0, <1>4
  <2>2. asm = <<>>
    <3> SUFFICES ASSUME asm # <<>> PROVE FALSE
      OBVIOUS
    <3>1. PICK v \in 1 .. FtMaxWrites : v % 2 = 1 /\ asm = <<v>>
      BY DEF FtReaderOK, FtAsmOK
    <3>2. n - 1 # 0 /\ ftData[f][n - 1] = v
      BY <1>0, <3>1 DEF FtReaderOK
    <3>3. w = v + 1
      <4>1. n \in 2 .. Len(ftData[f]) /\ ftData[f][n - 1] % 2 = 1
        BY <1>0, <3>1, <3>2
      <4> QED
        BY <1>0, <3>2, <4>1 DEF FtFileOK
    <3> QED
      BY <2>1, <3>1, <3>3
  <2>3. line = <<w>>
    BY <1>0, <2>2
  <2>4. FtFeed([asm |-> asm, out |-> out], w) = [asm |-> <<w>>, out |-> out]
    BY <1>4, <2>3 DEF FtFeed
  <2>5. <<w>>[1] = w
    OBVIOUS
  <2> HIDE DEF w
  <2>6. FtAsmOK(<<w>>)
    BY <1>0, <2>1 DEF FtAsmOK
  <2>7. ftData[f][n] = w
    BY DEF w
  <2>8. FtReaderOK(<<w>>, out, n, f)
    <3>1. \A i \in 1 .. Len(out), m \in 1 .. Len(ftData[f]) :
            m > n \/ Len(ftData[f]) < n => Last(out[i]) < ftData[f][m]
      BY <1>0 DEF FtReaderOK
    <3>2. \A i \in 1 .. Len(out), j \in FtInodes : j > f =>
            \A m \in 1 .. Len(ftData[j]) : Last(out[i]) < ftData[j][m]
      BY DEF FtReaderOK
    <3>3. FtOutOK(out, ftWrites)
      BY DEF FtReaderOK
    <3>4. n # 0 /\ n \in Nat
      BY <1>0
    <3> QED
      BY <2>5, <2>6, <2>7, <3>1, <3>2, <3>3, <3>4 DEF FtReaderOK
  <2> QED
    BY <2>4, <2>8 DEF w
<1> QED
  BY <1>3, <1>4

\* drainLines: what it leaves continues the file at its end.
LEMMA FtDrains ==
  ASSUME FtConstants, FtFilesOK, FtPathOK, ftFd \in FtInodes, FtReaderOK(ftAsm, ftOut, ftOff, ftFd)
  PROVE  FtReaderOK(FtDrained.asm, FtDrained.out,
                    IF Len(ftData[ftFd]) > ftOff THEN Len(ftData[ftFd]) ELSE ftOff, ftFd)
<1> DEFINE D == ftData[ftFd]
           acc == [asm |-> ftAsm, out |-> ftOut]
<1>0. Len(D) \in Nat /\ ftOff \in Nat
  BY DEF FtFilesOK, FtReaderOK
<1>1. PICK read : FtReads(read, D, ftOff, acc) /\ FtDrained = read[Len(D)]
  BY <1>0, FtDrainedIs
<1> HIDE DEF D, acc
<1>2. \A n \in 0 .. Len(D) : read[n] = IF n <= ftOff THEN acc ELSE FtFeed(read[n - 1], D[n])
  BY <1>1 DEF FtReads
<1>3. CASE Len(D) <= ftOff
  <2>1. FtDrained = acc
    BY <1>0, <1>1, <1>2, <1>3
  <2>2. ~(Len(ftData[ftFd]) > ftOff)
    BY <1>0, <1>3 DEF D
  <2>3. FtDrained.asm = ftAsm /\ FtDrained.out = ftOut
    BY <2>1 DEF acc
  <2> QED
    BY <2>2, <2>3
<1>4. CASE Len(D) > ftOff
  <2> DEFINE Q(n) == \E asm, out : read[n] = [asm |-> asm, out |-> out] /\ FtReaderOK(asm, out, n, ftFd)
             T == {n \in Nat : n >= ftOff /\ n <= Len(D) /\ ~Q(n)}
  <2>1. Q(ftOff)
    <3>1. read[ftOff] = acc
      BY <1>0, <1>2, <1>4
    <3> QED
      BY <3>1 DEF acc
  <2>2. ASSUME NEW n \in Nat, n > ftOff, n <= Len(D), Q(n - 1) PROVE Q(n)
    <3>1. PICK asm, out : read[n - 1] = [asm |-> asm, out |-> out] /\ FtReaderOK(asm, out, n - 1, ftFd)
      BY <2>2
    <3>2. n \in 0 .. Len(D) /\ n \in 1 .. Len(ftData[ftFd]) /\ ~(n <= ftOff)
      BY <1>0, <2>2 DEF D
    <3> DEFINE next == FtFeed([asm |-> asm, out |-> out], ftData[ftFd][n])
    <3>3. read[n] = next
      BY <1>2, <3>1, <3>2 DEF D
    <3>4. FtReaderOK(next.asm, next.out, n, ftFd)
      BY <3>1, <3>2, FtFeeds
    <3>5. next = [asm |-> next.asm, out |-> next.out]
      BY DEF FtFeed
    <3> HIDE DEF next
    <3> QED
      BY <3>3, <3>4, <3>5
  <2> HIDE DEF Q
  <2>3. T = {}
    <3> SUFFICES ASSUME T # {} PROVE FALSE
      OBVIOUS
    <3>1. PICK n \in T : \A m \in T : n <= m
      BY LeastNatural
    <3>2. n > ftOff /\ n - 1 \in Nat /\ n - 1 >= ftOff /\ n - 1 <= Len(D) /\ n <= Len(D)
      BY <1>0, <2>1, <3>1
    <3>3. n - 1 \notin T
      BY <3>1, <3>2
    <3>4. Q(n - 1)
      BY <3>2, <3>3
    <3> QED
      BY <2>2, <3>1, <3>2, <3>4
  <2>4. Q(Len(D))
    BY <1>0, <1>4, <2>3
  <2>5. PICK asm, out : read[Len(D)] = [asm |-> asm, out |-> out] /\ FtReaderOK(asm, out, Len(D), ftFd)
    BY <2>4 DEF Q
  <2>6. FtDrained.asm = asm /\ FtDrained.out = out
    BY <1>1, <2>5
  <2> QED
    BY <1>4, <2>5, <2>6 DEF D
<1> QED
  BY <1>0, <1>3, <1>4

\* The descriptor, the watch and the events: the watch is on the file being read or a later
\* one, and a rotation it reported means that the path names neither.
FtWhereOK ==
  /\ ftPc \in FtPcs /\ ftFd \in FtInodes \cup {0} /\ ftWatch \in FtInodes \cup {0}
  /\ ftWds \in Nat /\ ftWd \in 0 .. ftWds /\ (ftWd = 0 <=> ftWatch = 0)
  /\ ftPc = "start" <=> ftFd = 0
  /\ ftPc \in {"start", "startWatch"} => ftWd = 0
  /\ ftFd <= ftMade /\ ftWatch <= ftMade /\ (ftWd # 0 => ftFd <= ftWatch)
  /\ ftPc \in {"open", "reopen"} => ftPath = 0 \/ ftFd < ftPath
  /\ \A e \in ftEvents \cup ftBatch : /\ e[1] \in 0 .. ftWds
                                      /\ e[2] = "gone" => e[1] # 0
                                      /\ FtIsRotation(e) => ftPath # ftWatch

\* Reading, or between two runs of Run.
FtReadingOK ==
  IF ftFd = 0 THEN ftAsm = <<>> /\ ftOff = 0 /\ FtOutOK(ftOut, ftWrites)
              ELSE FtReaderOK(ftAsm, ftOut, ftOff, ftFd)

\* The inductive invariant.
FtIndInv == FtPathOK /\ FtFilesOK /\ FtWhereOK /\ FtReadingOK /\ ftFaults \in 0 .. FtMaxFaults

\* A sequence with one write more.
LEMMA FtAppend ==
  ASSUME FtMaxWrites \in Nat, NEW D \in Seq(1 .. FtMaxWrites), NEW w \in 1 .. FtMaxWrites
  PROVE  /\ Append(D, w) \in Seq(1 .. FtMaxWrites) /\ Len(Append(D, w)) = Len(D) + 1 /\ Len(D) \in Nat
         /\ Append(D, w)[Len(D) + 1] = w /\ \A n \in 1 .. Len(D) : Append(D, w)[n] = D[n]
         /\ \A n \in 1 .. Len(Append(D, w)) :
              (n = Len(D) + 1 /\ Append(D, w)[n] = w) \/ (n \in 1 .. Len(D) /\ Append(D, w)[n] = D[n])
<1>1. /\ Append(D, w) \in Seq(1 .. FtMaxWrites) /\ Len(Append(D, w)) = Len(D) + 1 /\ Len(D) \in Nat
      /\ Append(D, w)[Len(D) + 1] = w /\ \A n \in 1 .. Len(D) : Append(D, w)[n] = D[n]
  OBVIOUS
<1> DEFINE E == Append(D, w)
<1> HIDE DEF E
<1>a. /\ E \in Seq(1 .. FtMaxWrites) /\ Len(E) = Len(D) + 1 /\ Len(D) \in Nat
      /\ E[Len(D) + 1] = w /\ \A n \in 1 .. Len(D) : E[n] = D[n]
  BY <1>1 DEF E
<1>2. ASSUME NEW n \in 1 .. Len(E) PROVE (n = Len(D) + 1 /\ E[n] = w) \/ (n \in 1 .. Len(D) /\ E[n] = D[n])
  <2>1. CASE n = Len(D) + 1
    <3>1. E[n] = w
      <4>1. E[n] = E[Len(D) + 1]
        BY <2>1
      <4> QED
        BY <1>a, <4>1
    <3> QED
      BY <2>1, <3>1
  <2>2. CASE n # Len(D) + 1
    <3>1. n \in 1 .. Len(D)
      BY <1>a, <2>2
    <3> QED
      BY <1>a, <3>1
  <2> QED
    BY <2>1, <2>2
<1>3. \A n \in 1 .. Len(E) : (n = Len(D) + 1 /\ E[n] = w) \/ (n \in 1 .. Len(D) /\ E[n] = D[n])
  BY <1>2
<1> QED
  BY <1>1, <1>3, Zenon DEF E

\* A write of the logger keeps the files in order.
LEMMA FtWriteFiles ==
  ASSUME FtConstants, FtPathOK, FtFilesOK, FtWrite
  PROVE  FtPathOK' /\ FtFilesOK'
<1> USE DEF FtConstants
<1> DEFINE w == ftWrites + 1
           L == ftLogger
           D == ftData[L]
<1>1. /\ ftWrites' = w /\ ftData' = [ftData EXCEPT ![L] = Append(D, w)]
      /\ UNCHANGED <<ftPath, ftLogger, ftMade>> /\ ftWrites < FtMaxWrites
  BY DEF FtWrite
<1>2. L \in FtInodes /\ w \in 1 .. FtMaxWrites /\ w \in Nat /\ ftWrites \in Nat /\ FtInodes \subseteq Nat
  BY <1>1 DEF FtPathOK, FtInodes
<1>3. FtPathOK'
  BY <1>1, <1>2 DEF FtPathOK
<1>4. D \in Seq(1 .. FtMaxWrites) /\ Len(D) \in Nat
  BY <1>2 DEF FtFilesOK
<1>5. /\ Append(D, w) \in Seq(1 .. FtMaxWrites) /\ Len(Append(D, w)) = Len(D) + 1
      /\ Append(D, w)[Len(D) + 1] = w /\ \A n \in 1 .. Len(D) : Append(D, w)[n] = D[n]
  BY <1>2, <1>4, FtAppend
<1> DEFINE E == Append(D, w)
<1>6. ftData' \in [FtInodes -> Seq(1 .. FtMaxWrites)] /\ ftData'[L] = E
      /\ \A i \in FtInodes \ {L} : ftData'[i] = ftData[i]
  BY <1>1, <1>2, <1>5 DEF FtFilesOK
<1> HIDE DEF w, E
<1>7. \A n \in 1 .. Len(D) : D[n] <= ftWrites /\ D[n] < w
  <2> SUFFICES ASSUME NEW n \in 1 .. Len(D) PROVE D[n] <= ftWrites /\ D[n] < w
    OBVIOUS
  <2>1. D[n] <= ftWrites /\ D[n] \in 1 .. FtMaxWrites
    BY <1>2, <1>4 DEF FtFilesOK
  <2> QED
    BY <1>2, <2>1 DEF w
<1>8. \A n \in 1 .. Len(E) : (n = Len(D) + 1 /\ E[n] = w) \/ (n \in 1 .. Len(D) /\ E[n] = D[n])
  <2>1. w \in 1 .. FtMaxWrites
    BY <1>2
  <2> HIDE DEF D
  <2> QED
    BY <1>4, <2>1, FtAppend DEF E
<1>9. FtFileOK(E)
  <2>0. FtFileOK(D)
    BY <1>2 DEF FtFilesOK
  <2>1. ASSUME NEW m \in 1 .. Len(E), NEW n \in 1 .. Len(E), m < n PROVE E[m] < E[n]
    <3>1. m \in 1 .. Len(D) /\ E[m] = D[m]
      BY <1>4, <1>5, <2>1 DEF E
    <3>2. CASE n = Len(D) + 1 /\ E[n] = w
      BY <1>7, <3>1, <3>2
    <3>3. CASE n \in 1 .. Len(D) /\ E[n] = D[n]
      BY <2>0, <2>1, <3>1, <3>3 DEF FtFileOK
    <3> QED
      BY <1>8, <3>2, <3>3
  <2>2. ASSUME NEW n \in 2 .. Len(E), E[n - 1] % 2 = 1 PROVE E[n] = E[n - 1] + 1
    <3>1. n - 1 \in 1 .. Len(D) /\ E[n - 1] = D[n - 1]
      BY <1>4, <1>5 DEF E
    <3>2. CASE n = Len(D) + 1
      <4>1. D[n - 1] = ftWrites
        <5>1. n - 1 = Len(D) /\ n - 1 \in 1 .. Len(ftData[L]) /\ ftData[L][n - 1] % 2 = 1
          BY <1>4, <2>2, <3>1, <3>2
        <5> QED
          BY <1>2, <5>1 DEF FtFilesOK
      <4>2. E[n] = w
        BY <1>5, <3>2 DEF E
      <4> QED
        BY <1>2, <3>1, <4>1, <4>2 DEF w
    <3>3. CASE n # Len(D) + 1
      <4>1. n \in 2 .. Len(D) /\ E[n] = D[n]
        <5>1. Len(E) = Len(D) + 1
          BY <1>5 DEF E
        <5>2. n \in 1 .. Len(E) /\ n >= 2
          BY <1>4, <5>1
        <5>3. n \in 1 .. Len(D) /\ E[n] = D[n]
          BY <1>8, <3>3, <5>2, Zenon
        <5> QED
          BY <1>4, <5>2, <5>3
      <4> QED
        BY <2>0, <2>2, <3>1, <4>1 DEF FtFileOK
    <3> QED
      BY <3>2, <3>3
  <2>3. E \in Seq(1 .. FtMaxWrites)
    BY <1>5 DEF E
  <2> QED
    BY <2>1, <2>2, <2>3 DEF FtFileOK
<1>10. \A i \in FtInodes : FtFileOK(ftData'[i])
  <2> SUFFICES ASSUME NEW i \in FtInodes PROVE FtFileOK(ftData'[i])
    OBVIOUS
  <2>1. CASE i = L
    BY <1>6, <1>9, <2>1
  <2>2. CASE i # L
    BY <1>6, <2>2 DEF FtFilesOK
  <2> QED
    BY <2>1, <2>2
<1>11. \A i \in FtInodes : \A n \in 1 .. Len(ftData'[i]) : ftData'[i][n] <= w
  <2> SUFFICES ASSUME NEW i \in FtInodes, NEW n \in 1 .. Len(ftData'[i]) PROVE ftData'[i][n] <= w
    OBVIOUS
  <2>1. CASE i = L
    <3>1. n \in 1 .. Len(E) /\ ftData'[i][n] = E[n]
      BY <1>6, <2>1
    <3>2. CASE E[n] = w
      BY <1>2, <3>1, <3>2
    <3>3. CASE n \in 1 .. Len(D) /\ E[n] = D[n]
      <4>1. D[n] <= ftWrites /\ D[n] \in 1 .. FtMaxWrites
        BY <1>4, <1>7, <3>3
      <4> QED
        BY <1>2, <3>1, <3>3, <4>1 DEF w
    <3> QED
      BY <1>8, <3>1, <3>2, <3>3
  <2>2. CASE i # L
    <3>1. n \in 1 .. Len(ftData[i]) /\ ftData'[i][n] = ftData[i][n]
      BY <1>6, <2>2
    <3>2. ftData[i][n] <= ftWrites /\ ftData[i] \in Seq(1 .. FtMaxWrites)
      BY <3>1 DEF FtFilesOK
    <3>3. ftData[i][n] \in 1 .. FtMaxWrites
      BY <3>1, <3>2
    <3> QED
      BY <1>2, <3>1, <3>2, <3>3 DEF w
  <2> QED
    BY <2>1, <2>2
<1>12. \A i \in FtInodes : \A n \in 1 .. Len(ftData'[i]) :
         n = Len(ftData'[i]) /\ ftData'[i][n] % 2 = 1 => i = L /\ ftData'[i][n] = w
  <2> SUFFICES ASSUME NEW i \in FtInodes, NEW n \in 1 .. Len(ftData'[i]), n = Len(ftData'[i]), ftData'[i][n] % 2 = 1
               PROVE  i = L /\ ftData'[i][n] = w
    OBVIOUS
  <2>1. CASE i = L
    BY <1>5, <1>6, <2>1 DEF E
  <2>2. CASE i # L
    BY <1>6, <2>2 DEF FtFilesOK
  <2> QED
    BY <2>1, <2>2
<1>13. ASSUME NEW i \in FtInodes, NEW j \in FtInodes, i < j,
             NEW m \in 1 .. Len(ftData'[i]), NEW n \in 1 .. Len(ftData'[j])
       PROVE ftData'[i][m] < ftData'[j][n]
  <2>1. CASE j > L
    <3>0. j # L
      BY <1>2, <2>1
    <3>1. Len(ftData[j]) = 0 /\ j # L
      BY <2>1, <3>0 DEF FtFilesOK
    <3> QED
      BY <1>6, <3>1
  <2>2. CASE j = L
    <3>1. i # L /\ m \in 1 .. Len(ftData[i]) /\ ftData'[i][m] = ftData[i][m] /\ ftData[i] \in Seq(1 .. FtMaxWrites)
      <4>1. i # L
        BY <1>2, <1>13, <2>2
      <4>2. ftData'[i] = ftData[i] /\ ftData[i] \in Seq(1 .. FtMaxWrites)
        BY <1>6, <4>1 DEF FtFilesOK
      <4> QED
        BY <1>13, <4>1, <4>2
    <3>2. ftData[i][m] <= ftWrites /\ ftData[i][m] \in 1 .. FtMaxWrites
      <4>1. \A a \in FtInodes : \A b \in 1 .. Len(ftData[a]) : ftData[a][b] <= ftWrites
        BY DEF FtFilesOK
      <4>2. ftData[i][m] <= ftWrites
        BY <3>1, <4>1
      <4>3. ftData[i][m] \in 1 .. FtMaxWrites
        BY <3>1
      <4> QED
        BY <4>2, <4>3
    <3>3. CASE ftData'[j][n] = w
      <4>1. ftWrites < w /\ ftWrites \in Nat /\ w \in Nat
        BY <1>2 DEF w
      <4>2. ftData[i][m] \in Nat
        BY <3>2
      <4>3. ftData[i][m] < w
        BY <3>2, <4>1, <4>2
      <4> QED
        BY <3>1, <3>3, <4>3
    <3>4. CASE n \in 1 .. Len(D) /\ ftData'[j][n] = D[n]
      BY <1>13, <2>2, <3>1, <3>4 DEF FtFilesOK
    <3> QED
      BY <1>6, <1>8, <2>2, <3>3, <3>4
  <2>3. CASE j < L
    <3>1. i # L /\ j # L
      BY <1>2, <1>13, <2>3
    <3> QED
      BY <1>6, <1>13, <3>1 DEF FtFilesOK
  <2>4. i \in Nat /\ j \in Nat /\ L \in Nat
    BY <1>2
  <2>5. j > L \/ j = L \/ j < L
    BY <2>4
  <2> QED
    BY <2>1, <2>2, <2>3, <2>5
<1>14. \A j \in FtInodes : j > L => Len(ftData'[j]) = 0
  <2> SUFFICES ASSUME NEW j \in FtInodes, j > L PROVE Len(ftData'[j]) = 0
    OBVIOUS
  <2>1. j # L
    BY <1>2
  <2> QED
    BY <1>6, <2>1 DEF FtFilesOK
<1> QED
  BY <1>1, <1>3, <1>6, <1>10, <1>11, <1>12, <1>13, <1>14 DEF FtFilesOK

\* A write of the logger is newer than all that was delivered and goes behind what was read.
LEMMA FtWriteReader ==
  ASSUME FtConstants, FtPathOK, FtFilesOK, FtWrite, NEW f \in FtInodes, f = ftFd,
         NEW asm, NEW out, NEW off, off = ftOff, FtReaderOK(asm, out, off, f)
  PROVE  FtReaderOK(asm, out, off, f)'
<1> USE DEF FtConstants
<1> DEFINE w == ftWrites + 1
           L == ftLogger
<1>1. /\ ftWrites' = w /\ ftData' = [ftData EXCEPT ![L] = Append(ftData[L], w)]
      /\ FtRegrowsSlowly(L) /\ ftWrites < FtMaxWrites
  BY DEF FtWrite
<1>2. L \in FtInodes /\ w \in 1 .. FtMaxWrites /\ w \in Nat /\ ftWrites \in Nat /\ off \in Nat
  BY <1>1 DEF FtPathOK, FtReaderOK
<1>3. \A i \in FtInodes : ftData[i] \in Seq(1 .. FtMaxWrites) /\ Len(ftData[i]) \in Nat
  BY DEF FtFilesOK
<1>4. \A i \in FtInodes : \A n \in 1 .. Len(ftData'[i]) :
         \/ i = L /\ n = Len(ftData[i]) + 1 /\ ftData'[i][n] = w
         \/ n \in 1 .. Len(ftData[i]) /\ ftData'[i][n] = ftData[i][n]
  <2> SUFFICES ASSUME NEW i \in FtInodes, NEW n \in 1 .. Len(ftData'[i])
               PROVE \/ i = L /\ n = Len(ftData[i]) + 1 /\ ftData'[i][n] = w
                     \/ n \in 1 .. Len(ftData[i]) /\ ftData'[i][n] = ftData[i][n]
    OBVIOUS
  <2>0. ftData \in [FtInodes -> Seq(1 .. FtMaxWrites)]
    BY DEF FtFilesOK
  <2>1. CASE i = L
    <3>1. ftData'[i] = Append(ftData[L], w)
      BY <1>1, <1>2, <2>0, <2>1
    <3>2. w \in 1 .. FtMaxWrites /\ ftData[L] \in Seq(1 .. FtMaxWrites)
      BY <1>2, <1>3
    <3> HIDE DEF w
    <3> QED
      BY <2>1, <3>1, <3>2, FtAppend
  <2>2. CASE i # L
    <3>1. ftData'[i] = ftData[i]
      BY <1>1, <1>2, <2>0, <2>2
    <3> QED
      BY <3>1
  <2> QED
    BY <2>1, <2>2
<1>5. f = L => Len(ftData'[f]) = Len(ftData[f]) + 1 /\ (Len(ftData[f]) < off => Len(ftData[f]) + 1 < off)
               /\ \A n \in 1 .. Len(ftData[f]) : ftData'[f][n] = ftData[f][n]
  <2> SUFFICES ASSUME f = L
               PROVE  Len(ftData'[f]) = Len(ftData[f]) + 1 /\ (Len(ftData[f]) < off => Len(ftData[f]) + 1 < off)
                      /\ \A n \in 1 .. Len(ftData[f]) : ftData'[f][n] = ftData[f][n]
    OBVIOUS
  <2>1. ftData'[f] = Append(ftData[L], w)
    BY <1>1, <1>2 DEF FtFilesOK
  <2>2. Len(ftData[f]) < off => Len(ftData[f]) + 1 < off
    BY <1>1, <1>2, <1>3 DEF FtRegrowsSlowly
  <2> QED
    BY <1>2, <1>3, <2>1, <2>2
<1>6. f # L => ftData'[f] = ftData[f]
  BY <1>1, <1>2 DEF FtFilesOK
<1> HIDE DEF w
<1>7. \A i \in 1 .. Len(out) : Last(out[i]) <= ftWrites /\ Last(out[i]) < w
  <2> SUFFICES ASSUME NEW i \in 1 .. Len(out) PROVE Last(out[i]) <= ftWrites /\ Last(out[i]) < w
    OBVIOUS
  <2>1. PICK v \in 1 .. ftWrites : FtLineOf(out[i], v)
    BY DEF FtReaderOK, FtOutOK
  <2>2. Last(out[i]) = v
    BY <2>1, FtLastOf
  <2> QED
    BY <1>2, <2>1, <2>2 DEF w
<1>8. FtOutOK(out, w)
  <2>1. \A v \in 1 .. ftWrites : v \in 1 .. w
    BY <1>2 DEF w
  <2> QED
    BY <2>1 DEF FtReaderOK, FtOutOK
<1>9. asm # <<>> => off # 0 /\ (Len(ftData'[f]) >= off => ftData'[f][off] = asm[1])
  <2> SUFFICES ASSUME asm # <<>>, Len(ftData'[f]) >= off PROVE ftData'[f][off] = asm[1]
    BY DEF FtReaderOK
  <2>1. off # 0
    BY DEF FtReaderOK
  <2>2. Len(ftData[f]) >= off /\ ftData'[f][off] = ftData[f][off]
    <3>0. Len(ftData[f]) \in Nat /\ off \in Nat
      BY <1>2, <1>3
    <3>1. CASE f = L
      <4>1. Len(ftData[f]) + 1 >= off /\ (Len(ftData[f]) < off => Len(ftData[f]) + 1 < off)
        BY <1>5, <3>1
      <4>2. Len(ftData[f]) >= off /\ off \in 1 .. Len(ftData[f])
        BY <2>1, <3>0, <4>1
      <4> QED
        BY <1>5, <3>1, <4>2
    <3>2. CASE f # L
      BY <1>6, <3>2
    <3> QED
      BY <3>1, <3>2
  <2> QED
    BY <2>2 DEF FtReaderOK
<1>10. \A i \in 1 .. Len(out), m \in 1 .. Len(ftData'[f]) :
         m > off \/ Len(ftData'[f]) < off => Last(out[i]) < ftData'[f][m]
  <2> SUFFICES ASSUME NEW i \in 1 .. Len(out), NEW m \in 1 .. Len(ftData'[f]), m > off \/ Len(ftData'[f]) < off
               PROVE  Last(out[i]) < ftData'[f][m]
    OBVIOUS
  <2>1. CASE ftData'[f][m] = w
    BY <1>7, <2>1
  <2>2. CASE m \in 1 .. Len(ftData[f]) /\ ftData'[f][m] = ftData[f][m]
    <3>0. Len(ftData[f]) \in Nat /\ off \in Nat
      BY <1>2, <1>3
    <3>1. m > off \/ Len(ftData[f]) < off
      <4>1. CASE f = L
        <5>1. Len(ftData'[f]) = Len(ftData[f]) + 1
          BY <1>5, <4>1
        <5> QED
          BY <3>0, <5>1
      <4>2. CASE f # L
        BY <1>6, <4>2
      <4> QED
        BY <4>1, <4>2
    <3> QED
      BY <2>2, <3>1 DEF FtReaderOK
  <2> QED
    BY <1>4, <2>1, <2>2
<1>11. \A i \in 1 .. Len(out), j \in FtInodes : j > f =>
         \A m \in 1 .. Len(ftData'[j]) : Last(out[i]) < ftData'[j][m]
  <2> SUFFICES ASSUME NEW i \in 1 .. Len(out), NEW j \in FtInodes, j > f, NEW m \in 1 .. Len(ftData'[j])
               PROVE  Last(out[i]) < ftData'[j][m]
    OBVIOUS
  <2>1. CASE ftData'[j][m] = w
    BY <1>7, <2>1
  <2>2. CASE m \in 1 .. Len(ftData[j]) /\ ftData'[j][m] = ftData[j][m]
    BY <2>2 DEF FtReaderOK
  <2> QED
    BY <1>4, <2>1, <2>2
<1>12. ftWrites' = w
  BY <1>1 DEF w
<1> QED
  BY <1>2, <1>8, <1>9, <1>10, <1>11, <1>12 DEF FtReaderOK

\* A truncation leaves nothing to read again before the collector rewinds.
LEMMA FtTruncates ==
  ASSUME FtConstants, FtPathOK, FtFilesOK, FtCopyTruncate
  PROVE  /\ FtPathOK' /\ FtFilesOK'
         /\ \A asm, out, off : \A f \in FtInodes : FtReaderOK(asm, out, off, f) => FtReaderOK(asm, out, off, f)'
<1>1. /\ ftData' = [ftData EXCEPT ![ftPath] = <<>>] /\ ftPath # 0
      /\ UNCHANGED <<ftPath, ftLogger, ftMade, ftWrites>>
  BY DEF FtCopyTruncate
<1>2. ftPath \in FtInodes /\ FtPathOK'
  BY <1>1 DEF FtPathOK
<1>3. /\ ftData' \in [FtInodes -> Seq(1 .. FtMaxWrites)] /\ ftData'[ftPath] = <<>>
      /\ \A i \in FtInodes \ {ftPath} : ftData'[i] = ftData[i]
  BY <1>1, <1>2 DEF FtFilesOK
<1>4. \A i \in FtInodes : \/ Len(ftData'[i]) = 0 /\ ftData'[i] = <<>>
                          \/ ftData'[i] = ftData[i]
  BY <1>3
<1>5. FtFileOK(<<>>)
  BY DEF FtFileOK
<1>6. FtFilesOK'
  <2>1. \A i \in FtInodes : FtFileOK(ftData'[i])
    BY <1>4, <1>5 DEF FtFilesOK
  <2>2. \A i \in FtInodes : \A n \in 1 .. Len(ftData'[i]) : ftData'[i][n] <= ftWrites
    BY <1>4 DEF FtFilesOK
  <2>3. \A i \in FtInodes : \A n \in 1 .. Len(ftData'[i]) :
          n = Len(ftData'[i]) /\ ftData'[i][n] % 2 = 1 => i = ftLogger /\ ftData'[i][n] = ftWrites
    BY <1>4 DEF FtFilesOK
  <2>4. \A i, j \in FtInodes : i < j =>
          \A m \in 1 .. Len(ftData'[i]), n \in 1 .. Len(ftData'[j]) : ftData'[i][m] < ftData'[j][n]
    <3> SUFFICES ASSUME NEW i \in FtInodes, NEW j \in FtInodes, i < j,
                        NEW m \in 1 .. Len(ftData'[i]), NEW n \in 1 .. Len(ftData'[j])
                 PROVE  ftData'[i][m] < ftData'[j][n]
      OBVIOUS
    <3>1. ftData'[i] = ftData[i] /\ ftData'[j] = ftData[j]
      BY <1>4
    <3> QED
      BY <3>1 DEF FtFilesOK
  <2>5. \A j \in FtInodes : j > ftLogger => Len(ftData'[j]) = 0
    BY <1>4 DEF FtFilesOK
  <2> QED
    BY <1>1, <1>3, <2>1, <2>2, <2>3, <2>4, <2>5 DEF FtFilesOK
<1>7. ASSUME NEW asm, NEW out, NEW off, NEW f \in FtInodes, FtReaderOK(asm, out, off, f)
      PROVE  FtReaderOK(asm, out, off, f)'
  <2>1. off \in Nat /\ FtAsmOK(asm) /\ FtOutOK(out, ftWrites) /\ (asm # <<>> => off # 0)
    BY <1>7 DEF FtReaderOK
  <2>2. asm # <<>> => (Len(ftData'[f]) >= off => ftData'[f][off] = asm[1])
    BY <1>4, <1>7, <2>1 DEF FtReaderOK
  <2>3. \A i \in 1 .. Len(out), m \in 1 .. Len(ftData'[f]) :
          m > off \/ Len(ftData'[f]) < off => Last(out[i]) < ftData'[f][m]
    BY <1>4, <1>7 DEF FtReaderOK
  <2>4. \A i \in 1 .. Len(out), j \in FtInodes : j > f =>
          \A m \in 1 .. Len(ftData'[j]) : Last(out[i]) < ftData'[j][m]
    BY <1>4, <1>7 DEF FtReaderOK
  <2> QED
    BY <1>1, <2>1, <2>2, <2>3, <2>4 DEF FtReaderOK
<1> QED
  BY <1>2, <1>6, <1>7

\* Nothing of what the collector reads depends on anything else.
LEMMA FtReadingSame ==
  ASSUME FtReadingOK, UNCHANGED <<ftData, ftWrites, ftFd, ftOff, ftAsm, ftOut>>
  PROVE  FtReadingOK'
  BY DEF FtReadingOK, FtReaderOK

\* The watch Run puts is on the newest inode and has a number of its own.
LEMMA FtWatchPut ==
  ASSUME FtPathOK, FtWhereOK, FtAddWatch \/ FtAddWatchFails, UNCHANGED <<ftPath, ftMade, ftFd, ftEvents, ftBatch>>
  PROVE  /\ ftWatch' \in FtInodes \cup {0} /\ ftWds' \in Nat /\ ftWd' \in 0 .. ftWds'
         /\ (ftWd' = 0 <=> ftWatch' = 0) /\ ftWatch' <= ftMade' /\ (ftWd' # 0 => ftFd' <= ftWatch')
         /\ \A e \in ftEvents' \cup ftBatch' : e[1] \in 0 .. ftWds' /\ (e[2] = "gone" => e[1] # 0)
                                                 /\ (FtIsRotation(e)' => ftPath' # ftWatch')
<1>0. ftMade \in Nat /\ ftPath \in {0, ftMade} /\ ftMade \in FtInodes /\ ftFd <= ftMade /\ ftWds \in Nat
  BY DEF FtPathOK, FtWhereOK, FtInodes
<1>1. \A e \in ftEvents \cup ftBatch : e[1] \in 0 .. ftWds /\ (e[2] = "gone" => e[1] # 0)
  BY DEF FtWhereOK
<1>2. CASE FtAddWatch
  <2>1. ftPath = ftMade /\ ftWds' = ftWds + 1 /\ ftWd' = ftWds + 1 /\ ftWatch' = ftPath /\ ftMade # 0
    BY <1>0, <1>2 DEF FtAddWatch, FtInodes
  <2>2. \A e \in ftEvents \cup ftBatch : e[1] \in 0 .. ftWds' /\ e[1] # ftWd'
    BY <1>0, <1>1, <2>1
  <2>3. \A e \in ftEvents' \cup ftBatch' : ~FtIsRotation(e)'
    BY <2>2 DEF FtIsRotation
  <2> QED
    BY <1>0, <1>1, <2>1, <2>2, <2>3
<1>3. CASE FtAddWatchFails
  <2>1. ftWd' = 0 /\ ftWatch' = 0 /\ ftWds' = ftWds
    BY <1>3 DEF FtAddWatchFails
  <2>2. \A e \in ftEvents' \cup ftBatch' : ~FtIsRotation(e)'
    BY <1>1, <2>1 DEF FtIsRotation
  <2> QED
    BY <1>0, <1>1, <2>1, <2>2
<1> QED
  BY <1>2, <1>3


\* The parts of the invariant that no step of the collector touches.
LEMMA FtEnvSame ==
  ASSUME FtPathOK, FtFilesOK, UNCHANGED ftEnv
  PROVE  FtPathOK' /\ FtFilesOK'
  BY DEF ftEnv, FtPathOK, FtFilesOK

\* The logger and logrotate keep the invariant.
LEMMA FtEnvStep ==
  ASSUME FtConstants, FtIndInv, FtWrite \/ FtRename \/ FtCreate \/ FtLoggerReopens \/ FtCopyTruncate \/ FtOldMoved
  PROVE  FtIndInv'
<1> USE DEF FtConstants
<1>0. FtPathOK /\ FtFilesOK /\ FtWhereOK /\ FtReadingOK /\ ftFaults \in 0 .. FtMaxFaults
  BY DEF FtIndInv
<1>1. ftMade \in Nat /\ ftPath \in {0, ftMade} /\ ftMade \in FtInodes /\ ftFd <= ftMade /\ ftWatch <= ftMade
      /\ ftFd \in Nat /\ ftWatch \in Nat /\ ftWds \in Nat /\ ftWd \in 0 .. ftWds
  BY <1>0 DEF FtPathOK, FtWhereOK, FtInodes
<1>2. UNCHANGED <<ftPc, ftFd, ftOff, ftWd, ftWatch, ftWds, ftBatch, ftAsm, ftOut>>
  BY DEF FtWrite, FtRename, FtCreate, FtLoggerReopens, FtCopyTruncate, FtOldMoved
<1> DEFINE Fresh == \A e \in ftEvents' \cup ftBatch' :
                      /\ e[1] \in 0 .. ftWds /\ (e[2] = "gone" => e[1] # 0)
                      /\ e[1] = ftWd /\ e[2] = "gone" => ftPath' # ftWatch
<1>a. ASSUME NEW i, ftEvents' = FtNotify(i, "mod"), ftPath' = ftPath PROVE Fresh
  <2>1. \A e \in ftEvents' : e \in ftEvents \/ e = <<ftWd, "mod">>
    BY <1>a DEF FtNotify
  <2>2. <<ftWd, "mod">>[1] = ftWd /\ <<ftWd, "mod">>[2] = "mod"
    OBVIOUS
  <2> QED
    BY <1>0, <1>1, <1>2, <1>a, <2>1, <2>2 DEF FtWhereOK, FtIsRotation
<1>b. ASSUME NEW i, ftEvents' = FtNotify(i, "gone"), ftPath' # ftWatch, ftPath' = 0 \/ ftPath' = ftPath PROVE Fresh
  <2>1. \A e \in ftEvents' : e \in ftEvents \/ (e = <<ftWd, "gone">> /\ ftWd # 0)
    BY <1>b DEF FtNotify
  <2>2. <<ftWd, "gone">>[1] = ftWd /\ <<ftWd, "gone">>[2] = "gone"
    OBVIOUS
  <2> QED
    BY <1>0, <1>1, <1>2, <1>b, <2>1, <2>2 DEF FtWhereOK, FtIsRotation
<1>c. ASSUME Fresh, ftPath' = 0 \/ ftPath' = ftPath \/ ftFd < ftPath', ftMade' >= ftMade, ftMade' \in Nat PROVE FtWhereOK'
  <2>1. ftFd <= ftMade' /\ ftWatch <= ftMade'
    BY <1>1, <1>c
  <2>2. \A e \in ftEvents' \cup ftBatch' : /\ e[1] \in 0 .. ftWds'
                                           /\ e[2] = "gone" => e[1] # 0
                                           /\ FtIsRotation(e)' => ftPath' # ftWatch'
    BY <1>2, <1>c DEF FtIsRotation
  <2> HIDE DEF Fresh
  <2>3. ftPc' \in {"open", "reopen"} => ftPath' = 0 \/ ftFd' < ftPath'
    BY <1>0, <1>2, <1>c DEF FtWhereOK
  <2> QED
    BY <1>0, <1>2, <2>1, <2>2, <2>3 DEF FtWhereOK
<1>d. UNCHANGED <<ftData, ftWrites>> => FtReadingOK'
  BY <1>0, <1>2, FtReadingSame
<1> HIDE DEF Fresh
<1>3. CASE FtWrite
  <2>1. ftEvents' = FtNotify(ftLogger, "mod") /\ ftPath' = ftPath /\ ftMade' = ftMade /\ ftFaults' = ftFaults
        /\ ftWrites' = ftWrites + 1
    BY <1>3 DEF FtWrite
  <2>2. FtPathOK' /\ FtFilesOK'
    BY <1>0, <1>3, FtWriteFiles
  <2>3. FtReadingOK'
    <3>1. CASE ftFd = 0
      <4>1. FtOutOK(ftOut, ftWrites) /\ ftAsm = <<>> /\ ftOff = 0
        BY <1>0, <3>1 DEF FtReadingOK
      <4>2. \A v \in 1 .. ftWrites : v \in 1 .. ftWrites'
        BY <1>0, <2>1 DEF FtPathOK
      <4>3. FtOutOK(ftOut, ftWrites)'
        BY <1>2, <4>1, <4>2 DEF FtOutOK
      <4> QED
        BY <1>2, <3>1, <4>1, <4>3 DEF FtReadingOK
    <3>2. CASE ftFd # 0
      <4>1. PICK f, asm, out, off : f = ftFd /\ asm = ftAsm /\ out = ftOut /\ off = ftOff
        OBVIOUS
      <4>2. f \in FtInodes /\ FtReaderOK(asm, out, off, f)
        BY <1>0, <3>2, <4>1 DEF FtReadingOK, FtWhereOK
      <4>3. FtReaderOK(asm, out, off, f)'
        BY <1>0, <1>3, <4>1, <4>2, FtWriteReader
      <4> QED
        BY <1>2, <3>2, <4>1, <4>3 DEF FtReadingOK
    <3> QED
      BY <3>1, <3>2
  <2> QED
    BY <1>0, <1>1, <1>a, <1>c, <2>1, <2>2, <2>3 DEF FtIndInv
<1>4. CASE FtRename
  <2>1. ftPath' = 0 /\ ftEvents' = FtNotify(ftPath, "gone") /\ ftPath # 0 /\ ftMade < FtMaxFiles
        /\ UNCHANGED <<ftData, ftLogger, ftMade, ftWrites, ftFaults>>
    BY <1>4 DEF FtRename
  <2>2. Fresh
    <3>1. CASE ftWatch = 0
      <4>1. ftWd = 0
        BY <1>0, <3>1 DEF FtWhereOK
      <4>2. ftEvents' = ftEvents
        BY <2>1, <4>1 DEF FtNotify
      <4> QED
        BY <1>0, <1>2, <4>1, <4>2 DEF FtWhereOK, FtIsRotation, Fresh
    <3>2. CASE ftWatch # 0
      BY <1>b, <2>1, <3>2
    <3> QED
      BY <3>1, <3>2
  <2>3. FtPathOK' /\ FtFilesOK'
    BY <1>0, <2>1 DEF FtPathOK, FtFilesOK
  <2> QED
    BY <1>0, <1>1, <1>c, <1>d, <2>1, <2>2, <2>3 DEF FtIndInv
<1>5. CASE FtCreate
  <2>1. ftPath = 0 /\ ftMade' = ftMade + 1 /\ ftPath' = ftMade' /\ ftEvents' = FtDirEvent
        /\ UNCHANGED <<ftData, ftLogger, ftWrites, ftFaults>>
    BY <1>5 DEF FtCreate
  <2>2. ftMade' \in FtInodes /\ ftMade' \in Nat /\ ftMade' >= ftMade /\ ftPath' > ftFd /\ ftPath' > ftWatch
        /\ ftPath' # 0
    BY <1>0, <1>1, <2>1 DEF FtPathOK, FtInodes
  <2>3. FtPathOK' /\ FtFilesOK'
    <3>1. ftLogger <= ftMade'
      BY <1>0, <1>1, <2>1 DEF FtPathOK, FtInodes
    <3> QED
      BY <1>0, <2>1, <2>2, <3>1 DEF FtPathOK, FtFilesOK
  <2>4. Fresh
    <3>1. \A e \in ftEvents' : e \in ftEvents \/ e = <<0, "mod">>
      BY <2>1 DEF FtDirEvent
    <3>2. <<0, "mod">>[1] = 0 /\ <<0, "mod">>[2] = "mod"
      OBVIOUS
    <3>3. ftPath' # ftWatch
      BY <1>1, <2>2
    <3> QED
      BY <1>0, <1>1, <1>2, <3>1, <3>2, <3>3 DEF FtWhereOK, Fresh
  <2> QED
    BY <1>0, <1>1, <1>c, <1>d, <2>1, <2>2, <2>3, <2>4 DEF FtIndInv
<1>6. CASE FtLoggerReopens
  <2>1. ftPath # 0 /\ ftWrites % 2 = 0 /\ ftLogger' = ftPath
        /\ UNCHANGED <<ftPath, ftData, ftMade, ftWrites, ftFaults, ftEvents>>
    BY <1>6 DEF FtLoggerReopens
  <2>2. Fresh
    BY <1>0, <1>2, <2>1 DEF FtWhereOK, FtIsRotation, Fresh
  <2>3. FtPathOK'
    BY <1>0, <1>1, <2>1 DEF FtPathOK
  <2>4. FtFilesOK'
    <3>1. ASSUME NEW i \in FtInodes, NEW n \in 1 .. Len(ftData[i]), n = Len(ftData[i]), ftData[i][n] % 2 = 1 PROVE FALSE
      BY <1>0, <2>1, <3>1 DEF FtFilesOK
    <3>2. \A j \in FtInodes : j > ftPath => j > ftLogger
      BY <1>0, <1>1, <2>1 DEF FtPathOK, FtInodes
    <3> QED
      BY <1>0, <2>1, <3>1, <3>2 DEF FtFilesOK
  <2> QED
    BY <1>0, <1>1, <1>c, <1>d, <2>1, <2>2, <2>3, <2>4 DEF FtIndInv
<1>7. CASE FtCopyTruncate
  <2>1. ftEvents' = FtNotify(ftPath, "mod") /\ ftPath' = ftPath /\ ftMade' = ftMade /\ ftWrites' = ftWrites
        /\ ftFaults' = ftFaults + 1 /\ ftFaults < FtMaxFaults
    BY <1>7 DEF FtCopyTruncate
  <2>2. FtReadingOK'
    <3>1. CASE ftFd = 0
      BY <1>0, <1>2, <2>1, <3>1 DEF FtReadingOK
    <3>2. CASE ftFd # 0
      <4>1. PICK f, asm, out, off : f = ftFd /\ asm = ftAsm /\ out = ftOut /\ off = ftOff
        OBVIOUS
      <4>2. f \in FtInodes /\ FtReaderOK(asm, out, off, f)
        BY <1>0, <3>2, <4>1 DEF FtReadingOK, FtWhereOK
      <4>3. FtReaderOK(asm, out, off, f)'
        BY <1>0, <1>7, <4>2, FtTruncates
      <4> QED
        BY <1>2, <3>2, <4>1, <4>3 DEF FtReadingOK
    <3> QED
      BY <3>1, <3>2
  <2>3. ftFaults' \in 0 .. FtMaxFaults
    BY <1>0, <2>1
  <2> QED
    BY <1>0, <1>1, <1>7, <1>a, <1>c, <2>1, <2>2, <2>3, FtTruncates DEF FtIndInv
<1>8. CASE FtOldMoved
  <2>1. ftEvents' = FtNotify(ftWatch, "gone") /\ ftWatch # ftPath /\ UNCHANGED ftEnv
        /\ ftFaults' = ftFaults + 1 /\ ftFaults < FtMaxFaults
    BY <1>8 DEF FtOldMoved
  <2>2. UNCHANGED <<ftPath, ftMade, ftData, ftWrites>>
    BY <2>1 DEF ftEnv
  <2>3. Fresh
    BY <1>b, <2>1, <2>2
  <2>4. ftFaults' \in 0 .. FtMaxFaults
    BY <1>0, <2>1
  <2> QED
    BY <1>0, <1>1, <1>c, <1>d, <2>1, <2>2, <2>3, <2>4, FtEnvSame DEF FtIndInv
<1> QED
  BY <1>3, <1>4, <1>5, <1>6, <1>7, <1>8

\* The collector keeps it.
LEMMA FtCollectorStep ==
  ASSUME FtConstants, FtIndInv, FtCollector \/ FtStop
  PROVE  FtIndInv'
<1> USE DEF FtConstants
<1>0. FtPathOK /\ FtFilesOK /\ FtWhereOK /\ FtReadingOK /\ ftFaults \in 0 .. FtMaxFaults
  BY DEF FtIndInv
<1>1. ftMade \in Nat /\ ftPath \in {0, ftMade} /\ ftMade \in FtInodes /\ ftFd <= ftMade /\ ftWatch <= ftMade
      /\ ftFd \in Nat /\ ftWatch \in Nat /\ ftWds \in Nat /\ ftWd \in 0 .. ftWds
  BY <1>0 DEF FtPathOK, FtWhereOK, FtInodes
<1>a. ASSUME UNCHANGED ftEnv, FtWhereOK', FtReadingOK', ftFaults' \in 0 .. FtMaxFaults PROVE FtIndInv'
  BY <1>0, <1>a, FtEnvSame DEF FtIndInv
<1>b. UNCHANGED <<ftEnv, ftFd, ftOff, ftAsm, ftOut>> => FtReadingOK'
  BY <1>0, FtReadingSame DEF ftEnv
\* Between two pieces of a pass, with nothing but the program counter moving.
<1>c. ASSUME UNCHANGED <<ftEnv, ftFd, ftWd, ftWatch, ftWds>>, ftEvents' \cup ftBatch' \subseteq ftEvents \cup ftBatch,
             ftPc' \in FtPcs \ {"start", "startWatch", "open", "reopen"}, ftPc # "start"
      PROVE  FtWhereOK'
  <2>1. UNCHANGED <<ftPath, ftMade>>
    BY <1>c DEF ftEnv
  <2>2. \A e \in ftEvents' \cup ftBatch' : /\ e[1] \in 0 .. ftWds'
                                           /\ e[2] = "gone" => e[1] # 0
                                           /\ FtIsRotation(e)' => ftPath' # ftWatch'
    BY <1>0, <1>c, <2>1 DEF FtWhereOK, FtIsRotation
  <2> QED
    BY <1>0, <1>c, <2>1, <2>2 DEF FtWhereOK
\* A watch is put, or not.
<1>d. ASSUME FtAddWatch \/ FtAddWatchFails, UNCHANGED <<ftEnv, ftFd, ftEvents, ftBatch>>,
             ftPc' \in FtPcs \ {"start", "startWatch", "open", "reopen"}, ftPc # "start"
      PROVE  FtWhereOK' /\ ftFaults' \in 0 .. FtMaxFaults
  <2>1. UNCHANGED <<ftPath, ftMade>>
    BY <1>d DEF ftEnv
  <2>2. ftFaults' \in 0 .. FtMaxFaults
    BY <1>0, <1>d DEF FtAddWatch, FtAddWatchFails
  <2>3. /\ ftWatch' \in FtInodes \cup {0} /\ ftWds' \in Nat /\ ftWd' \in 0 .. ftWds'
        /\ (ftWd' = 0 <=> ftWatch' = 0) /\ ftWatch' <= ftMade' /\ (ftWd' # 0 => ftFd' <= ftWatch')
        /\ \A e \in ftEvents' \cup ftBatch' : e[1] \in 0 .. ftWds' /\ (e[2] = "gone" => e[1] # 0)
                                              /\ (FtIsRotation(e)' => ftPath' # ftWatch')
    BY <1>0, <1>d, <2>1, FtWatchPut
  <2> QED
    BY <1>0, <1>d, <2>1, <2>2, <2>3 DEF FtWhereOK
<1>e. ASSUME FtFails, ftFaults' \in 0 .. FtMaxFaults PROVE FtIndInv'
  <2>1. /\ ftPc' = "start" /\ ftFd' = 0 /\ ftOff' = 0 /\ ftWd' = 0 /\ ftWatch' = 0
        /\ ftEvents' = {} /\ ftBatch' = {} /\ ftAsm' = <<>> /\ UNCHANGED <<ftEnv, ftWds, ftOut>>
    BY <1>e DEF FtFails
  <2>2. UNCHANGED <<ftPath, ftMade, ftData, ftWrites>>
    BY <2>1 DEF ftEnv
  <2>3. FtWhereOK'
    BY <1>1, <2>1, <2>2 DEF FtWhereOK, FtPcs
  <2>4. FtOutOK(ftOut, ftWrites)
    BY <1>0 DEF FtReadingOK, FtReaderOK
  <2>5. FtReadingOK'
    BY <2>1, <2>2, <2>4 DEF FtReadingOK
  <2> QED
    BY <1>a, <1>e, <2>1, <2>3, <2>5
\* drainLines, at the end of a pass or before a rotation.
<1>f. ASSUME FtDrainFd, UNCHANGED <<ftEnv, ftFd>>, ftFd # 0 PROVE FtReadingOK'
  <2>1. ftFd \in FtInodes /\ FtReaderOK(ftAsm, ftOut, ftOff, ftFd)
    BY <1>0, <1>f DEF FtWhereOK, FtReadingOK
  <2>2. FtReaderOK(FtDrained.asm, FtDrained.out,
                   IF Len(ftData[ftFd]) > ftOff THEN Len(ftData[ftFd]) ELSE ftOff, ftFd)
    BY <1>0, <2>1, FtDrains
  <2>3. FtReaderOK(ftAsm', ftOut', ftOff', ftFd)
    BY <1>f, <2>2 DEF FtDrainFd
  <2>4. UNCHANGED <<ftData, ftWrites, ftFd>>
    BY <1>f DEF ftEnv
  <2> QED
    BY <1>f, <2>3, <2>4 DEF FtReadingOK, FtReaderOK
<1>2. CASE FtStart
  <2>1. /\ ftPc = "start" /\ ftPath # 0 /\ ftFd' = ftPath /\ ftOff' = Len(ftData[ftPath]) /\ ftPc' = "startWatch"
        /\ UNCHANGED <<ftEnv, ftFaults, ftWd, ftWatch, ftWds, ftEvents, ftBatch, ftAsm, ftOut>>
    BY <1>2 DEF FtStart
  <2>2. UNCHANGED <<ftPath, ftMade, ftData, ftWrites, ftLogger>> /\ ftPath = ftMade /\ ftPath \in FtInodes
    BY <1>1, <2>1 DEF ftEnv
  <2>3. ftWd = 0 /\ ftFd = 0 /\ ftAsm = <<>> /\ FtOutOK(ftOut, ftWrites)
    BY <1>0, <2>1 DEF FtWhereOK, FtReadingOK
  <2>4. FtWhereOK'
    <3>1. \A e \in ftEvents' \cup ftBatch' : /\ e[1] \in 0 .. ftWds'
                                             /\ e[2] = "gone" => e[1] # 0
                                             /\ FtIsRotation(e)' => ftPath' # ftWatch'
      BY <1>0, <2>1, <2>2 DEF FtWhereOK, FtIsRotation
    <3>2. ftFd' # 0 /\ ftFd' <= ftMade'
      BY <1>1, <2>1, <2>2
    <3> QED
      BY <1>0, <2>1, <2>2, <2>3, <3>1, <3>2 DEF FtWhereOK, FtPcs
  <2>5. FtReaderOK(<<>>, ftOut, Len(ftData[ftPath]), ftPath)
    <3>1. Len(ftData[ftPath]) \in Nat
      BY <1>0, <2>2 DEF FtFilesOK
    <3>2. \A j \in FtInodes : j > ftPath => Len(ftData[j]) = 0
      <4>1. \A j \in FtInodes : j > ftPath => j > ftLogger
        BY <1>0, <1>1, <2>2 DEF FtPathOK, FtInodes
      <4> QED
        BY <1>0, <4>1 DEF FtFilesOK
    <3> QED
      BY <2>3, <3>1, <3>2 DEF FtReaderOK, FtAsmOK
  <2>6. FtReadingOK'
    BY <1>1, <2>1, <2>2, <2>3, <2>5 DEF FtReadingOK, FtReaderOK
  <2> QED
    BY <1>0, <1>a, <2>1, <2>4, <2>6
<1>3. CASE FtStartWatch
  <2>1. CASE FtAddWatch /\ ftPc' = "poll" /\ UNCHANGED <<ftEnv, ftFd, ftOff, ftEvents, ftBatch, ftAsm, ftOut>>
    <3>1. ftPc = "startWatch"
      BY <1>3 DEF FtStartWatch
    <3> QED
      BY <1>a, <1>b, <1>d, <2>1, <3>1 DEF FtPcs
  <2>2. CASE FtAddWatchFails /\ FtFails
    <3>1. ftFaults' \in 0 .. FtMaxFaults
      BY <1>0, <2>2 DEF FtAddWatchFails
    <3> QED
      BY <1>e, <2>2, <3>1
  <2> QED
    BY <1>3, <2>1, <2>2 DEF FtStartWatch
<1>4. CASE FtPollEvents \/ FtPollTimeout
  <2>1. /\ ftPc = "poll" /\ ftPc' \in {"restore", "rewind"} /\ ftEvents' \cup ftBatch' \subseteq ftEvents \cup ftBatch
        /\ UNCHANGED <<ftEnv, ftFaults, ftFd, ftOff, ftWd, ftWatch, ftWds, ftAsm, ftOut>>
    BY <1>4 DEF FtPollEvents, FtPollTimeout
  <2> QED
    BY <1>0, <1>a, <1>b, <1>c, <2>1 DEF FtPcs
<1>5. CASE FtRestore \/ FtWatch
  <2>1. /\ FtAddWatch \/ FtAddWatchFails
        /\ UNCHANGED <<ftEnv, ftFd, ftOff, ftEvents, ftBatch, ftAsm, ftOut>>
        /\ ftPc \in {"restore", "watch", "rewatch"} /\ ftPc' \in {"compare", "poll", "rewind"}
    BY <1>5 DEF FtRestore, FtWatch
  <2> QED
    BY <1>a, <1>b, <1>d, <2>1 DEF FtPcs
<1>6. CASE FtCompare
  <2>1. /\ ftPc = "compare"
        /\ UNCHANGED <<ftEnv, ftFaults, ftFd, ftWd, ftWatch, ftWds, ftEvents, ftBatch>>
    BY <1>6 DEF FtCompare
  <2>2. ftFd # 0
    BY <1>0, <2>1 DEF FtWhereOK
  <2>3. CASE FtPathRotated
    <3>1. FtDrainFd /\ ftPc' = "reopen"
      BY <1>6, <2>3 DEF FtCompare
    <3>2. FtReadingOK'
      BY <1>f, <2>1, <2>2, <3>1
    <3>3. UNCHANGED <<ftPath, ftMade>> /\ ftFd < ftPath
      BY <1>1, <2>1, <2>3 DEF FtPathRotated, ftEnv
    <3>4. FtWhereOK'
      BY <1>0, <2>1, <2>2, <3>1, <3>3 DEF FtWhereOK, FtIsRotation, FtPcs
    <3> QED
      BY <1>0, <1>a, <2>1, <3>2, <3>4
  <2>4. CASE ~FtPathRotated
    <3>1. ftPc' = "rewind" /\ UNCHANGED <<ftOff, ftAsm, ftOut>>
      BY <1>6, <2>4 DEF FtCompare
    <3> QED
      BY <1>0, <1>a, <1>b, <1>c, <2>1, <3>1 DEF FtPcs
  <2> QED
    BY <2>3, <2>4
<1>7. CASE FtRewind
  <2>1. /\ ftPc = "rewind" /\ ftPc' = "drain"
        /\ UNCHANGED <<ftEnv, ftFaults, ftFd, ftWd, ftWatch, ftWds, ftEvents, ftBatch, ftOut>>
    BY <1>7 DEF FtRewind
  <2>2. FtReadingOK'
    <3>1. CASE ~FtRewound
      BY <1>7, <1>b, <2>1, <3>1 DEF FtRewind
    <3>2. CASE FtRewound
      <4>1. ftOff' = 0 /\ ftAsm' = <<>> /\ Len(ftData[ftFd]) < ftOff
        BY <1>7, <3>2 DEF FtRewind, FtRewound
      <4>2. ftFd # 0 /\ ftFd \in FtInodes
        BY <1>0, <2>1 DEF FtWhereOK
      <4>3. FtReaderOK(ftAsm, ftOut, ftOff, ftFd)
        BY <1>0, <4>2 DEF FtReadingOK
      <4>4. FtReaderOK(<<>>, ftOut, 0, ftFd)
        <5>1. \A i \in 1 .. Len(ftOut), m \in 1 .. Len(ftData[ftFd]) : Last(ftOut[i]) < ftData[ftFd][m]
          BY <4>1, <4>3 DEF FtReaderOK
        <5> QED
          BY <4>3, <5>1 DEF FtReaderOK, FtAsmOK
      <4>5. UNCHANGED <<ftData, ftWrites>>
        BY <2>1 DEF ftEnv
      <4> QED
        BY <2>1, <4>1, <4>2, <4>4, <4>5 DEF FtReadingOK, FtReaderOK
    <3> QED
      BY <3>1, <3>2
  <2> QED
    BY <1>0, <1>a, <1>c, <2>1, <2>2 DEF FtPcs
<1>8. CASE FtDrain
  <2>1. /\ ftPc = "drain" /\ FtDrainFd /\ ftPc' = IF \E e \in ftBatch : FtIsRotation(e) THEN "open" ELSE "poll"
        /\ UNCHANGED <<ftEnv, ftFaults, ftFd, ftWd, ftWatch, ftWds, ftEvents, ftBatch>>
    BY <1>8 DEF FtDrain
  <2>2. ftFd # 0
    BY <1>0, <2>1 DEF FtWhereOK
  <2>3. FtReadingOK'
    BY <1>f, <2>1, <2>2
  <2>4. CASE \E e \in ftBatch : FtIsRotation(e)
    <3>1. PICK e \in ftBatch : FtIsRotation(e)
      BY <2>4
    <3>2. ftPath # ftWatch /\ ftWd # 0
      BY <1>0, <3>1 DEF FtWhereOK, FtIsRotation
    <3>3. ftFd <= ftWatch
      BY <1>0, <3>2 DEF FtWhereOK
    <3>4. UNCHANGED <<ftPath, ftMade>> /\ (ftPath = 0 \/ ftFd < ftPath)
      BY <1>1, <2>1, <3>2, <3>3 DEF ftEnv
    <3>5. FtWhereOK'
      BY <1>0, <2>1, <2>2, <2>4, <3>4 DEF FtWhereOK, FtIsRotation, FtPcs
    <3> QED
      BY <1>0, <1>a, <2>1, <2>3, <3>5
  <2>5. CASE ~ \E e \in ftBatch : FtIsRotation(e)
    BY <1>0, <1>a, <1>c, <2>1, <2>3, <2>5 DEF FtPcs
  <2> QED
    BY <2>4, <2>5
<1>9. CASE FtOpen
  <2>1. /\ ftPc \in {"open", "reopen"} /\ ftPc' \in {"watch", "rewatch"}
        /\ ftPath # 0 /\ ftFd' = ftPath /\ ftOff' = 0 /\ ftAsm' = <<>> /\ ftWd' = 0 /\ ftWatch' = 0
        /\ UNCHANGED <<ftEnv, ftFaults, ftWds, ftEvents, ftBatch, ftOut>>
    BY <1>9 DEF FtOpen, FtOpened
  <2>2. UNCHANGED <<ftPath, ftMade, ftData, ftWrites>>
    BY <2>1 DEF ftEnv
  <2>3. ftPath = ftMade /\ ftPath \in FtInodes /\ ftFd < ftPath /\ ftFd # 0
    BY <1>0, <1>1, <2>1 DEF FtWhereOK
  <2>4. FtWhereOK'
    <3>1. \A e \in ftEvents' \cup ftBatch' : e[1] \in 0 .. ftWds' /\ (e[2] = "gone" => e[1] # 0)
      BY <1>0, <2>1 DEF FtWhereOK
    <3>2. \A e \in ftEvents' \cup ftBatch' : ~FtIsRotation(e)'
      BY <2>1, <3>1 DEF FtIsRotation
    <3>3. ftFd' # 0 /\ ftFd' <= ftMade' /\ ftWatch' <= ftMade'
      BY <1>1, <2>1, <2>2, <2>3
    <3> QED
      BY <1>0, <2>1, <2>2, <2>3, <3>1, <3>2, <3>3 DEF FtWhereOK, FtPcs
  <2>5. FtReaderOK(ftAsm, ftOut, ftOff, ftFd)
    BY <1>0, <2>3 DEF FtReadingOK
  <2>6. FtReaderOK(<<>>, ftOut, 0, ftPath)
    <3>1. \A j \in FtInodes : j > ftPath => j > ftFd
      BY <1>1, <2>3 DEF FtInodes
    <3>2. \A i \in 1 .. Len(ftOut), m \in 1 .. Len(ftData[ftPath]) : Last(ftOut[i]) < ftData[ftPath][m]
      <4>1. ftPath > ftFd
        BY <1>1, <2>3
      <4> QED
        BY <2>3, <2>5, <4>1 DEF FtReaderOK
    <3> QED
      BY <2>5, <3>1, <3>2 DEF FtReaderOK, FtAsmOK
  <2>7. FtReadingOK'
    BY <2>1, <2>2, <2>6 DEF FtReadingOK, FtReaderOK
  <2> QED
    BY <1>0, <1>a, <2>1, <2>4, <2>7
<1>10. CASE FtOpenGivesUp
  BY <1>0, <1>10, <1>e DEF FtOpenGivesUp
<1>11. CASE FtStop
  <2>1. ftPc = "poll" /\ ftPc' = "stopped"
        /\ UNCHANGED <<ftEnv, ftFaults, ftFd, ftOff, ftWd, ftWatch, ftWds, ftEvents, ftBatch, ftAsm, ftOut>>
    BY <1>11 DEF FtStop
  <2> QED
    BY <1>0, <1>a, <1>b, <1>c, <2>1 DEF FtPcs
<1> QED
  BY <1>2, <1>3, <1>4, <1>5, <1>6, <1>7, <1>8, <1>9, <1>10, <1>11 DEF FtCollector

\* An empty log, and a collector that has not opened it.
LEMMA FtInitial == FtConstants /\ FtInit => FtIndInv
<1> SUFFICES ASSUME FtConstants, FtInit PROVE FtIndInv
  OBVIOUS
<1> USE DEF FtConstants, FtInit
<1>1. 1 \in FtInodes /\ FtInodes \subseteq Nat
  BY DEF FtInodes
<1>2. FtPathOK
  BY <1>1 DEF FtPathOK
<1>3. \A i \in FtInodes : ftData[i] = <<>> /\ Len(ftData[i]) = 0
  OBVIOUS
<1>4. FtFilesOK
  <2>1. FtFileOK(<<>>)
    BY DEF FtFileOK
  <2>2. ftData \in [FtInodes -> Seq(1 .. FtMaxWrites)]
    OBVIOUS
  <2> HIDE DEF FtInit
  <2> QED
    BY <1>3, <2>1, <2>2 DEF FtFilesOK
<1>5. FtWhereOK
  BY DEF FtWhereOK, FtPcs
<1>6. FtOutOK(<<>>, ftWrites)
  BY DEF FtOutOK
<1> QED
  BY <1>2, <1>4, <1>5, <1>6 DEF FtIndInv, FtReadingOK

\* What the collector knows of the files and of its lines holds in every state.
THEOREM FtInvariant == FtSpec => []FtIndInv
<1>1. FtIndInv /\ [FtNext]_ftVars => FtIndInv'
  <2> SUFFICES ASSUME FtIndInv, [FtNext]_ftVars PROVE FtIndInv'
    OBVIOUS
  <2>1. CASE FtCollector \/ FtStop
    BY <2>1, FtConstants, FtCollectorStep
  <2>2. CASE FtWrite \/ FtRename \/ FtCreate \/ FtLoggerReopens \/ FtCopyTruncate \/ FtOldMoved
    BY <2>2, FtConstants, FtEnvStep
  <2>3. CASE UNCHANGED ftVars
    <3>1. FtWhereOK'
      BY <2>3 DEF ftVars, FtIndInv, FtWhereOK, FtIsRotation
    <3> QED
      BY <2>3, <3>1, FtReadingSame DEF ftVars, FtIndInv, FtPathOK, FtFilesOK
  <2> QED
    BY <2>1, <2>2, <2>3 DEF FtNext
<1> QED
  BY <1>1, FtConstants, FtInitial, PTL DEF FtSpec

\* For any number of writes, rotations and faults, the file collector delivers no line twice
\* and no line glued from two, unless a truncated file has grown past the offset unseen.
THEOREM FtDeliversOnce == FtSpec => []FtInv
<1>1. FtIndInv => FtInv
  <2> SUFFICES ASSUME FtIndInv PROVE FtInv
    OBVIOUS
  <2>1. FtOutOK(ftOut, ftWrites) /\ FtAsmOK(ftAsm) /\ ftOff \in Nat
    BY DEF FtIndInv, FtReadingOK, FtReaderOK, FtAsmOK
  <2>2. ftWrites \in 0 .. FtMaxWrites /\ FtMaxWrites \in Nat /\ Len(ftOut) \in Nat /\ DOMAIN ftOut = 1 .. Len(ftOut)
    BY <2>1, FtConstants DEF FtIndInv, FtPathOK, FtConstants, FtOutOK
  <2>3. \A i \in 1 .. Len(ftOut) : \E w \in Nat : FtLineOf(ftOut[i], w) /\ Last(ftOut[i]) = w /\ Len(ftOut[i]) \in 1 .. 2
    <3> SUFFICES ASSUME NEW i \in 1 .. Len(ftOut)
                 PROVE  \E w \in Nat : FtLineOf(ftOut[i], w) /\ Last(ftOut[i]) = w /\ Len(ftOut[i]) \in 1 .. 2
      OBVIOUS
    <3>1. PICK w \in 1 .. ftWrites : FtLineOf(ftOut[i], w)
      BY <2>1 DEF FtOutOK
    <3> QED
      BY <2>2, <3>1, FtLastOf
  <2>4. \A l \in Range(ftOut) : \E i \in 1 .. Len(ftOut) : l = ftOut[i]
    BY <2>2 DEF Range
  <2>5. FtOnce
    <3> SUFFICES ASSUME NEW i \in DOMAIN ftOut, NEW j \in DOMAIN ftOut, i # j PROVE Last(ftOut[i]) # Last(ftOut[j])
      BY DEF FtOnce
    <3>1. Last(ftOut[i]) \in Nat /\ Last(ftOut[j]) \in Nat /\ i \in 1 .. Len(ftOut) /\ j \in 1 .. Len(ftOut)
      BY <2>2, <2>3
    <3>2. i < j \/ j < i
      BY <3>1
    <3>3. Last(ftOut[i]) < Last(ftOut[j]) \/ Last(ftOut[j]) < Last(ftOut[i])
      BY <2>1, <3>1, <3>2 DEF FtOutOK
    <3> QED
      BY <3>1, <3>3
  <2>6. FtNoGlue
    <3> SUFFICES ASSUME NEW l \in Range(ftOut) PROVE Len(l) = 1 \/ l = <<Last(l) - 1, Last(l)>>
      BY DEF FtNoGlue
    <3>1. PICK i \in 1 .. Len(ftOut) : l = ftOut[i]
      BY <2>4
    <3>2. PICK w \in Nat : FtLineOf(l, w) /\ Last(l) = w
      BY <2>3, <3>1
    <3> QED
      BY <3>2 DEF FtLineOf
  <2>7. FtTypeOK
    <3>1. ftAsm \in Seq(1 .. FtMaxWrites)
      <4>1. CASE ftAsm = <<>>
        BY <4>1
      <4>2. CASE \E w \in 1 .. FtMaxWrites : ftAsm = <<w>>
        BY <2>2, <4>2
      <4> QED
        BY <2>1, <4>1, <4>2 DEF FtAsmOK
    <3>2. \A l \in Range(ftOut) : Len(l) <= FtLineCap
      <4>1. FtLineCap \in Nat /\ 2 <= FtLineCap
        BY FtConstants DEF FtConstants
      <4>2. \A n \in 1 .. 2 : n <= FtLineCap
        BY <4>1
      <4>3. \A l \in Range(ftOut) : Len(l) \in 1 .. 2
        BY <2>3, <2>4
      <4> QED
        BY <4>2, <4>3, Zenon
    <3>3. \A i \in FtInodes : ftData[i] \in Seq(1 .. FtMaxWrites)
      BY DEF FtIndInv, FtFilesOK
    <3>4. ftPath \in FtInodes \cup {0} /\ ftFd \in FtInodes \cup {0}
          /\ ftWatch \in FtInodes \cup {0} /\ {ftLogger, ftMade} \subseteq FtInodes
      BY DEF FtIndInv, FtPathOK, FtWhereOK
    <3>5. ftWrites \in 0 .. FtMaxWrites /\ ftFaults \in 0 .. FtMaxFaults /\ ftPc \in FtPcs /\ ftWd \in 0 .. ftWds
          /\ (ftWd = 0 <=> ftWatch = 0)
      BY <2>2 DEF FtIndInv, FtWhereOK
    <3> QED
      BY <2>1, <3>1, <3>2, <3>3, <3>4, <3>5 DEF FtTypeOK
  <2> QED
    BY <2>5, <2>6, <2>7 DEF FtInv
<1> QED
  BY <1>1, FtInvariant, PTL

-----------------------------------------------------------------------------
(***************************************************************************)
(* The asynchronous AI layer, for any addresses, signatures, queue         *)
(* capacity, cooldown, provider chain, budget and retry policy.            *)
(*                                                                         *)
(* AiInv is not inductive. That a spend stays within the budget rests on   *)
(* when the budget was read: at the gate without a chain, before the first *)
(* attempt of an entry with one, and on what the attempts made so far have *)
(* used (AiFundsOK). That verdicts are bound rests on the cache holding no *)
(* clamped one (AiCacheOK). That analyses are a cooldown apart rests on    *)
(* the age of an answer and its mark adding up to the cooldown, and on a   *)
(* queued address having none left (AiMarksOK).                            *)
(***************************************************************************)

\* What the worker may be doing; an idle worker names any address.
AiWs == [pc : AiPcs, ip : AiIPs \cup {CHOOSE i \in AiIPs : TRUE}, entry : 1..Len(AiKinds) + 1,
         attempt : 0..AiMaxRetries, use : Nat, waited : Int, vs : SUBSET AiVerdict,
         replied : BOOLEAN]

\* The worker has an address in hand.
AiFlying == aiW.pc \in {"rate", "consult", "call", "decide"}

\* The types of what AiTypeOK leaves open; verdicts are in hand only on the
\* way to the decision engine.
AiWorkerOK ==
    /\ aiW \in AiWs
    /\ AiFlying => aiW.ip \in AiIPs
    /\ aiW.pc # "decide" => aiW.vs = {}
    /\ aiSpent \in [DOMAIN AiKinds -> Nat]

\* The cache holds verdicts, and no clamped one.
AiCacheOK ==
    aiCache \in [{AiSig[i] : i \in AiIPs} -> SUBSET {v \in AiVerdict : ~v.clamped}]

\* The budget of the entry an analysis uses was not exhausted when it began,
\* every attempt so far has used at most one unit and slept at most the cap.
AiFundsOK ==
    /\ aiW.use <= aiW.attempt
    /\ aiW.waited <= aiW.attempt * AiDelayCap
    /\ aiW.attempt > 0 => aiW.entry <= Len(AiKinds)
    /\ aiW.pc \notin {"call", "decide"} => aiW.attempt = 0
    /\ aiW.pc = "call" /\ aiW.attempt > 0 => aiSpent[aiW.entry] < AiDaily
    /\ ~aiChain => aiW.entry = 1
    /\ ~aiChain /\ aiW.pc \in {"consult", "call"} => aiSpent[1] < AiDaily

\* A mark and the age of the answer that set it cover the cooldown; an
\* address that is queued or in flight has outlived it.
AiMarksOK ==
    /\ \A i \in AiIPs : aiAge[i] + aiCool[i] >= AiCooldown
    /\ \A i \in aiPending : aiAge[i] = AiCooldown

\* The inductive invariant.
AiIndInv ==
    /\ AiTypeOK /\ AiWorkerOK /\ AiCacheOK /\ AiFundsOK /\ AiMarksOK
    /\ AiPendingExact /\ AiVerdictsBound /\ AiBudgetBound
-----------------------------------------------------------------------------
(* Sequences without repetition, and the operators of the model. *)

\* Taking the head off a queue without repetitions takes exactly that
\* address out of it.
LEMMA QueueTail ==
    ASSUME NEW S, NEW s \in Seq(S), IsInjective(s), s # <<>>
    PROVE  /\ Head(s) \in S /\ Head(s) \in ToSet(s)
           /\ Tail(s) \in Seq(S) /\ Len(Tail(s)) = Len(s) - 1
           /\ ToSet(Tail(s)) = ToSet(s) \ {Head(s)} /\ IsInjective(Tail(s))
<1>1. /\ Len(s) \in Nat /\ Len(s) > 0 /\ Tail(s) \in Seq(S) /\ Len(Tail(s)) = Len(s) - 1
      /\ DOMAIN s = 1 .. Len(s) /\ DOMAIN Tail(s) = 1 .. Len(Tail(s))
      /\ Head(s) = s[1] /\ Head(s) \in S
      /\ \A i \in 1 .. Len(Tail(s)) : Tail(s)[i] = s[i + 1]
  OBVIOUS
<1>2. IsInjective(Tail(s))
  BY <1>1 DEF IsInjective
<1>3. ASSUME NEW x PROVE x \in ToSet(Tail(s)) <=> x \in ToSet(s) /\ x # Head(s)
  <2>1. ASSUME NEW i \in DOMAIN Tail(s), x = Tail(s)[i] PROVE x \in ToSet(s) /\ x # Head(s)
    BY <1>1, <2>1 DEF ToSet, IsInjective
  <2>2. ASSUME NEW i \in DOMAIN s, x = s[i], x # Head(s) PROVE x \in ToSet(Tail(s))
    <3>1. i - 1 \in DOMAIN Tail(s) /\ Tail(s)[i - 1] = x
      BY <1>1, <2>2
    <3> QED
      BY <3>1 DEF ToSet
  <2> QED
    BY <2>1, <2>2 DEF ToSet
<1>4. Head(s) \in ToSet(s)
  BY <1>1 DEF ToSet
<1>5. ToSet(Tail(s)) = ToSet(s) \ {Head(s)}
  BY <1>3
<1> QED
  BY <1>1, <1>2, <1>4, <1>5

\* Appending an address that is not queued queues it once.
LEMMA QueueAppend ==
    ASSUME NEW S, NEW s \in Seq(S), IsInjective(s), NEW x \in S, x \notin ToSet(s)
    PROVE  /\ Append(s, x) \in Seq(S) /\ Len(Append(s, x)) = Len(s) + 1
           /\ ToSet(Append(s, x)) = ToSet(s) \cup {x} /\ IsInjective(Append(s, x))
<1>1. /\ Len(s) \in Nat /\ Append(s, x) \in Seq(S) /\ Len(Append(s, x)) = Len(s) + 1
      /\ DOMAIN s = 1 .. Len(s) /\ DOMAIN Append(s, x) = 1 .. Len(s) + 1
      /\ \A i \in 1 .. Len(s) : Append(s, x)[i] = s[i]
      /\ Append(s, x)[Len(s) + 1] = x
  OBVIOUS
<1>2. \A i \in 1 .. Len(s) : s[i] # x
  BY <1>1 DEF ToSet
<1>3. IsInjective(Append(s, x))
  BY <1>1, <1>2 DEF IsInjective
<1>4. ToSet(Append(s, x)) = ToSet(s) \cup {x}
  BY <1>1 DEF ToSet
<1> QED
  BY <1>1, <1>3, <1>4

\* The sleep before a retry is at most the cap.
LEMMA DelayCapped ==
    ASSUME NEW after \in Int, NEW attempt \in Nat
    PROVE  AiRetryDelay(after, attempt) \in Int /\ AiRetryDelay(after, attempt) <= AiDelayCap
<1>1. 2^attempt \in Int
  BY SMT
<1> QED
  BY <1>1, AiAssumption DEF AiRetryDelay

\* Products with the cap grow with the number of attempts.
LEMMA Attempts ==
    ASSUME NEW a \in Nat, NEW b \in Nat, NEW c \in Nat
    PROVE  /\ (a + 1) * c = a * c + c /\ a * c \in Nat
           /\ a <= b => a * c <= b * c
  BY SMT

\* An idle worker.
LEMMA AiIdleIs ==
    /\ AiIdle \in AiWs /\ AiIdle.pc = "idle" /\ AiIdle.entry = 1 /\ AiIdle.attempt = 0
    /\ AiIdle.use = 0 /\ AiIdle.waited = 0 /\ AiIdle.vs = {}
<1>1. /\ AiIdle.pc = "idle" /\ AiIdle.entry = 1 /\ AiIdle.attempt = 0
      /\ AiIdle.use = 0 /\ AiIdle.waited = 0 /\ AiIdle.vs = {}
  BY DEF AiIdle
<1>2. 1 \in 1 .. Len(AiKinds) + 1 /\ 0 \in 0 .. AiMaxRetries
  BY AiAssumption
<1>3. AiIdle \in AiWs
  BY <1>2 DEF AiIdle, AiWs, AiPcs
<1> QED
  BY <1>1, <1>3

\* What one provider call may return.
LEMMA CallIs ==
    ASSUME NEW e, NEW r \in AiCallOnce(e)
    PROVE  /\ r.use \in 0 .. 1 /\ r.after \in Int /\ r.vs \subseteq {v \in AiVerdict : ~v.clamped}
<1>1. ASSUME NEW u \in 0 .. 1, NEW a \in {-1, 0, AiDelayCap + 1}, r = AiFailed(u, a)
      PROVE  /\ r.use \in 0 .. 1 /\ r.after \in Int /\ r.vs \subseteq {v \in AiVerdict : ~v.clamped}
  BY <1>1, AiAssumption DEF AiFailed
<1>2. ASSUME NEW s \in SUBSET AiIPs,
             r = [ok |-> TRUE, use |-> 1, after |-> -1, vs |-> {[ip |-> i, clamped |-> FALSE] : i \in s}]
      PROVE  /\ r.use \in 0 .. 1 /\ r.after \in Int /\ r.vs \subseteq {v \in AiVerdict : ~v.clamped}
  <2>1. r.use = 1 /\ r.after = -1 /\ r.vs = {[ip |-> i, clamped |-> FALSE] : i \in s}
    BY <1>2
  <2>2. ASSUME NEW i \in s
        PROVE [ip |-> i, clamped |-> FALSE] \in AiVerdict /\ ~[ip |-> i, clamped |-> FALSE].clamped
    BY <1>2, Zenon DEF AiVerdict
  <2>3. r.vs \subseteq {v \in AiVerdict : ~v.clamped}
    BY <2>1, <2>2, Zenon
  <2> QED
    BY <2>1, <2>3
<1>3. \/ \E u \in 0 .. 1, a \in {-1, 0, AiDelayCap + 1} : r = AiFailed(u, a)
      \/ \E s \in SUBSET AiIPs :
            r = [ok |-> TRUE, use |-> 1, after |-> -1, vs |-> {[ip |-> i, clamped |-> FALSE] : i \in s}]
  <2>1. r \in AiCallOpenAI \/ r \in AiCallOllama \/ r \in AiCallAnthropic
    BY Zenon DEF AiCallOnce
  <2>2. \/ \E u \in 0 .. 1 : r = AiFailed(u, -1)
        \/ \E a \in AiAfters : r = AiFailed(0, a)
        \/ r \in AiParsed
    BY <2>1 DEF AiCallOpenAI, AiCallOllama, AiCallAnthropic
  <2>3. 0 \in 0 .. 1
    OBVIOUS
  <2> QED
    BY <2>2, <2>3, Zenon DEF AiParsed, AiAfters
<1> QED
  BY <1>1, <1>2, <1>3

\* Bound and clamped, a reply names the analysed address only, and is marked
\* as clamped exactly if that address is on the static allowlist.
LEMMA BoundAndClamped ==
    ASSUME NEW vs \in SUBSET AiVerdict, NEW ip \in AiIPs
    PROVE  /\ AiClamp(AiBind(vs, ip)) \subseteq AiVerdict
           /\ \A v \in AiClamp(AiBind(vs, ip)) : v.ip = ip /\ (v.clamped <=> ip \in AiStatic)
<1>1. ASSUME NEW v \in AiClamp(AiBind(vs, ip))
      PROVE  v \in AiVerdict /\ v.ip = ip /\ (v.clamped <=> ip \in AiStatic)
  <2>1. PICK w \in AiVerdict : w.ip = ip /\ v = [w EXCEPT !.clamped = w.ip \in AiStatic]
    BY DEF AiClamp, AiBind
  <2>2. /\ v.ip = w.ip /\ v.clamped = (w.ip \in AiStatic)
        /\ v = [ip |-> w.ip, clamped |-> w.ip \in AiStatic]
    BY <2>1, Zenon DEF AiVerdict
  <2>3. (w.ip \in AiStatic) \in BOOLEAN
    OBVIOUS
  <2>4. v \in AiVerdict
    BY <2>1, <2>2, <2>3, Zenon DEF AiVerdict
  <2> QED
    BY <2>1, <2>2, <2>4, Zenon
<1> QED
  BY <1>1

\* A cached verdict is re-targeted to the asking address and never clamped.
LEMMA CachedIs ==
    ASSUME AiCacheOK, NEW ip \in AiIPs
    PROVE  /\ AiBind(AiCacheGet(ip), ip) \subseteq AiVerdict
           /\ \A v \in AiBind(AiCacheGet(ip), ip) : v.ip = ip /\ ~v.clamped
<1>1. ASSUME NEW v \in AiBind(AiCacheGet(ip), ip)
      PROVE  v \in AiVerdict /\ v.ip = ip /\ ~v.clamped
  <2>1. PICK w \in aiCache[AiSig[ip]] : v = [w EXCEPT !.ip = ip]
    BY DEF AiBind, AiCacheGet
  <2>2. w \in AiVerdict /\ ~w.clamped
    BY <2>1 DEF AiCacheOK
  <2> QED
    BY <2>1, <2>2 DEF AiVerdict
<1> QED
  BY <1>1

\* What Cache.Set stores is not clamped.
LEMMA CacheSetIs ==
    ASSUME AiCacheOK, NEW ip \in AiIPs, NEW vs \in SUBSET AiVerdict, AiCacheSet(ip, vs)
    PROVE  AiCacheOK'
  BY DEF AiCacheOK, AiCacheSet
-----------------------------------------------------------------------------
(* Steps. *)

\* The initial state.
LEMMA AiInitOK == AiInit => AiIndInv
<1> SUFFICES ASSUME AiInit PROVE AiIndInv
  OBVIOUS
<1>1. /\ aiW \in AiWs /\ aiW.pc = "idle" /\ aiW.entry = 1 /\ aiW.attempt = 0 /\ aiW.use = 0
      /\ aiW.waited = 0 /\ aiW.vs = {}
  BY AiIdleIs DEF AiInit
<1>2. AiCacheOK /\ \A i \in AiIPs : aiCache[AiSig[i]] \subseteq AiVerdict
  BY DEF AiInit, AiCacheOK
<1>3. /\ aiCool \in [AiIPs -> 0 .. AiCooldown] /\ aiAge \in [AiIPs -> 0 .. AiCooldown]
      /\ aiItems \in Seq(AiIPs) /\ Len(aiItems) = 0 /\ DOMAIN aiItems = {}
      /\ aiSpent \in [DOMAIN AiKinds -> Nat]
  BY AiAssumption DEF AiInit
<1>4. AiTypeOK
  <2>1. aiChain \in BOOLEAN /\ aiPusher \in {"idle", "signal"} /\ aiSignal \in BOOLEAN
    BY Zenon DEF AiInit
  <2>2. /\ Len(aiItems) <= AiCap /\ aiPending \subseteq AiIPs
        /\ aiW.pc \in AiPcs /\ aiW.entry \in 1 .. Len(AiKinds) + 1 /\ aiW.vs \subseteq AiVerdict
    BY <1>1, <1>3, AiAssumption DEF AiInit, AiPcs
  <2> QED
    BY <1>2, <1>3, <2>1, <2>2, Zenon DEF AiTypeOK
<1>5. AiWorkerOK /\ AiVerdictsBound
  BY <1>1, <1>3 DEF AiWorkerOK, AiFlying, AiVerdictsBound
<1>6. AiFundsOK
  BY <1>1, AiAssumption DEF AiFundsOK
<1>7. AiMarksOK /\ AiBudgetBound
  BY <1>3, AiAssumption DEF AiInit, AiMarksOK, AiBudgetBound, AiMaxUse
<1>8. AiPendingExact
  BY <1>1, <1>3 DEF AiInit, AiPendingExact, ToSet, IsInjective
<1> QED
  BY <1>2, <1>4, <1>5, <1>6, <1>7, <1>8 DEF AiIndInv

\* done, after whatever the worker was doing with the address in its hand.
LEMMA AiDoneKeeps ==
    ASSUME AiIndInv, AiFlying, NEW answered, AiDone(answered),
           UNCHANGED <<aiChain, aiItems, aiPusher, aiSignal, aiCache, aiSpent>>
    PROVE  AiIndInv'
<1>1. /\ aiW' \in AiWs /\ aiW'.pc = "idle" /\ aiW'.entry = 1 /\ aiW'.attempt = 0 /\ aiW'.use = 0
      /\ aiW'.waited = 0 /\ aiW'.vs = {}
  BY AiIdleIs DEF AiDone
<1>2. aiW.ip \in AiIPs /\ aiW.ip \in aiPending
  BY DEF AiIndInv, AiWorkerOK, AiFlying, AiPendingExact
<1>3. AiCacheOK'
  BY DEF AiIndInv, AiCacheOK
<1>4. /\ aiCool' \in [AiIPs -> 0 .. AiCooldown] /\ aiAge' \in [AiIPs -> 0 .. AiCooldown]
  BY <1>2, AiAssumption DEF AiDone, AiIndInv, AiTypeOK
<1>5. AiTypeOK'
  <2>1. aiChain' \in BOOLEAN /\ aiPusher' \in {"idle", "signal"} /\ aiSignal' \in BOOLEAN
    BY Zenon DEF AiIndInv, AiTypeOK
  <2>2. /\ aiItems' \in Seq(AiIPs) /\ Len(aiItems') <= AiCap /\ aiPending' \subseteq AiIPs
        /\ aiW'.pc \in AiPcs /\ aiW'.entry \in 1 .. Len(AiKinds) + 1 /\ aiW'.vs \subseteq AiVerdict
    BY <1>1, AiAssumption DEF AiDone, AiIndInv, AiTypeOK, AiPcs
  <2>3. \A i \in AiIPs : aiCache'[AiSig[i]] \subseteq AiVerdict
    BY DEF AiIndInv, AiTypeOK
  <2> QED
    BY <1>4, <2>1, <2>2, <2>3, Zenon DEF AiTypeOK
<1>6. AiWorkerOK' /\ AiVerdictsBound'
  BY <1>1 DEF AiIndInv, AiWorkerOK, AiFlying, AiVerdictsBound
<1>7. AiFundsOK'
  BY <1>1, AiAssumption DEF AiFundsOK
<1>8. AiMarksOK'
  BY <1>2, AiAssumption DEF AiDone, AiIndInv, AiTypeOK, AiMarksOK
<1>9. AiPendingExact'
  <2>1. aiPending = ToSet(aiItems) \cup {aiW.ip} /\ aiW.ip \notin ToSet(aiItems) /\ IsInjective(aiItems)
    BY DEF AiIndInv, AiPendingExact, AiFlying
  <2>2. aiPending' = ToSet(aiItems)
    BY <2>1 DEF AiDone
  <2> QED
    BY <1>1, <2>1, <2>2 DEF AiPendingExact
<1>10. AiBudgetBound'
  BY DEF AiIndInv, AiBudgetBound
<1> QED
  BY <1>3, <1>5, <1>6, <1>7, <1>8, <1>9, <1>10 DEF AiIndInv

\* A step of the worker that keeps the address in its hand leaves the queue,
\* its marks and the ages alone.
LEMMA AiHandKeeps ==
    ASSUME AiIndInv, AiFlying, AiFlying', aiW' \in AiWs, aiW'.ip = aiW.ip, AiCacheOK',
           UNCHANGED <<aiChain, aiItems, aiPending, aiCool, aiPusher, aiSignal, aiAge>>
    PROVE  AiTypeOK' /\ AiMarksOK' /\ AiPendingExact'
<1>1. AiTypeOK'
  <2>1. aiChain' \in BOOLEAN /\ aiPusher' \in {"idle", "signal"} /\ aiSignal' \in BOOLEAN
    BY Zenon DEF AiIndInv, AiTypeOK
  <2>2. /\ aiItems' \in Seq(AiIPs) /\ Len(aiItems') <= AiCap /\ aiPending' \subseteq AiIPs
        /\ aiW'.pc \in AiPcs /\ aiW'.entry \in 1 .. Len(AiKinds) + 1 /\ aiW'.vs \subseteq AiVerdict
    BY DEF AiIndInv, AiTypeOK, AiWs
  <2>3. \A i \in AiIPs : aiCache'[AiSig[i]] \subseteq AiVerdict
    BY DEF AiCacheOK
  <2>4. aiCool' \in [AiIPs -> 0 .. AiCooldown] /\ aiAge' \in [AiIPs -> 0 .. AiCooldown]
    BY DEF AiIndInv, AiTypeOK
  <2> QED
    BY <2>1, <2>2, <2>3, <2>4, Zenon DEF AiTypeOK
<1>2. AiMarksOK'
  BY DEF AiIndInv, AiMarksOK
<1>3. AiPendingExact'
  BY DEF AiIndInv, AiPendingExact, AiFlying
<1> QED
  BY <1>1, <1>2, <1>3

\* A push appends an address without a mark; a full queue drops its oldest
\* entry together with that entry's mark.
LEMMA AiPushKeeps ==
    ASSUME AiIndInv, NEW ip \in AiIPs, AiPush(ip) PROVE AiIndInv'
<1> DEFINE full == Len(aiItems) >= AiCap
           kept == IF full THEN Tail(aiItems) ELSE aiItems
           gone == IF full THEN {Head(aiItems)} ELSE {}
           flying == IF aiW.pc \in {"idle", "empty", "wait"} THEN {} ELSE {aiW.ip}
<1>1. /\ aiItems \in Seq(AiIPs) /\ IsInjective(aiItems) /\ Len(aiItems) <= AiCap
      /\ aiPending = ToSet(aiItems) \cup flying /\ flying \cap ToSet(aiItems) = {}
      /\ ip \notin aiPending /\ aiCool[ip] = 0
      /\ aiItems' = Append(kept, ip) /\ aiPending' = (aiPending \ gone) \cup {ip}
  BY DEF AiIndInv, AiTypeOK, AiPendingExact, AiPush
<1>2. /\ kept \in Seq(AiIPs) /\ IsInjective(kept) /\ Len(kept) + 1 <= AiCap
      /\ ToSet(kept) = ToSet(aiItems) \ gone /\ gone \subseteq ToSet(aiItems)
  <2>1. CASE full
    <3>1. aiItems # <<>> /\ kept = Tail(aiItems) /\ gone = {Head(aiItems)}
      BY <2>1, AiAssumption
    <3> QED
      BY <1>1, <3>1, QueueTail, AiAssumption
  <2>2. CASE ~full
    BY <1>1, <2>2, AiAssumption
  <2> QED
    BY <2>1, <2>2
<1> HIDE DEF kept, gone, full
<1>3. /\ aiItems' \in Seq(AiIPs) /\ Len(aiItems') = Len(kept) + 1 /\ IsInjective(aiItems')
      /\ ToSet(aiItems') = ToSet(kept) \cup {ip}
  <2>1. ip \notin ToSet(kept)
    BY <1>1, <1>2
  <2> QED
    BY <1>1, <1>2, <2>1, QueueAppend
<1>4. AiPendingExact'
  <2>1. aiPending' = ToSet(aiItems') \cup flying /\ flying \cap ToSet(aiItems') = {}
    BY <1>1, <1>2, <1>3
  <2> QED
    BY <1>3, <2>1 DEF AiPendingExact, AiPush
<1>5. AiTypeOK'
  <2>1. aiChain' \in BOOLEAN /\ aiPusher' \in {"idle", "signal"} /\ aiSignal' \in BOOLEAN
    BY Zenon DEF AiIndInv, AiTypeOK, AiPush
  <2>2. aiItems' \in Seq(AiIPs) /\ Len(aiItems') <= AiCap /\ aiPending' \subseteq AiIPs
    BY <1>1, <1>2, <1>3 DEF AiIndInv, AiTypeOK
  <2>3. /\ aiW'.pc \in AiPcs /\ aiW'.entry \in 1 .. Len(AiKinds) + 1 /\ aiW'.vs \subseteq AiVerdict
        /\ \A i \in AiIPs : aiCache'[AiSig[i]] \subseteq AiVerdict
        /\ aiCool' \in [AiIPs -> 0 .. AiCooldown] /\ aiAge' \in [AiIPs -> 0 .. AiCooldown]
    BY DEF AiIndInv, AiTypeOK, AiPush
  <2> QED
    BY <2>1, <2>2, <2>3, Zenon DEF AiTypeOK
<1>6. AiMarksOK'
  BY <1>1, AiAssumption DEF AiIndInv, AiTypeOK, AiMarksOK, AiPush
<1>7. AiWorkerOK' /\ AiCacheOK' /\ AiFundsOK' /\ AiVerdictsBound' /\ AiBudgetBound'
  BY DEF AiIndInv, AiWorkerOK, AiFlying, AiCacheOK, AiFundsOK, AiVerdictsBound, AiBudgetBound, AiPush
<1> QED
  BY <1>4, <1>5, <1>6, <1>7 DEF AiIndInv

\* The worker takes the oldest entry, whose mark stays, or finds none.
LEMMA AiPopKeeps ==
    ASSUME AiIndInv, AiPop PROVE AiIndInv'
<1>1. /\ aiItems \in Seq(AiIPs) /\ IsInjective(aiItems) /\ Len(aiItems) <= AiCap
      /\ aiPending = ToSet(aiItems) /\ aiW \in AiWs /\ aiW.pc = "idle"
  BY DEF AiIndInv, AiTypeOK, AiPendingExact, AiPop, AiWorkerOK
<1>2. /\ aiW' \in AiWs /\ aiW'.pc \in {"empty", "rate"}
      /\ aiW'.attempt = 0 /\ aiW'.use = 0 /\ (~aiChain => aiW'.entry = 1) /\ aiW'.waited <= 0
      /\ aiW'.vs = {}
      /\ aiItems' \in Seq(AiIPs) /\ IsInjective(aiItems') /\ Len(aiItems') <= AiCap
      /\ IF aiW'.pc = "empty" THEN ToSet(aiItems') = aiPending
         ELSE /\ aiW'.ip \in AiIPs /\ aiW'.ip \notin ToSet(aiItems')
              /\ aiPending = ToSet(aiItems') \cup {aiW'.ip}
  <2>1. CASE aiItems = <<>>
    <3>1. aiW' = [aiW EXCEPT !.pc = "empty"] /\ aiItems' = aiItems
      BY <2>1 DEF AiPop
    <3>2. aiW.use <= 0 /\ aiW.attempt = 0 /\ aiW.waited <= 0 /\ (~aiChain => aiW.entry = 1)
          /\ aiW.vs = {}
      BY <1>1, AiAssumption DEF AiIndInv, AiFundsOK, AiWorkerOK
    <3>3. aiW' \in AiWs /\ aiW'.pc = "empty" /\ aiW'.attempt = aiW.attempt /\ aiW'.use = aiW.use
          /\ aiW'.entry = aiW.entry /\ aiW'.waited = aiW.waited /\ aiW'.vs = aiW.vs
      BY <1>1, <3>1 DEF AiWs, AiPcs
    <3>4. aiW.use \in Nat
      BY <1>1 DEF AiWs
    <3> QED
      BY <1>1, <3>1, <3>2, <3>3, <3>4
  <2>2. CASE aiItems # <<>>
    <3>1. aiW' = [AiIdle EXCEPT !.pc = "rate", !.ip = Head(aiItems)] /\ aiItems' = Tail(aiItems)
      BY <2>2 DEF AiPop
    <3>2. /\ Head(aiItems) \in AiIPs /\ Head(aiItems) \in ToSet(aiItems)
          /\ aiItems' \in Seq(AiIPs) /\ Len(aiItems') = Len(aiItems) - 1
          /\ ToSet(aiItems') = ToSet(aiItems) \ {Head(aiItems)} /\ IsInjective(aiItems')
      BY <1>1, <2>2, <3>1, QueueTail
    <3>3. aiW' \in AiWs /\ aiW'.pc = "rate" /\ aiW'.ip = Head(aiItems) /\ aiW'.attempt = 0
          /\ aiW'.entry = 1 /\ aiW'.use = 0 /\ aiW'.waited = 0 /\ aiW'.vs = {}
      BY <3>1, <3>2, AiIdleIs DEF AiWs, AiPcs
    <3> QED
      BY <1>1, <3>2, <3>3, AiAssumption
  <2> QED
    BY <2>1, <2>2
<1>3. AiTypeOK'
  <2>1. aiChain' \in BOOLEAN /\ aiPusher' \in {"idle", "signal"} /\ aiSignal' \in BOOLEAN
    BY Zenon DEF AiIndInv, AiTypeOK, AiPop
  <2>2. aiW'.pc \in AiPcs /\ aiW'.entry \in 1 .. Len(AiKinds) + 1 /\ aiW'.vs \subseteq AiVerdict
    BY <1>2 DEF AiWs
  <2>3. /\ aiPending' \subseteq AiIPs /\ \A i \in AiIPs : aiCache'[AiSig[i]] \subseteq AiVerdict
        /\ aiCool' \in [AiIPs -> 0 .. AiCooldown] /\ aiAge' \in [AiIPs -> 0 .. AiCooldown]
    BY DEF AiIndInv, AiTypeOK, AiPop
  <2> QED
    BY <1>2, <2>1, <2>2, <2>3, Zenon DEF AiTypeOK
<1>4. AiWorkerOK' /\ AiVerdictsBound'
  BY <1>2 DEF AiIndInv, AiWorkerOK, AiFlying, AiVerdictsBound, AiPop
<1>5. AiFundsOK'
  BY <1>2, AiAssumption DEF AiFundsOK, AiPop
<1>6. AiPendingExact'
  BY <1>2 DEF AiPendingExact, AiPop
<1>7. AiCacheOK' /\ AiMarksOK' /\ AiBudgetBound'
  BY DEF AiIndInv, AiCacheOK, AiMarksOK, AiBudgetBound, AiPop
<1> QED
  BY <1>3, <1>4, <1>5, <1>6, <1>7 DEF AiIndInv

\* The worker goes to its select and comes back from it with nothing in hand.
LEMMA AiSleepKeeps ==
    ASSUME AiIndInv, AiBlock \/ AiWake PROVE AiIndInv'
<1>1. /\ aiW \in AiWs /\ aiW.pc \in {"empty", "wait"} /\ aiPending = ToSet(aiItems)
      /\ aiW.attempt = 0 /\ aiW.use <= 0 /\ aiW.waited <= 0 * AiDelayCap /\ (~aiChain => aiW.entry = 1)
      /\ aiW.vs = {}
  BY DEF AiIndInv, AiWorkerOK, AiFundsOK, AiPendingExact, AiBlock, AiWake
<1>2. /\ aiW' \in AiWs /\ aiW'.pc \in {"idle", "wait"} /\ aiW'.attempt = 0 /\ aiW'.use <= 0
      /\ aiW'.waited <= 0 /\ (~aiChain => aiW'.entry = 1) /\ aiW'.vs = {}
  <2>1. CASE AiBlock
    <3>1. aiW' = [aiW EXCEPT !.pc = "wait"]
      BY <2>1 DEF AiBlock
    <3>2. /\ aiW' \in AiWs /\ aiW'.pc = "wait" /\ aiW'.attempt = aiW.attempt /\ aiW'.use = aiW.use
          /\ aiW'.waited = aiW.waited /\ aiW'.entry = aiW.entry /\ aiW'.vs = aiW.vs
      BY <1>1, <3>1 DEF AiWs, AiPcs
    <3>3. 0 * AiDelayCap = 0
      BY AiAssumption
    <3> QED
      BY <1>1, <3>2, <3>3
  <2>2. CASE AiWake
    BY <2>2, AiIdleIs DEF AiWake
  <2> QED
    BY <2>1, <2>2
<1>3. /\ UNCHANGED <<aiChain, aiItems, aiPending, aiCool, aiPusher, aiCache, aiSpent, aiAge>>
      /\ aiSignal' \in BOOLEAN
  BY Zenon DEF AiBlock, AiWake, AiIndInv, AiTypeOK
<1>4. AiTypeOK'
  <2>1. aiChain' \in BOOLEAN /\ aiPusher' \in {"idle", "signal"}
    BY <1>3, Zenon DEF AiIndInv, AiTypeOK
  <2>2. aiW'.pc \in AiPcs /\ aiW'.entry \in 1 .. Len(AiKinds) + 1 /\ aiW'.vs \subseteq AiVerdict
    BY <1>2 DEF AiWs
  <2>3. /\ aiItems' \in Seq(AiIPs) /\ Len(aiItems') <= AiCap /\ aiPending' \subseteq AiIPs
        /\ \A i \in AiIPs : aiCache'[AiSig[i]] \subseteq AiVerdict
        /\ aiCool' \in [AiIPs -> 0 .. AiCooldown] /\ aiAge' \in [AiIPs -> 0 .. AiCooldown]
    BY <1>3 DEF AiIndInv, AiTypeOK
  <2> QED
    BY <1>3, <2>1, <2>2, <2>3, Zenon DEF AiTypeOK
<1>5. AiWorkerOK' /\ AiVerdictsBound' /\ AiFundsOK'
  BY <1>2, <1>3, AiAssumption DEF AiIndInv, AiWorkerOK, AiFlying, AiVerdictsBound, AiFundsOK
<1>6. AiPendingExact'
  BY <1>1, <1>2, <1>3 DEF AiIndInv, AiPendingExact
<1>7. AiCacheOK' /\ AiMarksOK' /\ AiBudgetBound'
  BY <1>3 DEF AiIndInv, AiCacheOK, AiMarksOK, AiBudgetBound
<1> QED
  BY <1>4, <1>5, <1>6, <1>7 DEF AiIndInv

\* The steps from the gate to the call and along the chain: only the worker's
\* place changes.
LEMMA AiAdvanceKeeps ==
    ASSUME AiIndInv, AiFlying, AiFlying', aiW' \in AiWs, aiW'.ip = aiW.ip,
           UNCHANGED <<aiChain, aiItems, aiPending, aiCool, aiPusher, aiSignal, aiCache, aiSpent, aiAge>>,
           AiFundsOK', AiVerdictsBound', aiW'.pc # "decide" => aiW'.vs = {}
    PROVE  AiIndInv'
<1>1. AiCacheOK' /\ AiBudgetBound'
  BY DEF AiIndInv, AiCacheOK, AiBudgetBound
<1>2. AiTypeOK' /\ AiMarksOK' /\ AiPendingExact'
  BY <1>1, AiHandKeeps
<1>3. AiWorkerOK'
  BY DEF AiIndInv, AiWorkerOK
<1> QED
  BY <1>1, <1>2, <1>3 DEF AiIndInv

\* The front gates.
LEMMA AiGateKeeps ==
    ASSUME AiIndInv, AiGate PROVE AiIndInv'
<1>1. AiFlying
  BY DEF AiGate, AiFlying
<1>2. CASE AiDone(FALSE)
  BY <1>1, <1>2, AiDoneKeeps DEF AiGate
<1>3. CASE /\ AiEligible /\ aiW' = [aiW EXCEPT !.pc = "consult"]
           /\ UNCHANGED <<aiPending, aiCool, aiAge>>
  <2>1. aiW \in AiWs /\ aiW.pc = "rate" /\ AiFundsOK /\ aiSpent \in [DOMAIN AiKinds -> Nat]
        /\ aiW.vs = {}
    BY DEF AiIndInv, AiWorkerOK, AiGate
  <2>2. /\ aiW' \in AiWs /\ aiW'.pc = "consult" /\ aiW'.vs = aiW.vs /\ aiW'.ip = aiW.ip /\ aiW'.entry = aiW.entry
        /\ aiW'.attempt = aiW.attempt /\ aiW'.use = aiW.use /\ aiW'.waited = aiW.waited
    BY <1>3, <2>1 DEF AiWs, AiPcs
  <2>3. ~aiChain => aiSpent[1] < AiDaily
    <3>1. 1 \in DOMAIN AiKinds
      BY AiAssumption
    <3> QED
      BY <1>3, <2>1, <3>1, AiAssumption DEF AiEligible, AiExceeded
  <2>4. AiFundsOK'
    BY <2>1, <2>2, <2>3 DEF AiFundsOK, AiGate
  <2>5. AiFlying' /\ AiVerdictsBound'
    BY <2>2 DEF AiFlying, AiVerdictsBound
  <2> QED
    BY <1>1, <1>3, <2>1, <2>2, <2>4, <2>5, AiAdvanceKeeps DEF AiGate
<1> QED
  BY <1>2, <1>3 DEF AiGate

\* The cache answers, or it misses.
LEMMA AiConsultKeeps ==
    ASSUME AiIndInv, AiConsultCached \/ AiConsultMiss PROVE AiIndInv'
<1>1. /\ AiFlying /\ aiW \in AiWs /\ aiW.pc = "consult" /\ aiW.ip \in AiIPs /\ AiFundsOK
      /\ aiW.vs = {} /\ UNCHANGED <<aiChain, aiItems, aiPusher, aiSignal, aiCache, aiSpent>>
  BY DEF AiIndInv, AiWorkerOK, AiFlying, AiConsultCached, AiConsultMiss
<1>2. CASE AiConsultCached
  <2> DEFINE vs == AiBind(AiCacheGet(aiW.ip), aiW.ip)
  <2>1. vs \subseteq AiVerdict /\ \A v \in vs : v.ip = aiW.ip /\ ~v.clamped
    BY <1>1, CachedIs DEF AiIndInv
  <2>2. aiW' = [aiW EXCEPT !.pc = "decide", !.vs = vs, !.replied = TRUE]
    BY <1>2 DEF AiConsultCached
  <2> HIDE DEF vs
  <2>3. /\ aiW' \in AiWs /\ aiW'.pc = "decide" /\ aiW'.ip = aiW.ip /\ aiW'.entry = aiW.entry
        /\ aiW'.attempt = aiW.attempt /\ aiW'.use = aiW.use /\ aiW'.waited = aiW.waited
        /\ aiW'.vs = vs
    BY <1>1, <2>1, <2>2 DEF AiWs, AiPcs
  <2>4. AiFundsOK' /\ AiFlying'
    BY <1>1, <2>3 DEF AiFundsOK, AiFlying
  <2>5. AiVerdictsBound'
    BY <2>1, <2>3 DEF AiVerdictsBound
  <2> QED
    BY <1>1, <1>2, <2>3, <2>4, <2>5, AiAdvanceKeeps DEF AiConsultCached
<1>3. CASE AiConsultMiss
  <2>1. CASE AiDone(FALSE)
    BY <1>1, <2>1, AiDoneKeeps
  <2>2. CASE aiW' = [aiW EXCEPT !.pc = "call"] /\ UNCHANGED <<aiPending, aiCool, aiAge>>
    <3>1. /\ aiW' \in AiWs /\ aiW'.pc = "call" /\ aiW'.vs = aiW.vs /\ aiW'.ip = aiW.ip /\ aiW'.entry = aiW.entry
          /\ aiW'.attempt = aiW.attempt /\ aiW'.use = aiW.use /\ aiW'.waited = aiW.waited
      BY <1>1, <2>2 DEF AiWs, AiPcs
    <3>2. AiFundsOK' /\ AiFlying' /\ AiVerdictsBound'
      BY <1>1, <3>1 DEF AiFundsOK, AiFlying, AiVerdictsBound
    <3> QED
      BY <1>1, <2>2, <3>1, <3>2, AiAdvanceKeeps
  <2> QED
    BY <1>3, <2>1, <2>2 DEF AiConsultMiss
<1> QED
  BY <1>2, <1>3

\* The chain passes over an entry, or has no entry left.
LEMMA AiChainKeeps ==
    ASSUME AiIndInv, AiChainSkip \/ AiChainExhausted PROVE AiIndInv'
<1>1. /\ AiFlying /\ aiW \in AiWs /\ aiW.pc = "call" /\ aiW.vs = {} /\ AiFundsOK
      /\ UNCHANGED <<aiChain, aiItems, aiPending, aiCool, aiPusher, aiSignal, aiCache, aiSpent, aiAge>>
  BY DEF AiIndInv, AiWorkerOK, AiFlying, AiChainSkip, AiChainExhausted
<1>2. Len(AiKinds) \in Nat
  BY AiAssumption
<1>3. CASE AiChainSkip
  <2>1. aiW' = [aiW EXCEPT !.entry = aiW.entry + 1] /\ aiW.entry <= Len(AiKinds) /\ aiW.attempt = 0 /\ aiChain
    BY <1>3 DEF AiChainSkip
  <2>2. aiW.entry + 1 \in 1 .. Len(AiKinds) + 1
    BY <1>1, <1>2, <2>1 DEF AiWs
  <2>3. /\ aiW' \in AiWs /\ aiW'.pc = "call" /\ aiW'.vs = aiW.vs /\ aiW'.ip = aiW.ip
        /\ aiW'.attempt = 0 /\ aiW'.use = aiW.use /\ aiW'.waited = aiW.waited
    BY <1>1, <2>1, <2>2 DEF AiWs
  <2>4. AiFundsOK' /\ AiFlying' /\ AiVerdictsBound'
    BY <1>1, <2>1, <2>3 DEF AiFundsOK, AiFlying, AiVerdictsBound
  <2> QED
    BY <1>1, <2>3, <2>4, AiAdvanceKeeps
<1>4. CASE AiChainExhausted
  <2>1. aiW' = [aiW EXCEPT !.pc = "decide"]
    BY <1>4 DEF AiChainExhausted
  <2>2. /\ aiW' \in AiWs /\ aiW'.pc = "decide" /\ aiW'.vs = {} /\ aiW'.ip = aiW.ip /\ aiW'.entry = aiW.entry
        /\ aiW'.attempt = aiW.attempt /\ aiW'.use = aiW.use /\ aiW'.waited = aiW.waited
    BY <1>1, <2>1 DEF AiWs, AiPcs
  <2>3. AiFundsOK' /\ AiFlying' /\ AiVerdictsBound'
    BY <1>1, <2>2 DEF AiFundsOK, AiFlying, AiVerdictsBound
  <2> QED
    BY <1>1, <2>2, <2>3, AiAdvanceKeeps
<1> QED
  BY <1>3, <1>4

\* Whoever is calling an entry found its budget unspent when the call began.
LEMMA AiCallingFunded ==
    ASSUME AiIndInv, AiCalling
    PROVE  /\ AiFlying /\ aiW \in AiWs /\ aiW.pc = "call" /\ aiW.vs = {} /\ aiW.ip \in AiIPs
           /\ aiW.entry \in DOMAIN AiKinds /\ aiSpent[aiW.entry] \in Nat /\ aiSpent[aiW.entry] < AiDaily
<1>1. /\ AiFlying /\ aiW \in AiWs /\ aiW.pc = "call" /\ aiW.vs = {} /\ aiW.ip \in AiIPs
      /\ aiSpent \in [DOMAIN AiKinds -> Nat] /\ AiFundsOK
  BY DEF AiIndInv, AiWorkerOK, AiFlying, AiCalling
<1>2. aiW.entry \in DOMAIN AiKinds /\ aiSpent[aiW.entry] \in Nat
  BY <1>1, AiAssumption DEF AiWs, AiCalling
<1>3. aiSpent[aiW.entry] < AiDaily
  <2>1. CASE ~aiChain
    BY <1>1, <2>1 DEF AiFundsOK
  <2>2. CASE aiW.attempt > 0
    BY <1>1, <2>2 DEF AiFundsOK
  <2>3. CASE aiChain /\ ~(aiW.attempt > 0)
    <3>1. aiW.attempt = 0
      BY <1>1, <2>3, AiAssumption DEF AiWs
    <3> QED
      BY <1>2, <2>3, <3>1, AiAssumption DEF AiCalling, AiExceeded
  <2> QED
    BY <2>1, <2>2, <2>3
<1> QED
  BY <1>1, <1>2, <1>3

\* A failed attempt that is not the last one.
LEMMA AiRetryKeeps ==
    ASSUME AiIndInv, AiRetry PROVE AiIndInv'
<1>1. AiCalling /\ aiW.attempt < AiMaxRetries
      /\ UNCHANGED <<aiChain, aiItems, aiPending, aiCool, aiPusher, aiSignal, aiCache, aiSpent, aiAge>>
  BY DEF AiRetry, AiCalling
<1>2. /\ AiFlying /\ aiW \in AiWs /\ aiW.pc = "call" /\ aiW.vs = {}
      /\ aiW.entry \in DOMAIN AiKinds /\ aiSpent[aiW.entry] < AiDaily /\ AiFundsOK
  BY <1>1, AiCallingFunded DEF AiIndInv
<1>3. PICK r \in AiCallOnce(aiW.entry) :
        aiW' = [aiW EXCEPT !.attempt = aiW.attempt + 1, !.use = aiW.use + r.use,
                           !.waited = aiW.waited + AiRetryDelay(r.after, aiW.attempt)]
  BY DEF AiRetry
<1> DEFINE d == AiRetryDelay(r.after, aiW.attempt)
<1>4. /\ aiW.attempt \in Nat /\ aiW.attempt + 1 \in 0 .. AiMaxRetries /\ aiW.use \in Nat /\ aiW.waited \in Int
      /\ r.use \in 0 .. 1 /\ r.after \in Int
  BY <1>1, <1>2, CallIs, AiAssumption DEF AiWs
<1>5. d \in Int /\ d <= AiDelayCap
  BY <1>4, DelayCapped
<1> HIDE DEF d
<1>6. aiW' = [aiW EXCEPT !.attempt = aiW.attempt + 1, !.use = aiW.use + r.use, !.waited = aiW.waited + d]
  BY <1>3 DEF d
<1>7. /\ aiW' \in AiWs /\ aiW'.pc = "call" /\ aiW'.vs = aiW.vs /\ aiW'.ip = aiW.ip
      /\ aiW'.entry = aiW.entry /\ aiW'.attempt = aiW.attempt + 1 /\ aiW'.use = aiW.use + r.use
      /\ aiW'.waited = aiW.waited + d
  <2> DEFINE n == aiW.attempt + 1
             u == aiW.use + r.use
             w == aiW.waited + d
  <2>1. n \in 0 .. AiMaxRetries /\ u \in Nat /\ w \in Int
    BY <1>4, <1>5
  <2>2. aiW' = [aiW EXCEPT !.attempt = n, !.use = u, !.waited = w]
    BY <1>6
  <2> HIDE DEF n, u, w
  <2>3. aiW' \in AiWs
    BY <1>2, <2>1, <2>2, Zenon DEF AiWs
  <2>4. /\ aiW'.pc = aiW.pc /\ aiW'.vs = aiW.vs /\ aiW'.ip = aiW.ip /\ aiW'.entry = aiW.entry
        /\ aiW'.attempt = n /\ aiW'.use = u /\ aiW'.waited = w
    BY <1>2, <2>2 DEF AiWs
  <2> QED
    BY <1>2, <2>3, <2>4 DEF n, u, w
<1>8. aiW'.waited <= aiW'.attempt * AiDelayCap
  <2>1. AiDelayCap \in Nat /\ aiW.waited <= aiW.attempt * AiDelayCap
    BY <1>2, AiAssumption DEF AiFundsOK
  <2>2. (aiW.attempt + 1) * AiDelayCap = aiW.attempt * AiDelayCap + AiDelayCap
        /\ aiW.attempt * AiDelayCap \in Nat
    BY <1>4, <2>1, Attempts
  <2> QED
    BY <1>4, <1>5, <1>7, <2>1, <2>2
<1>9. AiFundsOK'
  <2>1. aiW'.use <= aiW'.attempt
    BY <1>2, <1>4, <1>7 DEF AiFundsOK
  <2>2. aiW'.entry <= Len(AiKinds) /\ aiSpent'[aiW'.entry] < AiDaily
    BY <1>1, <1>2, <1>7, AiAssumption
  <2> QED
    BY <1>1, <1>2, <1>7, <1>8, <2>1, <2>2 DEF AiFundsOK
<1>10. AiFlying' /\ AiVerdictsBound'
  BY <1>7 DEF AiFlying, AiVerdictsBound
<1> QED
  BY <1>1, <1>2, <1>7, <1>9, <1>10, AiAdvanceKeeps

\* The last attempt failed.
LEMMA AiGiveUpKeeps ==
    ASSUME AiIndInv, AiGiveUp PROVE AiIndInv'
<1>1. /\ AiCalling /\ UNCHANGED <<aiChain, aiItems, aiPusher, aiSignal, aiCache, aiSpent>>
  BY DEF AiGiveUp, AiCalling
<1>2. /\ AiFlying /\ aiW \in AiWs /\ aiW.pc = "call" /\ aiW.vs = {}
      /\ aiW.entry \in DOMAIN AiKinds /\ AiFundsOK
  BY <1>1, AiCallingFunded DEF AiIndInv
<1>3. CASE ~aiChain
  BY <1>1, <1>2, <1>3, AiDoneKeeps DEF AiGiveUp
<1>4. CASE aiChain
  <2>1. /\ aiW' = [aiW EXCEPT !.entry = aiW.entry + 1, !.attempt = 0, !.use = 0, !.waited = 0]
        /\ UNCHANGED <<aiPending, aiCool, aiAge>>
    BY <1>4 DEF AiGiveUp
  <2>2. aiW.entry + 1 \in 1 .. Len(AiKinds) + 1 /\ 0 \in 0 .. AiMaxRetries /\ 0 * AiDelayCap = 0
    BY <1>2, AiAssumption
  <2>3. /\ aiW' \in AiWs /\ aiW'.pc = "call" /\ aiW'.vs = aiW.vs /\ aiW'.ip = aiW.ip
        /\ aiW'.attempt = 0 /\ aiW'.use = 0 /\ aiW'.waited = 0
    <3> DEFINE e == aiW.entry + 1
    <3>1. e \in 1 .. Len(AiKinds) + 1 /\ 0 \in Nat /\ 0 \in Int
      BY <2>2
    <3>2. aiW' = [aiW EXCEPT !.entry = e, !.attempt = 0, !.use = 0, !.waited = 0]
      BY <2>1
    <3> HIDE DEF e
    <3>3. aiW' \in AiWs
      BY <1>2, <2>2, <3>1, <3>2, Zenon DEF AiWs
    <3> QED
      BY <1>2, <3>2, <3>3 DEF AiWs
  <2>4. AiFundsOK' /\ AiFlying' /\ AiVerdictsBound'
    BY <1>1, <1>4, <2>2, <2>3 DEF AiFundsOK, AiFlying, AiVerdictsBound
  <2> QED
    BY <1>1, <1>2, <2>1, <2>3, <2>4, AiAdvanceKeeps
<1> QED
  BY <1>3, <1>4, <1>1 DEF AiIndInv, AiTypeOK

\* A reply: what is recorded is the usage of this analysis, what is kept is
\* bound to the address and clamped.
LEMMA AiReplyKeeps ==
    ASSUME AiIndInv, AiReply PROVE AiIndInv'
<1>1. /\ AiCalling /\ UNCHANGED <<aiChain, aiItems, aiPending, aiCool, aiPusher, aiSignal, aiAge>>
  BY DEF AiReply, AiCalling
<1>2. /\ AiFlying /\ aiW \in AiWs /\ aiW.pc = "call" /\ aiW.ip \in AiIPs /\ aiW.entry \in DOMAIN AiKinds
      /\ aiSpent[aiW.entry] \in Nat /\ aiSpent[aiW.entry] < AiDaily /\ AiFundsOK
      /\ aiSpent \in [DOMAIN AiKinds -> Nat] /\ AiCacheOK /\ AiBudgetBound
  BY <1>1, AiCallingFunded DEF AiIndInv, AiWorkerOK
<1>3. PICK r \in AiCallOnce(aiW.entry) :
        /\ AiConsume(aiW.entry, aiW.use + r.use)
        /\ AiCacheSet(aiW.ip, AiClamp(AiBind(r.vs, aiW.ip)))
        /\ aiW' = [aiW EXCEPT !.pc = "decide", !.vs = AiClamp(AiBind(r.vs, aiW.ip)), !.replied = TRUE]
  BY DEF AiReply
<1> DEFINE vs == AiClamp(AiBind(r.vs, aiW.ip))
           u == aiW.use + r.use
<1>4. r.use \in 0 .. 1 /\ r.vs \in SUBSET AiVerdict
  BY CallIs
<1>5. vs \subseteq AiVerdict /\ \A v \in vs : v.ip = aiW.ip /\ (v.clamped => v.ip \in AiStatic)
  <2>1. vs \subseteq AiVerdict /\ \A v \in vs : v.ip = aiW.ip /\ (v.clamped <=> aiW.ip \in AiStatic)
    BY <1>2, <1>4, BoundAndClamped
  <2> QED
    BY <2>1
<1>6. u \in Nat /\ u <= AiMaxUse
  BY <1>2, <1>4, AiAssumption DEF AiWs, AiFundsOK, AiMaxUse
<1>7. AiConsume(aiW.entry, u) /\ AiCacheSet(aiW.ip, vs)
      /\ aiW' = [aiW EXCEPT !.pc = "decide", !.vs = vs, !.replied = TRUE]
  BY <1>3
<1> HIDE DEF vs, u
<1>8. AiCacheOK'
  BY <1>2, <1>5, <1>7, CacheSetIs
<1>9. /\ aiW' \in AiWs /\ aiW'.pc = "decide" /\ aiW'.ip = aiW.ip /\ aiW'.entry = aiW.entry
      /\ aiW'.attempt = aiW.attempt /\ aiW'.use = aiW.use /\ aiW'.waited = aiW.waited
      /\ aiW'.vs = vs
  BY <1>2, <1>5, <1>7 DEF AiWs, AiPcs
<1>10. aiSpent' \in [DOMAIN AiKinds -> Nat] /\ AiBudgetBound'
  <2>1. aiSpent' = aiSpent \/ aiSpent' = [aiSpent EXCEPT ![aiW.entry] = aiSpent[aiW.entry] + u]
    BY <1>7 DEF AiConsume
  <2>2. AiMaxUse \in Nat /\ AiDaily \in Nat
    BY AiAssumption DEF AiMaxUse
  <2> QED
    BY <1>2, <1>6, <2>1, <2>2 DEF AiBudgetBound
<1>11. AiFundsOK' /\ AiFlying'
  BY <1>1, <1>2, <1>9 DEF AiFundsOK, AiFlying
<1>12. AiTypeOK' /\ AiMarksOK' /\ AiPendingExact'
  BY <1>1, <1>2, <1>8, <1>9, <1>11, AiHandKeeps
<1>13. AiWorkerOK' /\ AiVerdictsBound'
  BY <1>2, <1>5, <1>9, <1>10 DEF AiWorkerOK, AiVerdictsBound
<1> QED
  BY <1>8, <1>10, <1>11, <1>12, <1>13 DEF AiIndInv

\* The clock, the wake-up and the expiries.
LEMMA AiClockKeeps ==
    ASSUME AiIndInv, AiTick \/ AiPushSignal \/ AiCacheExpire \/ AiNewDay PROVE AiIndInv'
<1>1. CASE AiTick
  <2>1. /\ aiCool' \in [AiIPs -> 0 .. AiCooldown] /\ aiAge' \in [AiIPs -> 0 .. AiCooldown]
        /\ AiMarksOK'
    <3>1. /\ aiCool \in [AiIPs -> 0 .. AiCooldown] /\ aiAge \in [AiIPs -> 0 .. AiCooldown]
          /\ aiPending \subseteq AiIPs /\ aiPending' = aiPending /\ AiMarksOK
          /\ aiCool' = [i \in AiIPs |-> IF aiCool[i] = 0 THEN 0 ELSE aiCool[i] - 1]
          /\ aiAge' = [i \in AiIPs |-> IF aiAge[i] = AiCooldown THEN AiCooldown ELSE aiAge[i] + 1]
          /\ AiCooldown \in Nat
      BY <1>1, AiAssumption DEF AiTick, AiIndInv, AiTypeOK
    <3>2. ASSUME NEW i \in AiIPs
          PROVE  /\ aiCool'[i] \in 0 .. AiCooldown /\ aiAge'[i] \in 0 .. AiCooldown
                 /\ aiAge'[i] + aiCool'[i] >= AiCooldown
                 /\ aiAge[i] = AiCooldown => aiAge'[i] = AiCooldown
      <4> DEFINE c == aiCool[i]
                 a == aiAge[i]
      <4>1. c \in 0 .. AiCooldown /\ a \in 0 .. AiCooldown /\ a + c >= AiCooldown
        BY <3>1 DEF AiMarksOK
      <4>2. aiCool'[i] = IF c = 0 THEN 0 ELSE c - 1
        BY <3>1
      <4>3. aiAge'[i] = IF a = AiCooldown THEN AiCooldown ELSE a + 1
        BY <3>1
      <4> HIDE DEF a, c
      <4>4. /\ aiCool'[i] \in 0 .. AiCooldown /\ aiAge'[i] \in 0 .. AiCooldown
            /\ aiAge'[i] + aiCool'[i] >= AiCooldown
            /\ a = AiCooldown => aiAge'[i] = AiCooldown
        BY <3>1, <4>1, <4>2, <4>3
      <4> QED
        BY <4>4 DEF a
    <3> QED
      BY <3>1, <3>2 DEF AiMarksOK
  <2>2. aiChain' \in BOOLEAN /\ aiPusher' \in {"idle", "signal"} /\ aiSignal' \in BOOLEAN
    BY <1>1, Zenon DEF AiTick, AiIndInv, AiTypeOK
  <2>3. AiTypeOK'
    BY <1>1, <2>1, <2>2 DEF AiTick, AiIndInv, AiTypeOK
  <2>4. /\ AiWorkerOK' /\ AiCacheOK' /\ AiFundsOK' /\ AiPendingExact' /\ AiVerdictsBound' /\ AiBudgetBound'
    BY <1>1 DEF AiTick, AiIndInv, AiWorkerOK, AiFlying, AiCacheOK, AiFundsOK, AiPendingExact,
                AiVerdictsBound, AiBudgetBound
  <2> QED
    BY <2>1, <2>3, <2>4 DEF AiIndInv
<1>2. CASE AiPushSignal
  <2>1. aiChain' \in BOOLEAN /\ aiPusher' \in {"idle", "signal"} /\ aiSignal' \in BOOLEAN
    BY <1>2, Zenon DEF AiPushSignal, AiIndInv, AiTypeOK
  <2>2. AiTypeOK'
    BY <1>2, <2>1 DEF AiPushSignal, AiIndInv, AiTypeOK
  <2>3. /\ AiWorkerOK' /\ AiCacheOK' /\ AiFundsOK' /\ AiMarksOK' /\ AiPendingExact' /\ AiVerdictsBound'
        /\ AiBudgetBound'
    BY <1>2 DEF AiPushSignal, AiIndInv, AiWorkerOK, AiFlying, AiCacheOK, AiFundsOK, AiMarksOK,
                AiPendingExact, AiVerdictsBound, AiBudgetBound
  <2> QED
    BY <2>2, <2>3 DEF AiIndInv
<1>3. CASE AiCacheExpire
  <2>1. AiCacheOK'
    BY <1>3 DEF AiCacheExpire, AiIndInv, AiCacheOK
  <2>2. aiChain' \in BOOLEAN /\ aiPusher' \in {"idle", "signal"} /\ aiSignal' \in BOOLEAN
    BY <1>3, Zenon DEF AiCacheExpire, AiIndInv, AiTypeOK
  <2>3. \A i \in AiIPs : aiCache'[AiSig[i]] \subseteq AiVerdict
    BY <2>1 DEF AiCacheOK
  <2>4. AiTypeOK'
    BY <1>3, <2>2, <2>3 DEF AiCacheExpire, AiIndInv, AiTypeOK
  <2>5. /\ AiWorkerOK' /\ AiFundsOK' /\ AiMarksOK' /\ AiPendingExact' /\ AiVerdictsBound'
        /\ AiBudgetBound'
    BY <1>3 DEF AiCacheExpire, AiIndInv, AiWorkerOK, AiFlying, AiFundsOK, AiMarksOK,
                AiPendingExact, AiVerdictsBound, AiBudgetBound
  <2> QED
    BY <2>1, <2>4, <2>5 DEF AiIndInv
<1>4. CASE AiNewDay
  <2>1. aiSpent \in [DOMAIN AiKinds -> Nat] /\ aiSpent' = [e \in DOMAIN AiKinds |-> 0]
    BY <1>4 DEF AiNewDay, AiIndInv, AiWorkerOK
  <2>2. AiWorkerOK' /\ AiBudgetBound'
    BY <1>4, <2>1, AiAssumption DEF AiNewDay, AiIndInv, AiWorkerOK, AiFlying, AiBudgetBound, AiMaxUse
  <2>3. AiFundsOK'
    <3>1. aiW \in AiWs /\ AiFundsOK /\ aiW' = aiW /\ aiChain' = aiChain
      BY <1>4 DEF AiNewDay, AiIndInv, AiWorkerOK
    <3>2. aiW.attempt > 0 => aiW.entry \in DOMAIN AiKinds
      BY <3>1, AiAssumption DEF AiWs, AiFundsOK
    <3>3. 1 \in DOMAIN AiKinds
      BY AiAssumption
    <3> QED
      BY <2>1, <3>1, <3>2, <3>3, AiAssumption DEF AiFundsOK
  <2>4. aiChain' \in BOOLEAN /\ aiPusher' \in {"idle", "signal"} /\ aiSignal' \in BOOLEAN
    BY <1>4, Zenon DEF AiNewDay, AiIndInv, AiTypeOK
  <2>5. AiTypeOK'
    BY <1>4, <2>4 DEF AiNewDay, AiIndInv, AiTypeOK
  <2>6. AiCacheOK' /\ AiMarksOK' /\ AiPendingExact' /\ AiVerdictsBound'
    BY <1>4 DEF AiNewDay, AiIndInv, AiCacheOK, AiMarksOK, AiPendingExact, AiVerdictsBound
  <2> QED
    BY <2>2, <2>3, <2>5, <2>6 DEF AiIndInv
<1> QED
  BY <1>1, <1>2, <1>3, <1>4

\* Every step keeps the invariant.
LEMMA AiStepKeeps == AiIndInv /\ [AiNext]_aiVars => AiIndInv'
<1> SUFFICES ASSUME AiIndInv, [AiNext]_aiVars PROVE AiIndInv'
  OBVIOUS
<1>1. CASE \E ip \in AiIPs : AiPush(ip)
  BY <1>1, AiPushKeeps
<1>2. CASE AiPop
  BY <1>2, AiPopKeeps
<1>3. CASE AiBlock \/ AiWake
  BY <1>3, AiSleepKeeps
<1>4. CASE AiGate
  BY <1>4, AiGateKeeps
<1>5. CASE AiConsultCached \/ AiConsultMiss
  BY <1>5, AiConsultKeeps
<1>6. CASE AiChainSkip \/ AiChainExhausted
  BY <1>6, AiChainKeeps
<1>7. CASE AiRetry
  BY <1>7, AiRetryKeeps
<1>8. CASE AiGiveUp
  BY <1>8, AiGiveUpKeeps
<1>9. CASE AiReply
  BY <1>9, AiReplyKeeps
<1>10. CASE AiDecide
  BY <1>10, AiDoneKeeps DEF AiDecide, AiFlying
<1>11. CASE AiTick \/ AiPushSignal \/ AiCacheExpire \/ AiNewDay
  BY <1>11, AiClockKeeps
<1>12. CASE UNCHANGED aiVars
  BY <1>12 DEF aiVars, AiIndInv, AiTypeOK, AiWorkerOK, AiFlying, AiCacheOK, AiFundsOK, AiMarksOK,
               AiPendingExact, AiVerdictsBound, AiBudgetBound
<1> QED
  BY <1>1, <1>2, <1>3, <1>4, <1>5, <1>6, <1>7, <1>8, <1>9, <1>10, <1>11, <1>12 DEF AiNext, AiWorker

-----------------------------------------------------------------------------
(* The theorems. *)

\* The inductive invariant of the queue, the worker, the cache and the budgets
\* holds in every reachable state, for any capacity, chain and budget.
THEOREM AiInvariant == AiSpec => []AiIndInv
  BY AiInitOK, AiStepKeeps, PTL DEF AiSpec

\* Marks are exactly what is queued or in flight, verdicts are bound to the
\* analysed address and clamped, a day's recorded spend overshoots by less
\* than one analysis and the sleeps of a call are capped (aiasync.go, cache.go,
\* budget.go, chain.go, retry.go).
THEOREM AiLayerIsSound == AiSpec => []AiInv
<1>1. AiIndInv => AiInv
  <2> SUFFICES ASSUME AiIndInv PROVE AiStallBound
    BY DEF AiIndInv, AiInv
  <2>1. /\ aiW.attempt \in Nat /\ aiW.waited \in Int /\ aiW.attempt <= AiMaxRetries
        /\ aiW.waited <= aiW.attempt * AiDelayCap /\ AiDelayCap \in Nat /\ AiMaxRetries \in Nat
    BY AiAssumption DEF AiIndInv, AiWorkerOK, AiWs, AiFundsOK
  <2>2. /\ aiW.attempt * AiDelayCap <= AiMaxRetries * AiDelayCap
        /\ aiW.attempt * AiDelayCap \in Nat /\ AiMaxRetries * AiDelayCap \in Nat
    BY <2>1, Attempts
  <2> QED
    BY <2>1, <2>2 DEF AiStallBound
<1> QED
  BY <1>1, AiInvariant, PTL

\* The worker starts an analysis of an address only a full cooldown after the
\* last one that was answered (aiasync.go, push and done).
THEOREM AiAnalysesAreApart == AiSpec => AiCooldownHolds
<1>1. ASSUME AiIndInv, [AiNext]_aiVars
      PROVE  [aiW'.pc = "consult" /\ aiW.pc # "consult" => aiAge[aiW.ip] >= AiCooldown]_aiVars
  <2> SUFFICES ASSUME aiW'.pc = "consult", aiW.pc # "consult", AiNext
               PROVE  aiAge[aiW.ip] >= AiCooldown
    BY <1>1 DEF aiVars
  <2>1. aiW \in AiWs
    BY <1>1 DEF AiIndInv, AiWorkerOK
  <2>2. AiGate
    <3>1. ~UNCHANGED aiW
      OBVIOUS
    <3>2. ~(AiPop \/ AiBlock \/ AiWake)
      BY <2>1, AiIdleIs DEF AiPop, AiBlock, AiWake, AiWs
    <3>3. ~(AiConsultCached \/ AiConsultMiss)
      BY DEF AiConsultCached, AiConsultMiss
    <3>4. ~(AiChainSkip \/ AiChainExhausted \/ AiRetry)
      BY <2>1 DEF AiChainSkip, AiChainExhausted, AiRetry, AiCalling, AiWs
    <3>5. ~(AiGiveUp \/ AiReply \/ AiDecide)
      BY <2>1, AiIdleIs DEF AiGiveUp, AiReply, AiDecide, AiDone, AiCalling, AiWs
    <3> QED
      BY <3>1, <3>2, <3>3, <3>4, <3>5
         DEF AiNext, AiWorker, AiPush, AiPushSignal, AiTick, AiCacheExpire, AiNewDay
  <2>3. aiW.pc = "rate"
    BY <2>2 DEF AiGate
  <2>4. aiAge[aiW.ip] = AiCooldown
    BY <1>1, <2>3 DEF AiIndInv, AiPendingExact, AiMarksOK
  <2> QED
    BY <2>4, AiAssumption
<1> QED
  BY <1>1, AiInvariant, PTL DEF AiSpec, AiCooldownHolds
=============================================================================

------------------------------- MODULE Plugin -------------------------------
(***************************************************************************)
(* The plugin runtime: callers, the bounded request queue, the supervisor  *)
(* that owns one process at a time (handshake, round trips, hard kill,     *)
(* restart backoff, circuit breaker) and the process, which may answer     *)
(* late, twice, with somebody else's id, or die.                           *)
(***************************************************************************)
EXTENDS Integers, SequencesExt, FiniteSets

CONSTANTS
  PlQueue,        \* defaultQueueCap
  PlMaxFails,     \* maxFailuresPerHour
  PlHour,         \* the breaker's window
  PlBackoff,      \* restartBackoff, a sequence
  PlMaxCalls, PlMaxTime, PlMaxFaults   \* bounds

ASSUME PlConstants ==
  /\ PlQueue \in Nat \ {0} /\ PlMaxFails \in Nat \ {0} /\ PlHour \in Nat \ {0}
  /\ PlBackoff \in Seq(Nat) /\ PlBackoff # <<>>
  /\ PlMaxCalls \in Nat /\ PlMaxTime \in Nat /\ PlMaxFaults \in Nat

PlCalls == 1 .. PlMaxCalls

VARIABLES
  plNow, plFaults,
  plCtx,        \* the daemon's context is cancelled
  plCall,       \* where every call is
  plQueue,      \* pending calls; the one whose caller left may still be among them
  plSup,        \* the supervisor: "check", "start", "serve", "trip", "backoff", "drain", "gone"
  plTrip,       \* the round trip: [call, id]
  plNextID, plUntil, plRestarts,
  plFails,      \* failures inside the window: [gen, at], the process that failed and when
  plDisabled,
  plProcs,      \* live plugin processes, by generation
  plGen,        \* the generation the supervisor talks to
  plAsk,        \* what the process has read and not answered: a set of at most one [id, call]
  plOut,        \* its unread answers: sequence of [id, call, ok]
  plStarts,     \* history: starts inside the last hour, likewise
  plGot         \* history: the call whose answer each call received

plTime == <<plNow, plFaults>>
plClients == <<plCall, plQueue, plGot>>
plBreaker == <<plUntil, plRestarts, plFails, plDisabled>>
plPipe == <<plAsk, plOut>>
plProcess == <<plProcs, plGen, plStarts>>
plVars == <<plTime, plCtx, plClients, plSup, plTrip, plNextID, plBreaker, plProcess, plPipe>>

PlNoTrip == [call |-> 0, id |-> 0]

PlInit ==
  /\ plNow = 0 /\ plFaults = 0 /\ plCtx = FALSE
  /\ plCall = [k \in PlCalls |-> "new"] /\ plQueue = <<>> /\ plGot = [k \in PlCalls |-> 0]
  /\ plSup = "check" /\ plTrip = PlNoTrip /\ plNextID = 1
  /\ plUntil = 0 /\ plRestarts = 0 /\ plFails = {} /\ plDisabled = FALSE
  /\ plProcs = {} /\ plGen = 0 /\ plStarts = {} /\ plAsk = {} /\ plOut = <<>>

PlFault == plFaults < PlMaxFaults /\ plFaults' = plFaults + 1 /\ UNCHANGED plNow

-----------------------------------------------------------------------------
(* Callers.                                                                *)

PlSupSame == UNCHANGED <<plCtx, plSup, plTrip, plNextID, plBreaker, plProcess, plPipe>>

\* Call looks at the breaker first ...
PlCallChecks(k) ==
  /\ plCall[k] = "new" /\ \A j \in 1 .. k - 1 : plCall[j] # "new"
  /\ plCall' = [plCall EXCEPT ![k] = IF plDisabled THEN "disabled" ELSE "checked"]
  /\ UNCHANGED <<plTime, plQueue, plGot>> /\ PlSupSame

PlRoom == Len(plQueue) < PlQueue

\* ... and then puts the request into the queue, or is told at once that it is full.
PlCallQueues(k) ==
  /\ plCall[k] = "checked"
  /\ \/ /\ PlRoom /\ plQueue' = Append(plQueue, k)
        /\ plCall' = [plCall EXCEPT ![k] = "waiting"]
     \/ /\ ~PlRoom /\ plCall' = [plCall EXCEPT ![k] = "busy"]
        /\ UNCHANGED plQueue
  /\ UNCHANGED <<plTime, plGot>> /\ PlSupSame

\* The caller's own context ends.
PlCallLeaves(k) ==
  /\ plCall[k] = "waiting" /\ PlFault
  /\ plCall' = [plCall EXCEPT ![k] = "left"]
  /\ UNCHANGED <<plQueue, plGot>> /\ PlSupSame

\* The supervisor is gone: nobody will answer.
PlCallStopped(k) ==
  /\ plCall[k] = "waiting" /\ plSup = "gone"
  /\ plCall' = [plCall EXCEPT ![k] = "stopped"]
  /\ UNCHANGED <<plTime, plQueue, plGot>> /\ PlSupSame

\* A result for call k; a caller that left does not look at it.
PlAnswered(k, how) == IF plCall[k] = "waiting" THEN [plCall EXCEPT ![k] = how] ELSE plCall

-----------------------------------------------------------------------------
(* The supervisor.                                                         *)

\* A disabled plugin goes on waiting for a better moment.
PlWhenDisabledParked == "backoff"

\* drainDisabled answers for as long as the daemon lives.
PlWhenDisabled == "drain"

PlCheck ==
  /\ plSup = "check"
  /\ plSup' = IF plCtx THEN "gone" ELSE IF plDisabled THEN PlWhenDisabled ELSE "start"
  /\ UNCHANGED <<plTime, plCtx, plClients, plTrip, plNextID, plBreaker, plProcess, plPipe>>

\* kill: SIGKILL to the whole process group.
PlKill(g) == plProcs \ {g}

\* recordFailure keeps what happened in the last hour.
PlRecent(log) == {x \in log : x.at > plNow - PlHour}

\* recordFailure for process g: count, then disable or wait for the schedule's next delay.
PlFailed(g) ==
  /\ plFails' = PlRecent(plFails) \cup {[gen |-> g, at |-> plNow]} /\ plRestarts' = plRestarts + 1
  /\ LET trips == Cardinality(plFails') >= PlMaxFails
         idx == IF plRestarts' > Len(PlBackoff) THEN Len(PlBackoff) ELSE plRestarts'
     IN /\ plDisabled' = (plDisabled \/ trips)
        /\ plSup' = IF trips THEN "check" ELSE "backoff"
        /\ plUntil' = IF trips THEN plUntil ELSE plNow + PlBackoff[idx]

\* startProcess spawns; the process lives before the handshake is over.
PlSpawn ==
  /\ plGen' = plGen + 1
  /\ plStarts' = PlRecent(plStarts) \cup {[gen |-> plGen + 1, at |-> plNow]}

PlStart ==
  /\ plSup = "start" /\ PlSpawn /\ plSup' = "serve"
  /\ plProcs' = plProcs \cup {plGen + 1} /\ plAsk' = {} /\ plOut' = <<>>
  /\ UNCHANGED <<plTime, plCtx, plClients, plTrip, plNextID, plBreaker>>

\* No handshake: no answer, garbage, or a cancelled context's kill. The process is killed.
PlStartFails ==
  /\ plSup = "start" /\ PlSpawn /\ PlFailed(plGen + 1)
  /\ IF plCtx THEN UNCHANGED plTime ELSE PlFault
  /\ UNCHANGED <<plCtx, plClients, plTrip, plNextID, plProcs, plPipe>>

\* Another protocol version or no name: permanent, without a restart.
PlRejected ==
  /\ plSup = "start" /\ PlSpawn /\ PlFault /\ plDisabled' = TRUE /\ plSup' = "check"
  /\ UNCHANGED <<plCtx, plClients, plTrip, plNextID, plUntil, plRestarts, plFails, plProcs, plPipe>>

\* serve takes a request: one whose caller left is skipped, another is written to the process.
PlTake ==
  /\ plSup = "serve" /\ plQueue # <<>>
  /\ LET k == Head(plQueue)
     IN \/ plCall[k] = "left" /\ UNCHANGED <<plSup, plTrip, plNextID, plAsk>>
        \/ /\ plCall[k] # "left" /\ plSup' = "trip" /\ plNextID' = plNextID + 1
           /\ plTrip' = [call |-> k, id |-> plNextID]
           /\ plAsk' = {[id |-> plNextID, call |-> k]}
  /\ plQueue' = Tail(plQueue)
  /\ UNCHANGED <<plTime, plCtx, plCall, plGot, plBreaker, plProcess, plOut>>

\* The first line on stdout is the answer.
PlMatchesAny(a) == TRUE

\* roundTrip: the answer must carry the request's id.
PlMatches(a) == a.id = plTrip.id

PlRead ==
  /\ plSup = "trip" /\ plOut # <<>> /\ PlMatches(Head(plOut))
  /\ plCall' = PlAnswered(plTrip.call, IF Head(plOut).ok THEN "ok" ELSE "declined")
  /\ plGot' = [plGot EXCEPT ![plTrip.call] = Head(plOut).call]
  /\ plOut' = Tail(plOut) /\ plSup' = "serve" /\ plTrip' = PlNoTrip
  /\ UNCHANGED <<plTime, plCtx, plQueue, plNextID, plBreaker, plProcess, plAsk>>

\* The process is of no more use: killed, and unless the daemon stops, counted.
PlDrop(call) ==
  /\ plCall' = IF call = 0 THEN plCall ELSE PlAnswered(call, "error")
  /\ plProcs' = PlKill(plGen) /\ plTrip' = PlNoTrip
  /\ IF plCtx THEN plSup' = "gone" /\ UNCHANGED plBreaker ELSE PlFailed(plGen)
  /\ UNCHANGED <<plCtx, plQueue, plGot, plNextID, plGen, plStarts, plPipe>>

\* Garbage or somebody else's answer; end of file; the watchdog's kill at the deadline.
PlReadBad == plSup = "trip" /\ plOut # <<>> /\ ~PlMatches(Head(plOut)) /\ PlDrop(plTrip.call) /\ UNCHANGED plTime
PlReadEOF == plSup = "trip" /\ plOut = <<>> /\ plGen \notin plProcs /\ PlDrop(plTrip.call) /\ UNCHANGED plTime
PlTimeout == plSup = "trip" /\ plOut = <<>> /\ PlFault /\ PlDrop(plTrip.call)

\* serve notices that the process was reaped, or that the daemon stops.
PlServeEnds == plSup = "serve" /\ (plGen \notin plProcs \/ plCtx) /\ PlDrop(0) /\ UNCHANGED plTime

\* The delay is over or cut short by the shutdown; at the time bound it just ends.
PlResume ==
  /\ plSup = "backoff" /\ (plNow >= plUntil \/ plCtx \/ plNow = PlMaxTime) /\ plSup' = "check"
  /\ UNCHANGED <<plTime, plCtx, plClients, plTrip, plNextID, plBreaker, plProcess, plPipe>>

PlDrain ==
  /\ plSup = "drain"
  /\ \/ /\ plQueue # <<>> /\ plCall' = PlAnswered(Head(plQueue), "disabled")
        /\ plQueue' = Tail(plQueue) /\ UNCHANGED plSup
     \/ plCtx /\ plSup' = "gone" /\ UNCHANGED <<plCall, plQueue>>
  /\ UNCHANGED <<plTime, plCtx, plGot, plTrip, plNextID, plBreaker, plProcess, plPipe>>

-----------------------------------------------------------------------------
(* The process, the clock and the shutdown.                                *)

PlProcSame == UNCHANGED <<plCtx, plClients, plSup, plTrip, plNextID, plBreaker>>

PlReply ==
  /\ plGen \in plProcs
  /\ \E a \in plAsk, ok \in BOOLEAN : plOut' = Append(plOut, [id |-> a.id, call |-> a.call, ok |-> ok])
  /\ plAsk' = {} /\ PlProcSame /\ UNCHANGED <<plTime, plProcess>>

\* A line nobody asked for: the answer a second time.
PlRepeats ==
  /\ plGen \in plProcs /\ plOut # <<>> /\ PlFault
  /\ plOut' = Append(plOut, Last(plOut)) /\ PlProcSame /\ UNCHANGED <<plAsk, plProcess>>

PlDies ==
  /\ plGen \in plProcs /\ PlFault /\ plProcs' = plProcs \ {plGen}
  /\ PlProcSame /\ UNCHANGED <<plGen, plStarts, plPipe>>

PlTick ==
  /\ plNow < PlMaxTime /\ plNow' = plNow + 1 /\ PlProcSame
  /\ UNCHANGED <<plFaults, plProcess, plPipe>>

\* The context ends; the watcher of the present process kills its group.
PlCancel ==
  /\ ~plCtx /\ plCtx' = TRUE /\ plProcs' = PlKill(plGen)
  /\ UNCHANGED <<plTime, plClients, plSup, plTrip, plNextID, plBreaker, plGen, plStarts, plPipe>>

-----------------------------------------------------------------------------
PlSupervise ==
  \/ PlCheck \/ PlStart \/ PlStartFails \/ PlRejected \/ PlTake \/ PlRead \/ PlReadBad \/ PlReadEOF
  \/ PlTimeout \/ PlServeEnds \/ PlResume \/ PlDrain

PlClient(k) == PlCallChecks(k) \/ PlCallQueues(k) \/ PlCallLeaves(k) \/ PlCallStopped(k)

PlNext ==
  \/ PlSupervise \/ PlReply \/ PlRepeats \/ PlDies \/ PlTick \/ PlCancel
  \/ \E k \in PlCalls : PlClient(k)

\* The worker runs, a healthy process answers, time passes and a caller sees a closed runtime.
PlSpec ==
  /\ PlInit /\ [][PlNext]_plVars
  /\ WF_plVars(PlSupervise) /\ WF_plVars(PlReply) /\ WF_plVars(PlTick)
  /\ \A k \in PlCalls : WF_plVars(PlCallQueues(k) \/ PlCallStopped(k))

-----------------------------------------------------------------------------
(* Properties.                                                             *)

\* Every variable keeps its type; the queue keeps its bound.
PlTypeOK ==
  /\ plCall \in [PlCalls -> {"new", "checked", "waiting", "left", "ok", "declined", "error",
                             "disabled", "busy", "stopped"}]
  /\ Len(plQueue) <= PlQueue /\ Range(plQueue) \subseteq PlCalls
  /\ plSup \in {"check", "start", "serve", "trip", "backoff", "drain", "gone"}
  /\ plProcs \subseteq 1 .. plGen /\ Cardinality(plFails) <= PlMaxFails
  /\ (plSup = "trip") = (plTrip # PlNoTrip)

\* A call that succeeds carries the answer to its own request, whatever lines the process left
\* on stdout during earlier ones (roundTrip's id check).
PlOwnAnswer == \A k \in PlCalls : plCall[k] = "ok" => plGot[k] = k

\* However a process fails (exec, handshake, exit, hang, garbage), at most maxFailuresPerHour
\* of them are started within an hour (recordFailure's window and breaker).
PlStartsBounded == Cardinality(plStarts) <= PlMaxFails

\* Two processes of a plugin never run at the same time, and a plugin that is waiting to be
\* restarted, disabled or stopped has none (kill before recordFailure and on every exit).
PlOneProcess ==
  /\ Cardinality(plProcs) <= 1
  /\ plSup \in {"check", "backoff", "drain", "gone"} => plProcs = {}

\* "callers never hang on a dead plugin": no call waits for ever, through restarts, the tripped
\* breaker and the shutdown.
PlNobodyHangs == \A k \in PlCalls : []<>(plCall[k] # "waiting")

\* The plugin supervisor, through stale answers, hangs, crashes and shutdown: an
\* answer belongs to its request, restarts are bounded, and one process runs.
PlInv == PlTypeOK /\ PlOwnAnswer /\ PlStartsBounded /\ PlOneProcess
=============================================================================

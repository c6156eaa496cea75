-------------------------------- MODULE Siem --------------------------------
(***************************************************************************)
(* SIEM forwarding: the daemon's tail of the audit log, and the forwarder  *)
(* with a bounded queue and a delivery worker per sink.                    *)
(*                                                                         *)
(* An event is a number: 0 is daemon_start, 1 .. SmMaxRows are the audit   *)
(* rows by id, SmMaxRows + 1 is daemon_stop.                               *)
(***************************************************************************)
EXTENDS SequencesExt, FiniteSets

CONSTANTS
  SmSinks,
  SmWants,        \* sink -> the events its filter lets through
  SmOrder,        \* the sinks in the forwarder's order
  SmQueue,        \* room in a sink's queue
  SmBatch,        \* rows of one audit query
  SmMaxBackoff,   \* doublings of the reconnect delay before the cap
  SmPrior,        \* audit rows of earlier runs
  SmMaxRows, SmMaxFaults   \* bounds

ASSUME SmConstants ==
  /\ IsFiniteSet(SmSinks) /\ SmSinks # {} /\ SmOrder \in Bijection(1 .. Cardinality(SmSinks), SmSinks)
  /\ SmWants \in [SmSinks -> SUBSET (0 .. SmMaxRows + 1)]
  /\ SmQueue \in Nat \ {0} /\ SmBatch \in Nat \ {0}
  /\ SmMaxBackoff \in Nat /\ SmMaxRows \in Nat /\ SmMaxFaults \in Nat /\ SmPrior \in 0 .. SmMaxRows

SmStart == 0
SmStop == SmMaxRows + 1

VARIABLES
  smAudit,      \* rows in the audit log
  smLast,       \* lastID of the tail
  smTail,       \* the tail goroutine: [at, mode, todo, nth, full]; todo[1] is due at SmOrder[nth]
  smSink,       \* a worker: [at, q, cur, backoff, drops, out]
  smDown,       \* "up", "daemon" (its context is cancelled), "all" (the forwarder's too), "exit"
  smFaults,
  smFrom,       \* history: lastID when the tail began
  smSeen        \* history: events each sink's queue was given or refused

smVars == <<smAudit, smLast, smTail, smSink, smDown, smFaults, smFrom, smSeen>>

SmFault == smFaults < SmMaxFaults /\ smFaults' = smFaults + 1
SmAlive == smDown # "exit"

SmInit ==
  /\ smAudit = SmPrior /\ smLast = 0
  /\ smTail = [at |-> "boot", mode |-> "boot", todo |-> <<>>, nth |-> 1, full |-> FALSE]
  /\ smSink = [s \in SmSinks |-> [at |-> "idle", q |-> <<>>, cur |-> <<>>, backoff |-> 0,
                                  drops |-> 0, out |-> <<>>]]
  /\ smDown = "up" /\ smFaults = 0 /\ smFrom = 0 /\ smSeen = [s \in SmSinks |-> {}]

\* Any goroutine of the daemon audits an action, the shutdown's own ones included.
SmAction ==
  /\ SmAlive /\ smAudit < SmMaxRows /\ smAudit' = smAudit + 1
  /\ UNCHANGED <<smLast, smTail, smSink, smDown, smFaults, smFrom, smSeen>>

-----------------------------------------------------------------------------
(* The tail.                                                               *)

SmEmitting(mode, events) ==
  [at |-> "emit", mode |-> mode, todo |-> events, nth |-> 1, full |-> Len(events) = SmBatch]

\* The first pickup is the last.
SmAfterEnds(mode) == IF mode = "final" THEN SmEmitting("stop", <<SmStop>>)
                     ELSE [smTail EXCEPT !.at = "gone"]

\* A pickup is over: back to the ticker, or on to daemon_stop.
SmAfter(mode) == CASE mode = "final" -> SmEmitting("stop", <<SmStop>>)
                   [] mode = "stop" -> [smTail EXCEPT !.at = "gone"]
                   [] OTHER -> [smTail EXCEPT !.at = "idle"]

\* The tail starts behind the newest row; without it, at the beginning of the log.
SmBoot ==
  /\ SmAlive /\ smTail.at = "boot" /\ smTail' = SmEmitting("boot", <<SmStart>>)
  /\ \/ smLast' = smAudit /\ UNCHANGED smFaults
     \/ smLast' = 0 /\ SmFault
  /\ smFrom' = smLast'
  /\ UNCHANGED <<smAudit, smSink, smDown, smSeen>>

SmTick ==
  /\ SmAlive /\ smTail.at = "idle"
  /\ \/ smTail' = [smTail EXCEPT !.at = "query", !.mode = "tick"]
     \/ smDown # "up" /\ smTail' = [smTail EXCEPT !.at = "query", !.mode = "final"]
  /\ UNCHANGED <<smAudit, smLast, smSink, smDown, smFaults, smFrom, smSeen>>

\* forwardNewAudits: the next rows in id order; a tick's query dies with the context.
SmQueried ==
  /\ SmAlive /\ smTail.at = "query" /\ (smTail.mode = "tick" => smDown = "up")
  /\ LET rows == [i \in 1 .. (IF smAudit - smLast < SmBatch THEN smAudit - smLast ELSE SmBatch)
                    |-> smLast + i]
     IN smTail' = IF rows = <<>> THEN SmAfter(smTail.mode) ELSE SmEmitting(smTail.mode, rows)
  /\ UNCHANGED <<smAudit, smLast, smSink, smDown, smFaults, smFrom, smSeen>>

SmQueryFails ==
  /\ SmAlive /\ smTail.at = "query" /\ smTail' = SmAfter(smTail.mode)
  /\ \/ smTail.mode = "tick" /\ smDown # "up" /\ UNCHANGED smFaults
     \/ SmFault
  /\ UNCHANGED <<smAudit, smLast, smSink, smDown, smFrom, smSeen>>

\* The tail moves to the row it has just handed to every sink.
SmAdvance(e) == IF e \in {SmStart, SmStop} THEN smLast ELSE e

\* Emit walks the sinks for every event: this one is through for one of them.
SmHandled ==
  IF smTail.nth < Cardinality(SmSinks)
  THEN smTail' = [smTail EXCEPT !.at = "emit", !.nth = @ + 1] /\ UNCHANGED smLast
  ELSE /\ smTail' = [smTail EXCEPT !.at = "emit", !.nth = 1, !.todo = Tail(@)]
       /\ smLast' = SmAdvance(Head(smTail.todo))

SmEmit ==
  /\ SmAlive /\ smTail.at = "emit" /\ smTail.todo # <<>>
  /\ LET e == Head(smTail.todo)  s == SmOrder[smTail.nth]
     IN \/ e \notin SmWants[s] /\ SmHandled /\ UNCHANGED <<smSink, smSeen>>
        \/ /\ e \in SmWants[s] /\ Len(smSink[s].q) < SmQueue
           /\ smSink' = [smSink EXCEPT ![s].q = Append(@, e)]
           /\ smSeen' = [smSeen EXCEPT ![s] = @ \cup {e}] /\ SmHandled
        \/ /\ e \in SmWants[s] /\ Len(smSink[s].q) >= SmQueue
           /\ smTail' = [smTail EXCEPT !.at = "evict"] /\ UNCHANGED <<smSink, smLast, smSeen>>
  /\ UNCHANGED <<smAudit, smDown, smFaults, smFrom>>

\* The oldest event goes without a word.
SmEvictedQuiet(w) == IF w.q = <<>> THEN w ELSE [w EXCEPT !.q = Tail(@)]

\* enqueue on a full queue: the oldest event goes and is counted; the worker may have been faster.
SmEvicted(w) == IF w.q = <<>> THEN w ELSE [w EXCEPT !.q = Tail(@), !.drops = @ + 1]

SmEvict ==
  /\ SmAlive /\ smTail.at = "evict" /\ smTail' = [smTail EXCEPT !.at = "insert"]
  /\ smSink' = [smSink EXCEPT ![SmOrder[smTail.nth]] = SmEvicted(@)]
  /\ UNCHANGED <<smAudit, smLast, smDown, smFaults, smFrom, smSeen>>

\* The second try finds room, or the event itself is counted.
SmInserted(w, e) == IF Len(w.q) < SmQueue THEN [w EXCEPT !.q = Append(@, e)] ELSE [w EXCEPT !.drops = @ + 1]

SmInsert ==
  /\ SmAlive /\ smTail.at = "insert"
  /\ LET e == Head(smTail.todo)  s == SmOrder[smTail.nth]
     IN /\ smSink' = [smSink EXCEPT ![s] = SmInserted(@, e)]
        /\ smSeen' = [smSeen EXCEPT ![s] = @ \cup {e}] /\ SmHandled
  /\ UNCHANGED <<smAudit, smDown, smFaults, smFrom>>

\* A full batch is followed by another query.
SmEmitted ==
  /\ SmAlive /\ smTail.at = "emit" /\ smTail.todo = <<>>
  /\ smTail' = IF smTail.full /\ smTail.mode \in {"tick", "final"}
               THEN [smTail EXCEPT !.at = "query"] ELSE SmAfter(smTail.mode)
  /\ UNCHANGED <<smAudit, smLast, smSink, smDown, smFaults, smFrom, smSeen>>

-----------------------------------------------------------------------------
(* The workers.                                                            *)

SmSet(s, w) == smSink' = [smSink EXCEPT ![s] = w]
SmSame == UNCHANGED <<smAudit, smLast, smTail, smDown, smFrom, smSeen>>

SmTake(s) ==
  /\ SmAlive /\ smSink[s].at = "idle" /\ smSink[s].q # <<>>
  /\ SmSet(s, [smSink[s] EXCEPT !.at = "deliver", !.cur = <<Head(smSink[s].q)>>, !.q = Tail(@)])
  /\ SmSame /\ UNCHANGED smFaults

SmWritten(s) ==
  /\ SmAlive /\ smSink[s].at = "deliver"
  /\ SmSet(s, [smSink[s] EXCEPT !.at = "idle", !.cur = <<>>, !.backoff = 0, !.out = @ \o smSink[s].cur])
  /\ SmSame /\ UNCHANGED smFaults

\* deliver keeps the event in hand and waits: a second, doubled up to the cap.
SmHolds(w) == [w EXCEPT !.at = "wait", !.backoff = IF @ < SmMaxBackoff THEN @ + 1 ELSE @]

\* The write fails; the sink may have received the event all the same.
SmWriteFails(s) ==
  /\ SmAlive /\ smSink[s].at = "deliver" /\ SmFault
  /\ \E got \in {<<>>, smSink[s].cur} : SmSet(s, [SmHolds(smSink[s]) EXCEPT !.out = @ \o got])
  /\ SmSame

SmRetry(s) ==
  /\ SmAlive /\ smSink[s].at = "wait"
  /\ SmSet(s, [smSink[s] EXCEPT !.at = "deliver"])
  /\ SmSame /\ UNCHANGED smFaults

\* The forwarder is cancelled during the wait: the event is counted as dropped.
SmAbandon(s) ==
  /\ SmAlive /\ smSink[s].at = "wait" /\ smDown = "all"
  /\ SmSet(s, [smSink[s] EXCEPT !.at = "idle", !.cur = <<>>, !.drops = @ + 1])
  /\ SmSame /\ UNCHANGED smFaults

SmToFlush(s) ==
  /\ SmAlive /\ smSink[s].at = "idle" /\ smDown = "all"
  /\ SmSet(s, [smSink[s] EXCEPT !.at = "flush"])
  /\ SmSame /\ UNCHANGED smFaults

\* flush drains the queue: written while the deadline holds, counted as dropped otherwise.
SmFlush(s) ==
  /\ SmAlive /\ smSink[s].at = "flush" /\ smSink[s].q # <<>>
  /\ \/ /\ SmSet(s, [smSink[s] EXCEPT !.q = Tail(@), !.out = Append(@, Head(smSink[s].q))])
        /\ UNCHANGED smFaults
     \/ SmSet(s, [smSink[s] EXCEPT !.q = Tail(@), !.drops = @ + 1]) /\ SmFault
  /\ SmSame

SmFlushed(s) ==
  /\ SmAlive /\ smSink[s].at = "flush" /\ smSink[s].q = <<>>
  /\ SmSet(s, [smSink[s] EXCEPT !.at = "gone"])
  /\ SmSame /\ UNCHANGED smFaults

-----------------------------------------------------------------------------
(* Shutdown.  A signal cancels the tail's context and the forwarder's at once.  A Daemon.Run *)
(* that ends by itself cancels its goroutines and returns, without waiting for the tail;     *)
(* runDaemon then cancels the forwarder.  It waits for it, ten seconds at most.              *)

SmCancelled ==
  /\ \/ smDown = "up" /\ smDown' \in {"daemon", "all"}
     \/ smDown = "daemon" /\ smDown' = "all"
  /\ UNCHANGED <<smAudit, smLast, smTail, smSink, smFaults, smFrom, smSeen>>

SmExit ==
  /\ smDown = "all" /\ smDown' = "exit"
  /\ \/ (\A s \in SmSinks : smSink[s].at = "gone") /\ UNCHANGED smFaults
     \/ SmFault
  /\ UNCHANGED <<smAudit, smLast, smTail, smSink, smFrom, smSeen>>

-----------------------------------------------------------------------------
SmTailStep == SmBoot \/ SmTick \/ SmQueried \/ SmQueryFails \/ SmEmit \/ SmEvict \/ SmInsert \/ SmEmitted
SmWorker(s) == SmTake(s) \/ SmWritten(s) \/ SmRetry(s) \/ SmAbandon(s) \/ SmToFlush(s) \/ SmFlush(s) \/ SmFlushed(s)

SmNext == \/ SmAction \/ SmTailStep \/ SmCancelled \/ SmExit
          \/ \E s \in SmSinks : SmWorker(s) \/ SmWriteFails(s)

\* Both loops wait only for timers and bounded writes; a shutdown that began goes on.
SmSpec == /\ SmInit /\ [][SmNext]_smVars
          /\ WF_smVars(SmTailStep) /\ \A s \in SmSinks : WF_smVars(SmWorker(s))

-----------------------------------------------------------------------------
(* Properties.                                                             *)

\* Every variable keeps its type; no queue outgrows its room.
SmTypeOK ==
  /\ smAudit \in SmPrior .. SmMaxRows /\ smLast \in smFrom .. smAudit
  /\ smTail.at \in {"boot", "idle", "query", "emit", "evict", "insert", "gone"}
  /\ smTail.nth \in DOMAIN SmOrder
  /\ smDown \in {"up", "daemon", "all", "exit"}
  /\ \A s \in SmSinks : /\ smSink[s].at \in {"idle", "deliver", "wait", "flush", "gone"}
                        /\ Len(smSink[s].q) <= SmQueue /\ smSink[s].backoff \in 0 .. SmMaxBackoff
                        /\ Range(smSink[s].out) \subseteq smSeen[s]

\* Nothing a sink was given disappears without a trace: what its queue took or refused is
\* written, waiting, in the worker's hands, or counted in its drops, whatever the emitter's
\* eviction, the worker, a broken connection and the shutdown flush do to each other.
SmConserved ==
  \A s \in SmSinks :
    LET w == smSink[s]
    IN Cardinality(smSeen[s] \ (Range(w.q) \cup Range(w.cur) \cup Range(w.out))) <= w.drops

\* "preserves ordering": a sink receives events in the order of the audit log; an event may
\* come twice in a row (a write that failed after it arrived) but never after a later one.
SmInOrder ==
  \A s \in SmSinks : \A i, j \in DOMAIN smSink[s].out :
    i < j => smSink[s].out[i] <= smSink[s].out[j]

\* The tail skips no row: whatever lies between its first lastID and the present one went to every
\* sink that wants it, however rows were added while a batch was on its way.
SmNoRowSkipped ==
  \A s \in SmSinks : \A r \in smFrom + 1 .. smLast : r \in SmWants[s] => r \in smSeen[s]

\* A sink that answers again gets everything: while the daemon is up, the tail catches up with
\* the log and the queues empty, whatever failed before (retries never end while up).
SmCatchesUp ==
  <>[](smDown = "up" => smLast = smAudit /\ \A s \in SmSinks : smSink[s].q = <<>> /\ smSink[s].cur = <<>>)

\* The tail and its sinks, through full queues, broken connections and shutdown:
\* every event is accounted for, in order, and no row is skipped.
SmInv == SmTypeOK /\ SmConserved /\ SmInOrder /\ SmNoRowSkipped
=============================================================================

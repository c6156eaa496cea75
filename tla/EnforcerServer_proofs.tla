----------------------- MODULE EnforcerServer_proofs -----------------------
(***************************************************************************)
(* Proofs about the privileged helper, for any addresses, elements,        *)
(* connections and timeouts: its cache and the kernel's set agree about    *)
(* every permanent element whenever no verb is at work.                    *)
(*                                                                         *)
(* CacheMatchesKernel is not inductive. Between the nft invocation of a    *)
(* verb and its cache write the two disagree about the element the verb    *)
(* names, so the invariant says for every label what is known of that      *)
(* element (AddHands, AddedHands, GoneHands), that the verb holds mutateMu *)
(* and that the table cannot change under it (LockOK), and that all other  *)
(* elements agree (Agree). Agreement about permanent elements alone would  *)
(* not survive either: an addition takes an element the cache does not     *)
(* know for one the kernel does not hold, so a live element of the kernel  *)
(* must be in the cache, and for no less time.                             *)
(***************************************************************************)
EXTENDS EnforcerServer, TLAPS

\* The labels of a verb: the request holds mutateMu.
Verb == Step \ {"idle", "list_prune"}

\* The labels at which a verb works on the element it names.
Named == Verb \ {"flush_exec", "flush_cache"}

\* The labels between the deletion of the old element and the new one.
Adding == {"add_exec", "absorb", "add_undo", "add_covered"}

\* The labels after the deletion of an element, before the cache forgets it.
Gone == {"del_cache", "del_absent"}

\* A verb holds the lock and has pinned the table; a reconcile adds nothing
\* but bans of the store.
LockOK ==
    \A k \in Conn :
        /\ pc[k] \in Verb => mutateMu = k
        /\ pc[k] # "idle" => pinned
        /\ pc[k] = "list_prune" => k = "sync"
        /\ pc[k] \in Named => elem[k] \in Elem
        /\ pc[k] \in Adding \cup {"add_del", "add_cache"} /\ k = "sync" => elem[k] \in Want

\* The deadline an add remembers is the one of the cache, unless `list` has
\* pruned the entry since.
OldOK(k) ==
    \/ cache[elem[k]] = old[k]
    \/ old[k] = 0 /\ cache[elem[k]] = Absent

\* The kernel holds no permanent element where an add works, and none that
\* would keep its timer.
AddHands(k) ==
    /\ OldOK(k)
    /\ Set[elem[k]] # Perm
    /\ ~revived => ~Live(Set[elem[k]])
    /\ pc[k] = "add_undo" => old[k] # Absent

\* The kernel has taken the element with the deadline the cache will get.
AddedHands(k) ==
    /\ Set[elem[k]] = Perm => ttl[k] = Forever
    /\ ~revived => /\ Set[elem[k]] <= Deadline(ttl[k])
                   /\ ttl[k] = Forever => Set[elem[k]] = Perm

GoneHands(k) == ~Live(Set[elem[k]])

HandsOK ==
    \A k \in Conn :
        /\ pc[k] = "add_del" => OldOK(k)
        /\ pc[k] \in Adding => AddHands(k)
        /\ pc[k] = "add_cache" => AddedHands(k)
        /\ pc[k] \in Gone => GoneHands(k)
        /\ pc[k] = "flush_cache" => \A e \in Elem : ~Live(Set[e])

\* The verb at work has changed e in the kernel and not yet in the cache.
Disturbed(e) ==
    \E k \in Conn :
        \/ pc[k] \in Adding \cup Gone \cup {"add_cache"} /\ elem[k] = e
        \/ pc[k] = "flush_cache"

Agree(e) ==
    /\ Set[e] = Perm => cache[e] = Perm
    /\ ~revived => /\ Live(Set[e]) => Set[e] <= cache[e]
                   /\ cache[e] = Perm => Set[e] = Perm

AgreeOK == \A e \in Elem : Disturbed(e) \/ Agree(e)

TypeInv == EnforcerTypeOK /\ LockOK

\* The inductive invariant.
EnforcerInv == TypeInv /\ HandsOK /\ AgreeOK
-----------------------------------------------------------------------------
(* What the operators the actions share do to the state. *)

\* A write to the helper's table keeps the type of the kernel's sets and is
\* what the next step finds there.
LEMMA InTableIs ==
    ASSUME EnforcerTypeOK, NEW els \in [Elem -> Absent .. Perm], InTable(els)
    PROVE  /\ kernel' \in [Table -> [Elem -> Absent .. Perm]]
           /\ kernel'[table] = els
  BY DEF EnforcerTypeOK, InTable, Table

\* No connection is the mark of a free lock.
LEMMA FreeLock == NoConn \notin Conn
  BY EnforcerAssumption DEF NoConn, Conn

\* The deadlines an addition, a rollback and a deletion write are deadlines.
LEMMA Deadlines ==
    ASSUME EnforcerTypeOK
    PROVE  /\ Absent \in Absent .. Perm /\ 1 \in Absent .. Perm
           /\ Set \in [Elem -> Absent .. Perm]
           /\ \A t \in 0 .. MaxTTL : Deadline(t) \in 1 .. Perm
           /\ \A d \in Absent .. Perm : Aged(d) \in Absent .. Perm
  BY EnforcerAssumption DEF EnforcerTypeOK, Set, Deadline, Aged, Absent, Perm, Forever

\* An addition changes no other element, and not the timer of a live one.
LEMMA AddedIs ==
    ASSUME EnforcerTypeOK, NEW e \in Elem, NEW t \in 0 .. MaxTTL
    PROVE  /\ Added(e, Deadline(t)) \in [Elem -> Absent .. Perm]
           /\ \A x \in Elem \ {e} : Added(e, Deadline(t))[x] = Set[x]
           /\ Added(e, Deadline(t))[e] = IF Live(Set[e]) THEN Set[e] ELSE Deadline(t)
<1>1. Set \in [Elem -> Absent .. Perm] /\ Deadline(t) \in Absent .. Perm
  BY Deadlines DEF Absent, Perm
<1> QED
  BY <1>1 DEF Added

\* The reply leaves the connection idle and every other one as it was.
LEMMA OutcomeIs ==
    ASSUME TypeInv, NEW k \in Conn, NEW code, Outcome(k, code),
           code = "covered" /\ k = "sync" => elem[k] \in Want
    PROVE  /\ pc' = [pc EXCEPT ![k] = "idle"]
           /\ elem' = [elem EXCEPT ![k] = {}]
           /\ old' = [old EXCEPT ![k] = Absent]
           /\ ttl' = [ttl EXCEPT ![k] = Forever]
           /\ stale' = stale
           /\ toAdd' \subseteq Want /\ covered' \subseteq Want
           /\ toDel' \subseteq Elem /\ removed' \in BOOLEAN
<1> USE DEF TypeInv, EnforcerTypeOK, Outcome, Done, Goto, syncVars
<1>1. CASE k # "sync"
  BY <1>1
<1>2. CASE k = "sync"
  BY <1>2
<1> QED
  BY <1>1, <1>2
-----------------------------------------------------------------------------
(* Types and the discipline of mutateMu. *)

\* A step that ends a verb keeps the types and the lock discipline.
LEMMA EndType ==
    ASSUME TypeInv, NEW k \in Conn, pc[k] \in Verb, NEW code, Outcome(k, code),
           code = "covered" /\ k = "sync" => elem[k] \in Want,
           Unlock, UNCHANGED <<table, pinned, configured, calm>>,
           kernel' \in [Table -> [Elem -> Absent .. Perm]],
           cache' \in [Elem -> Absent .. Perm], revived' \in BOOLEAN
    PROVE  TypeInv'
<1> USE DEF TypeInv, EnforcerTypeOK
<1>0. /\ pc' = [pc EXCEPT ![k] = "idle"]
      /\ elem' = [elem EXCEPT ![k] = {}]
      /\ old' = [old EXCEPT ![k] = Absent]
      /\ ttl' = [ttl EXCEPT ![k] = Forever]
      /\ stale' = stale
      /\ toAdd' \subseteq Want /\ covered' \subseteq Want
      /\ toDel' \subseteq Elem /\ removed' \in BOOLEAN
  BY OutcomeIs
<1>1. EnforcerTypeOK'
  BY <1>0, EnforcerAssumption DEF Unlock, Step, Absent, Perm, Forever
<1>2. LockOK'
  BY <1>0 DEF LockOK, Step, Verb, Named, Adding
<1> QED
  BY <1>1, <1>2

\* A step from one label of a verb to the next keeps them too.
LEMMA MoveType ==
    ASSUME TypeInv, NEW k \in Conn, pc[k] \in Verb, NEW l \in Verb, Goto(k, l),
           l \in Named => pc[k] \in Named,
           l \in Adding \cup {"add_del", "add_cache"} =>
               pc[k] \in Adding \cup {"add_del", "add_cache"},
           UNCHANGED <<mutateMu, table, pinned, reqVars, syncVars, envVars>>,
           kernel' \in [Table -> [Elem -> Absent .. Perm]],
           cache' \in [Elem -> Absent .. Perm]
    PROVE  TypeInv'
<1> USE EnforcerAssumption DEF TypeInv, EnforcerTypeOK, LockOK, Goto, reqVars, syncVars, envVars,
        Step, Verb
<1>1. EnforcerTypeOK'
  OBVIOUS
<1>2. LockOK'
  OBVIOUS
<1> QED
  BY <1>1, <1>2

\* Every nft invocation and cache write of a verb keeps the types and the
\* lock discipline.
LEMMA VerbType ==
    ASSUME TypeInv, NEW k \in Conn, VerbStep(k)
    PROVE  TypeInv'
<1>0. /\ Set \in [Elem -> Absent .. Perm]
      /\ pc[k] \in Named => elem[k] \in Elem
      /\ ttl[k] \in 0 .. MaxTTL /\ old[k] \in Absent .. Perm
      /\ kernel \in [Table -> [Elem -> Absent .. Perm]]
      /\ cache \in [Elem -> Absent .. Perm] /\ revived \in BOOLEAN
  BY Deadlines DEF TypeInv, EnforcerTypeOK, LockOK
<1>00. /\ \A e \in Elem, d \in Absent .. Perm : [Set EXCEPT ![e] = d] \in [Elem -> Absent .. Perm]
       /\ \A e \in Elem, d \in Absent .. Perm : [cache EXCEPT ![e] = d] \in [Elem -> Absent .. Perm]
       /\ [e \in Elem |-> Absent] \in [Elem -> Absent .. Perm]
       /\ Absent \in Absent .. Perm /\ 1 \in Absent .. Perm /\ Deadline(ttl[k]) \in Absent .. Perm
  BY <1>0, Deadlines DEF TypeInv, Absent, Perm
<1> USE <1>0, <1>00, InTableIs DEF Step, Verb, Named, Adding
<1>1. CASE AddDel(k)
  <2>1. CASE InTable([Set EXCEPT ![elem[k]] = Absent]) /\ Goto(k, "add_exec")
             /\ UNCHANGED <<mutateMu, reqVars, syncVars>>
    BY <1>1, <2>1, MoveType DEF AddDel, TypeInv
  <2>2. CASE Unlock /\ Outcome(k, "error") /\ UNCHANGED kernel
    BY <1>1, <2>2, EndType DEF AddDel, envVars
  <2> QED
    BY <1>1, <2>1, <2>2 DEF AddDel
<1>2. CASE AddExec(k)
  <2>1. CASE InTable(Added(elem[k], Deadline(ttl[k]))) /\ Goto(k, "add_cache")
             /\ UNCHANGED <<mutateMu, reqVars, syncVars>>
    BY <1>2, <2>1, MoveType, AddedIs DEF AddExec, TypeInv
  <2>2. CASE Goto(k, IF Cardinality(elem[k]) = 1 THEN "add_covered" ELSE "absorb")
             /\ UNCHANGED <<kernel, mutateMu, reqVars, syncVars>>
    BY <1>2, <2>2, MoveType DEF AddExec
  <2>3. CASE AddFailed(k) /\ UNCHANGED kernel
    <3>1. CASE old[k] # Absent
      BY <1>2, <2>3, <3>1, MoveType DEF AddExec, AddFailed
    <3>2. CASE old[k] = Absent
      BY <1>2, <2>3, <3>2, EndType DEF AddExec, AddFailed, envVars
    <3> QED
      BY <3>1, <3>2
  <2> QED
    BY <1>2, <2>1, <2>2, <2>3 DEF AddExec
<1>3. CASE Absorb(k)
  <2>1. ASSUME NEW x \in Contained(elem[k]), InTable([Set EXCEPT ![x] = Absent]),
               CacheIs(x, Absent), UNCHANGED <<pc, mutateMu, reqVars, syncVars>>
        PROVE TypeInv'
    <3>1. x \in Elem /\ Goto(k, "absorb")
      BY <1>3, <2>1 DEF Absorb, Contained, Goto, TypeInv, EnforcerTypeOK
    <3> QED
      BY <1>3, <2>1, <3>1, MoveType DEF Absorb, CacheIs, TypeInv
  <2>2. CASE InTable(Added(elem[k], Deadline(ttl[k]))) /\ Goto(k, "add_cache")
             /\ UNCHANGED <<cache, mutateMu, reqVars, syncVars>>
    BY <1>3, <2>2, MoveType, AddedIs DEF Absorb, TypeInv
  <2>3. CASE AddFailed(k) /\ UNCHANGED <<kernel, cache>>
    <3>1. CASE old[k] # Absent
      BY <1>3, <2>3, <3>1, MoveType DEF Absorb, AddFailed
    <3>2. CASE old[k] = Absent
      BY <1>3, <2>3, <3>2, EndType DEF Absorb, AddFailed, envVars
    <3> QED
      BY <3>1, <3>2
  <2> QED
    BY <1>3, <2>1, <2>2, <2>3 DEF Absorb
<1>4. CASE AddUndo(k)
  <2>1. revived' \in BOOLEAN
    BY <1>4 DEF AddUndo, Revives
  <2>2. kernel' \in [Table -> [Elem -> Absent .. Perm]]
    BY <1>4 DEF AddUndo, TypeInv
  <2>3. cache' \in [Elem -> Absent .. Perm]
    BY <1>4 DEF AddUndo, CacheIs
  <2> QED
    BY <1>4, <2>1, <2>2, <2>3, EndType DEF AddUndo
<1>5. CASE AddCache(k)
  <2>1. pc[k] = "add_covered" /\ k = "sync" => elem[k] \in Want
    BY DEF TypeInv, LockOK
  <2>2. cache' \in [Elem -> Absent .. Perm]
    BY <1>5 DEF AddCache, CacheIs
  <2> QED
    BY <1>5, <2>1, <2>2, EndType DEF AddCache, envVars
<1>6. CASE DelExec(k)
  <2>1. CASE InTable([Set EXCEPT ![elem[k]] = Absent])
             /\ Goto(k, IF Live(Set[elem[k]]) THEN "del_cache" ELSE "del_absent")
             /\ UNCHANGED <<mutateMu, reqVars, syncVars>>
    BY <1>6, <2>1, MoveType DEF DelExec, TypeInv
  <2>2. CASE Unlock /\ Outcome(k, "error") /\ UNCHANGED kernel
    BY <1>6, <2>2, EndType DEF DelExec, envVars
  <2> QED
    BY <1>6, <2>1, <2>2 DEF DelExec
<1>7. CASE DelCache(k)
  BY <1>7, EndType DEF DelCache, CacheIs, envVars
<1>8. CASE FlushExec(k)
  <2>1. CASE InTable([e \in Elem |-> Absent]) /\ Goto(k, "flush_cache") /\ UNCHANGED mutateMu
    BY <1>8, <2>1, MoveType DEF FlushExec, TypeInv
  <2>2. CASE Unlock /\ Goto(k, "idle") /\ UNCHANGED kernel
    BY <1>8, <2>2 DEF FlushExec, TypeInv, EnforcerTypeOK, LockOK, Unlock, Goto,
                      reqVars, syncVars, envVars
  <2> QED
    BY <1>8, <2>1, <2>2 DEF FlushExec
<1>9. CASE FlushCache(k)
  BY <1>9 DEF FlushCache, TypeInv, EnforcerTypeOK, LockOK, Unlock, Goto,
              reqVars, syncVars, envVars
<1> QED
  BY <1>1, <1>2, <1>3, <1>4, <1>5, <1>6, <1>7, <1>8, <1>9 DEF VerbStep

\* Requests, the steps of a reconcile, time and the host keep them as well.
LEMMA RequestType ==
    ASSUME TypeInv,
           \/ \E k \in Client : ClientRequest(k) \/ LocalFlush(k)
           \/ SyncStep
           \/ SwitchNames(configured) \/ Rejected
           \/ Tick \/ Restart \/ Calm
    PROVE  TypeInv'
<1> USE EnforcerAssumption DEF TypeInv, EnforcerTypeOK, LockOK, Step, Verb, Named, Adding, Conn,
        Goto, serverVars, reqVars, syncVars, envVars
<1>1. CASE \E k \in Client : ClientRequest(k)
  <2>1. PICK k \in Client : ClientRequest(k)
    BY <1>1
  <2>2. CASE \E e \in Elem, t \in 0 .. MaxTTL : AddStart(k, e, t)
    <3>1. EnforcerTypeOK'
      BY <2>1, <2>2 DEF ClientRequest, AddStart
    <3>2. LockOK'
      BY FreeLock, <2>1, <2>2 DEF ClientRequest, AddStart
    <3> QED
      BY <3>1, <3>2
  <2>3. CASE \E e \in Elem : DelStart(k, e)
    <3>1. EnforcerTypeOK'
      BY <2>1, <2>3 DEF ClientRequest, DelStart
    <3>2. LockOK'
      BY FreeLock, <2>1, <2>3 DEF ClientRequest, DelStart
    <3> QED
      BY <3>1, <3>2
  <2> QED
    BY <2>1, <2>2, <2>3 DEF ClientRequest
<1>2. CASE \E k \in Client : LocalFlush(k)
  BY <1>2, FreeLock DEF LocalFlush, FlushStart
<1>3. CASE SyncList
  BY <1>3 DEF SyncList, Listed
<1>4. CASE ListPrune
  BY <1>4 DEF ListPrune, Absent, Perm
<1>5. CASE SyncAdd
  <2>1. EnforcerTypeOK'
    BY <1>5 DEF SyncAdd, AddStart, Forever
  <2>2. LockOK'
    BY FreeLock, <1>5 DEF SyncAdd, AddStart
  <2> QED
    BY <2>1, <2>2
<1>6. CASE SyncDel
  <2>1. EnforcerTypeOK'
    BY <1>6 DEF SyncDel, DelStart
  <2>2. LockOK'
    BY FreeLock, <1>6 DEF SyncDel, DelStart
  <2> QED
    BY <2>1, <2>2
<1>7. CASE SyncCovered
  BY <1>7 DEF SyncCovered
<1>8. CASE SwitchNames(configured)
  BY <1>8 DEF SwitchNames, Absent, Perm
<1>9. CASE Rejected
  BY <1>9 DEF Rejected, vars
<1>10. CASE Tick
  <2>1. EnforcerTypeOK'
    BY <1>10, Deadlines DEF Tick
  <2>2. LockOK'
    BY <1>10 DEF Tick
  <2> QED
    BY <2>1, <2>2
<1>11. CASE Restart
  <2>0. "default" \in Table /\ Absent \in Absent .. Perm /\ Forever \in 0 .. MaxTTL
    BY DEF Table, Absent, Perm, Forever
  <2>1. cache' \in [Elem -> Absent .. Perm]
    BY <1>11, <2>0 DEF Restart
  <2>2. /\ pc' \in [Conn -> Step] /\ elem' \in [Conn -> Elem \cup {{}}]
        /\ ttl' \in [Conn -> 0 .. MaxTTL] /\ old' \in [Conn -> Absent .. Perm]
    BY <1>11, <2>0 DEF Restart
  <2>3. EnforcerTypeOK'
    BY <1>11, <2>0, <2>1, <2>2 DEF Restart
  <2>4. LockOK'
    BY <1>11 DEF Restart
  <2> QED
    BY <2>3, <2>4
<1>12. CASE Calm
  BY <1>12 DEF Calm
<1> QED
  BY <1>1, <1>2, <1>3, <1>4, <1>5, <1>6, <1>7, <1>8, <1>9, <1>10, <1>11, <1>12 DEF SyncStep
-----------------------------------------------------------------------------
(* Agreement of cache and kernel. *)

\* The labels at which cache and kernel may disagree about the named element.
Between == Adding \cup Gone \cup {"add_cache"}

\* While a verb is at work no other one is, and all elements agree but the
\* one it has half done.
LEMMA AloneAtWork ==
    ASSUME EnforcerInv, NEW k \in Conn, pc[k] \in Verb
    PROVE  /\ \A j \in Conn : j # k => pc[j] \notin Verb
           /\ \A e \in Elem : \/ Agree(e)
                              \/ pc[k] \in Between /\ elem[k] = e
                              \/ pc[k] = "flush_cache"
<1>1. \A j \in Conn : j # k => pc[j] \notin Verb
  BY DEF EnforcerInv, TypeInv, LockOK
<1>2. \A e \in Elem : Disturbed(e) => \/ pc[k] \in Between /\ elem[k] = e
                                      \/ pc[k] = "flush_cache"
  BY <1>1 DEF Disturbed, Between, Adding, Gone, Verb, Step
<1> QED
  BY <1>1, <1>2 DEF EnforcerInv, AgreeOK

\* A verb that ends when all elements agree leaves nothing in hand.
LEMMA EndAgrees ==
    ASSUME EnforcerInv, NEW k \in Conn, pc[k] \in Verb,
           pc' = [pc EXCEPT ![k] = "idle"], \A e \in Elem : Agree(e)'
    PROVE  HandsOK' /\ AgreeOK'
<1>1. \A j \in Conn : pc'[j] \notin Verb
  BY AloneAtWork DEF EnforcerInv, TypeInv, EnforcerTypeOK, Verb
<1> QED
  BY <1>1 DEF HandsOK, AgreeOK, Verb, Step, Adding, Gone

\* A verb that goes on to label l owes what HandsOK says of l, and agreement
\* about all elements but the one it names.
LEMMA MoveAgrees ==
    ASSUME EnforcerInv, NEW k \in Conn, pc[k] \in Verb, NEW l \in Verb, Goto(k, l),
           l = "add_del" => OldOK(k)', l \in Adding => AddHands(k)',
           l = "add_cache" => AddedHands(k)', l \in Gone => GoneHands(k)',
           l = "flush_cache" => \A e \in Elem : ~Live(Set[e])',
           \A e \in Elem : \/ Agree(e)'
                           \/ l \in Between /\ elem'[k] = e
                           \/ l = "flush_cache"
    PROVE  HandsOK' /\ AgreeOK'
<1>0. pc'[k] = l /\ \A j \in Conn : j # k => pc'[j] \notin Verb
  BY AloneAtWork DEF EnforcerInv, TypeInv, EnforcerTypeOK, Goto
<1>1. HandsOK'
  BY <1>0 DEF HandsOK, Verb, Step, Adding, Gone
<1>2. AgreeOK'
  BY <1>0 DEF AgreeOK, Disturbed, Between
<1> QED
  BY <1>1, <1>2

\* The steps of an addition: the old element goes, the new one is tried, a
\* prefix absorbs, a failure restores, and the cache follows.
LEMMA AddAgrees ==
    ASSUME EnforcerInv, NEW k \in Conn,
           AddDel(k) \/ AddExec(k) \/ Absorb(k) \/ AddUndo(k) \/ AddCache(k)
    PROVE  HandsOK' /\ AgreeOK'
<1>0. /\ Set \in [Elem -> Absent .. Perm] /\ cache \in [Elem -> Absent .. Perm]
      /\ EnforcerTypeOK /\ TypeInv
      /\ pc[k] \in Named => elem[k] \in Elem
      /\ ttl[k] \in 0 .. MaxTTL /\ old[k] \in Absent .. Perm /\ revived \in BOOLEAN
      /\ pc \in [Conn -> Step]
  BY Deadlines DEF EnforcerInv, TypeInv, EnforcerTypeOK, LockOK
<1>00. /\ \A e \in Elem, d \in Absent .. Perm : [Set EXCEPT ![e] = d] \in [Elem -> Absent .. Perm]
       /\ Absent \in Absent .. Perm /\ 1 \in Absent .. Perm /\ Deadline(ttl[k]) \in 1 .. Perm
  BY <1>0, Deadlines
<1>h. /\ pc[k] = "add_del" => OldOK(k)
      /\ pc[k] \in Adding => AddHands(k)
      /\ pc[k] = "add_cache" => AddedHands(k)
  BY DEF EnforcerInv, HandsOK
<1>a. pc[k] \in Verb => \A e \in Elem : \/ Agree(e)
                                        \/ pc[k] \in Between /\ elem[k] = e
                                        \/ pc[k] = "flush_cache"
  BY AloneAtWork
\* An addition that fails: what follows depends on the element it replaced.
<1>f. ASSUME pc[k] \in {"add_exec", "absorb"}, AddFailed(k),
             UNCHANGED <<kernel, cache, table, pinned, envVars>>
      PROVE  HandsOK' /\ AgreeOK'
  <2>0. /\ Set' = Set /\ cache' = cache /\ revived' = revived
        /\ AddHands(k) /\ \A e \in Elem : Agree(e) \/ elem[k] = e
    BY <1>f, <1>h, <1>a DEF Set, envVars, Adding, Verb, Step
  <2>1. CASE old[k] # Absent
    <3>1. Goto(k, "add_undo") /\ elem' = elem /\ old' = old /\ ttl' = ttl
      BY <1>f, <2>1 DEF AddFailed, reqVars
    <3>2. AddHands(k)'
      BY <2>0, <2>1, <3>1 DEF AddHands, OldOK, Live
    <3>3. \A e \in Elem : Agree(e)' \/ elem'[k] = e
      BY <2>0, <3>1 DEF Agree, Live
    <3> QED
      BY <1>f, <3>1, <3>2, <3>3, MoveAgrees DEF Verb, Step, Between, Adding, Gone
  <2>2. CASE old[k] = Absent
    <3>1. pc' = [pc EXCEPT ![k] = "idle"]
      BY <1>f, <2>2 DEF AddFailed, Outcome, Done, Goto
    <3>2. \A e \in Elem : Agree(e)'
      BY <2>0, <2>2, <1>0 DEF Agree, AddHands, OldOK, Live, Perm, Absent
    <3> QED
      BY <1>f, <3>1, <3>2, EndAgrees DEF Verb, Step
  <2> QED
    BY <2>1, <2>2
\* An addition that nft takes.
<1>t. ASSUME pc[k] \in {"add_exec", "absorb"},
             InTable(Added(elem[k], Deadline(ttl[k]))), Goto(k, "add_cache"),
             UNCHANGED <<cache, table, mutateMu, reqVars, syncVars, pinned, envVars>>
      PROVE  HandsOK' /\ AgreeOK'
  <2>0. /\ elem[k] \in Elem /\ AddHands(k)
        /\ \A e \in Elem : Agree(e) \/ elem[k] = e
        /\ elem' = elem /\ ttl' = ttl /\ cache' = cache /\ revived' = revived
    BY <1>t, <1>0, <1>h, <1>a DEF Named, Verb, Step, Adding, reqVars, envVars
  <2>1. Set' = Added(elem[k], Deadline(ttl[k]))
    BY <1>t, <2>0, <1>0, InTableIs, AddedIs DEF Set
  <2>2. /\ \A x \in Elem \ {elem[k]} : Set'[x] = Set[x]
        /\ Set'[elem[k]] = IF Live(Set[elem[k]]) THEN Set[elem[k]] ELSE Deadline(ttl[k])
    BY <2>0, <2>1, <1>0, AddedIs
  <2>3. AddedHands(k)'
    <3>1. ttl[k] # Forever => Deadline(ttl[k]) = ttl[k] /\ ttl[k] # Perm
      BY <1>0, EnforcerAssumption DEF Deadline, Perm
    <3>2. ttl[k] = Forever => Deadline(ttl[k]) = Perm
      BY DEF Deadline
    <3>3. ~revived => Set'[elem[k]] = Deadline(ttl[k])
      BY <2>0, <2>2 DEF AddHands
    <3>4. Set'[elem[k]] = Perm => ttl[k] = Forever
      BY <2>0, <2>2, <3>1 DEF AddHands
    <3> QED
      BY <1>00, <2>0, <3>2, <3>3, <3>4 DEF AddedHands, Deadline, Perm
  <2>4. \A e \in Elem : Agree(e)' \/ elem'[k] = e
    BY <2>0, <2>2 DEF Agree, Live
  <2> QED
    BY <1>t, <2>3, <2>4, MoveAgrees DEF Verb, Step, Between, Adding, Gone
<1>1. CASE AddDel(k)
  <2>0. pc[k] = "add_del" /\ elem[k] \in Elem /\ \A e \in Elem : Agree(e)
    BY <1>1, <1>0, <1>a DEF AddDel, Named, Verb, Step, Between, Adding, Gone
  <2>1. CASE InTable([Set EXCEPT ![elem[k]] = Absent]) /\ Goto(k, "add_exec")
             /\ UNCHANGED <<mutateMu, reqVars, syncVars>>
    <3>1. /\ Set' = [Set EXCEPT ![elem[k]] = Absent] /\ cache' = cache
          /\ revived' = revived /\ elem' = elem /\ old' = old
      BY <1>0, <1>00, <1>1, <2>0, <2>1, InTableIs DEF AddDel, Set, reqVars, envVars
    <3>2. AddHands(k)'
      <4>1. OldOK(k)' /\ pc'[k] = "add_exec"
        BY <1>0, <1>h, <2>0, <2>1, <3>1 DEF OldOK, Goto
      <4>2. Set'[elem'[k]] = Absent
        BY <1>0, <2>0, <3>1
      <4> QED
        BY <4>1, <4>2, EnforcerAssumption DEF AddHands, Live, Absent, Perm
    <3>3. \A e \in Elem : Agree(e)' \/ elem'[k] = e
      BY <1>0, <2>0, <3>1 DEF Agree, Live
    <3> QED
      BY <2>0, <2>1, <3>2, <3>3, MoveAgrees DEF Verb, Step, Between, Adding, Gone
  <2>2. CASE Unlock /\ Outcome(k, "error") /\ UNCHANGED kernel
    <3>1. pc' = [pc EXCEPT ![k] = "idle"] /\ Set' = Set /\ cache' = cache /\ revived' = revived
      BY <1>1, <2>2 DEF AddDel, Outcome, Done, Goto, Set, envVars
    <3>2. \A e \in Elem : Agree(e)'
      BY <2>0, <3>1 DEF Agree, Live
    <3> QED
      BY <2>0, <3>1, <3>2, EndAgrees DEF Verb, Step
  <2> QED
    BY <1>1, <2>1, <2>2 DEF AddDel
<1>2. CASE AddExec(k)
  <2>1. CASE InTable(Added(elem[k], Deadline(ttl[k]))) /\ Goto(k, "add_cache")
             /\ UNCHANGED <<mutateMu, reqVars, syncVars>>
    BY <1>2, <1>t, <2>1 DEF AddExec
  <2>2. CASE Goto(k, IF Cardinality(elem[k]) = 1 THEN "add_covered" ELSE "absorb")
             /\ UNCHANGED <<kernel, mutateMu, reqVars, syncVars>>
    <3>1. /\ Set' = Set /\ cache' = cache /\ revived' = revived /\ elem' = elem /\ old' = old
          /\ pc[k] = "add_exec"
      BY <1>2, <2>2 DEF AddExec, Set, reqVars, envVars
    <3>2. AddHands(k)'
      BY <1>0, <1>h, <2>2, <3>1 DEF AddHands, OldOK, Live, Goto, Adding
    <3>3. \A e \in Elem : Agree(e)' \/ elem'[k] = e
      BY <1>a, <3>1 DEF Agree, Live, Verb, Step
    <3> QED
      BY <2>2, <3>1, <3>2, <3>3, MoveAgrees DEF Verb, Step, Between, Adding, Gone
  <2>3. CASE AddFailed(k) /\ UNCHANGED kernel
    BY <1>2, <1>f, <2>3 DEF AddExec
  <2> QED
    BY <1>2, <2>1, <2>2, <2>3 DEF AddExec
<1>3. CASE Absorb(k)
  <2>1. ASSUME NEW x \in Contained(elem[k]), InTable([Set EXCEPT ![x] = Absent]),
               CacheIs(x, Absent), UNCHANGED <<pc, mutateMu, reqVars, syncVars>>
        PROVE HandsOK' /\ AgreeOK'
    <3>0. /\ x \in Elem /\ x # elem[k] /\ pc[k] = "absorb" /\ elem[k] \in Elem
          /\ AddHands(k) /\ \A e \in Elem : Agree(e) \/ elem[k] = e
      BY <1>0, <1>3, <1>h, <1>a, <2>1 DEF Absorb, Contained, Named, Verb, Step, Adding
    <3>1. /\ Set' = [Set EXCEPT ![x] = Absent] /\ cache' = [cache EXCEPT ![x] = Absent]
          /\ revived' = revived /\ elem' = elem /\ old' = old /\ pc' = pc
      BY <1>0, <1>00, <1>3, <2>1, <3>0, InTableIs DEF Absorb, Set, CacheIs, reqVars, envVars
    <3>2. AddHands(k)'
      BY <1>0, <3>0, <3>1 DEF AddHands, OldOK, Live
    <3>3. \A e \in Elem : Agree(e)' \/ elem'[k] = e
      BY <1>0, <3>0, <3>1, EnforcerAssumption DEF Agree, Live, Absent, Perm
    <3>4. Goto(k, "absorb")
      BY <1>0, <3>0, <3>1 DEF Goto
    <3> QED
      BY <3>0, <3>2, <3>3, <3>4, MoveAgrees DEF Verb, Step, Between, Adding, Gone
  <2>2. CASE InTable(Added(elem[k], Deadline(ttl[k]))) /\ Goto(k, "add_cache")
             /\ UNCHANGED <<cache, mutateMu, reqVars, syncVars>>
    BY <1>3, <1>t, <2>2 DEF Absorb
  <2>3. CASE AddFailed(k) /\ UNCHANGED <<kernel, cache>>
    BY <1>3, <1>f, <2>3 DEF Absorb
  <2> QED
    BY <1>3, <2>1, <2>2, <2>3 DEF Absorb
<1>4. CASE AddUndo(k)
  <2>0. /\ pc[k] = "add_undo" /\ elem[k] \in Elem /\ AddHands(k)
        /\ \A e \in Elem : Agree(e) \/ elem[k] = e
        /\ pc' = [pc EXCEPT ![k] = "idle"] /\ table' = table
        /\ revived => revived' /\ revived' \in BOOLEAN
    BY <1>0, <1>4, <1>h, <1>a DEF AddUndo, Named, Verb, Step, Adding, Outcome, Done, Goto, Revives
  <2>1. CASE InTable([Set EXCEPT ![elem[k]] = IF Live(old[k]) THEN old[k] ELSE 1])
             /\ UNCHANGED cache
    <3>1. Set' = [Set EXCEPT ![elem[k]] = IF Live(old[k]) THEN old[k] ELSE 1]
      BY <1>0, <1>00, <2>0, <2>1, InTableIs DEF Set
    <3>2. ~Live(old[k]) => revived'
      <4>1. SUFFICES ASSUME ~Live(old[k]), ~revived PROVE kernel' # kernel
        BY <1>4, <2>0 DEF AddUndo, Revives
      <4>2. Set'[elem[k]] = 1 /\ Set[elem[k]] # 1
        BY <1>0, <2>0, <3>1, <4>1 DEF AddHands, Live
      <4> QED
        BY <2>0, <4>2 DEF Set
    <3>3. \A e \in Elem : e = elem[k] => Agree(e)'
      BY <1>0, <2>0, <2>1, <3>1, <3>2, EnforcerAssumption DEF Agree, AddHands, OldOK, Live, Perm, Absent
    <3>4. \A e \in Elem : e # elem[k] => Agree(e)'
      BY <1>0, <2>0, <2>1, <3>1 DEF Agree, Live
    <3> QED
      BY <2>0, <3>3, <3>4, EndAgrees DEF Verb, Step
  <2>2. CASE CacheIs(elem[k], Absent) /\ UNCHANGED kernel
    <3>1. Set' = Set /\ cache' = [cache EXCEPT ![elem[k]] = Absent]
      BY <2>0, <2>2 DEF Set, CacheIs
    <3>2. \A e \in Elem : Agree(e)'
      BY <1>0, <2>0, <3>1 DEF Agree, AddHands, Live, Perm, Absent
    <3> QED
      BY <2>0, <3>2, EndAgrees DEF Verb, Step
  <2> QED
    BY <1>4, <2>1, <2>2 DEF AddUndo
<1>5. CASE AddCache(k)
  <2>0. /\ pc[k] \in {"add_cache", "add_covered"} /\ elem[k] \in Elem
        /\ \A e \in Elem : Agree(e) \/ elem[k] = e
        /\ pc' = [pc EXCEPT ![k] = "idle"] /\ Set' = Set /\ revived' = revived
        /\ cache' = [cache EXCEPT ![elem[k]] =
                        IF pc[k] = "add_covered" THEN Absent ELSE Deadline(ttl[k])]
    BY <1>0, <1>5, <1>a DEF AddCache, CacheIs, Named, Verb, Step, Outcome, Done, Goto, Set, envVars
  <2>1. CASE pc[k] = "add_covered"
    <3>1. \A e \in Elem : Agree(e)'
      BY <1>0, <1>h, <2>0, <2>1 DEF Agree, AddHands, Live, Perm, Absent, Adding
    <3> QED
      BY <2>0, <3>1, EndAgrees DEF Verb, Step
  <2>2. CASE pc[k] = "add_cache"
    <3>1. cache'[elem[k]] = Deadline(ttl[k])
      BY <1>0, <2>0, <2>2
    <3>2. Deadline(ttl[k]) = Perm <=> ttl[k] = Forever
      BY <1>0, EnforcerAssumption DEF Deadline, Perm
    <3>3. \A e \in Elem : e = elem[k] => Agree(e)'
      BY <1>0, <1>h, <2>0, <2>2, <3>1, <3>2 DEF Agree, AddedHands, Live
    <3>4. \A e \in Elem : e # elem[k] => Agree(e)'
      BY <1>0, <2>0 DEF Agree, Live
    <3> QED
      BY <2>0, <3>3, <3>4, EndAgrees DEF Verb, Step
  <2> QED
    BY <2>0, <2>1, <2>2
<1> QED
  BY <1>1, <1>2, <1>3, <1>4, <1>5

\* The steps of a deletion and of a flush.
LEMMA DelAgrees ==
    ASSUME EnforcerInv, NEW k \in Conn,
           DelExec(k) \/ DelCache(k) \/ FlushExec(k) \/ FlushCache(k)
    PROVE  HandsOK' /\ AgreeOK'
<1>0. /\ Set \in [Elem -> Absent .. Perm] /\ cache \in [Elem -> Absent .. Perm]
      /\ EnforcerTypeOK /\ pc \in [Conn -> Step]
      /\ pc[k] \in Named => elem[k] \in Elem
  BY Deadlines DEF EnforcerInv, TypeInv, EnforcerTypeOK, LockOK
<1>00. /\ \A e \in Elem : [Set EXCEPT ![e] = Absent] \in [Elem -> Absent .. Perm]
       /\ [e \in Elem |-> Absent] \in [Elem -> Absent .. Perm]
       /\ ~Live(Absent) /\ Absent # Perm
  BY <1>0, Deadlines, EnforcerAssumption DEF Live, Absent, Perm
<1>h. /\ pc[k] \in Gone => GoneHands(k)
      /\ pc[k] = "flush_cache" => \A e \in Elem : ~Live(Set[e])
  BY DEF EnforcerInv, HandsOK
<1>a. pc[k] \in Verb => \A e \in Elem : \/ Agree(e)
                                        \/ pc[k] \in Between /\ elem[k] = e
                                        \/ pc[k] = "flush_cache"
  BY AloneAtWork
<1>d. \A d : d = Perm => Live(d)
  BY EnforcerAssumption DEF Perm, Live
\* An invocation that fails has changed nothing.
<1>f. ASSUME pc[k] \in {"del_exec", "flush_exec"}, pc' = [pc EXCEPT ![k] = "idle"],
             UNCHANGED <<kernel, cache, table, revived>>
      PROVE  HandsOK' /\ AgreeOK'
  <2>1. Set' = Set /\ \A e \in Elem : Agree(e)
    BY <1>a, <1>f DEF Set, Verb, Step, Between, Adding, Gone
  <2>2. \A e \in Elem : Agree(e)'
    BY <1>f, <2>1 DEF Agree, Live
  <2> QED
    BY <1>f, <2>2, EndAgrees DEF Verb, Step
<1>1. CASE DelExec(k)
  <2>0. pc[k] = "del_exec" /\ elem[k] \in Elem /\ \A e \in Elem : Agree(e)
    BY <1>1, <1>0, <1>a DEF DelExec, Named, Verb, Step, Between, Adding, Gone
  <2>1. CASE InTable([Set EXCEPT ![elem[k]] = Absent])
             /\ Goto(k, IF Live(Set[elem[k]]) THEN "del_cache" ELSE "del_absent")
             /\ UNCHANGED <<mutateMu, reqVars, syncVars>>
    <3>1. /\ Set' = [Set EXCEPT ![elem[k]] = Absent] /\ cache' = cache
          /\ revived' = revived /\ elem' = elem
      BY <1>0, <1>00, <1>1, <2>0, <2>1, InTableIs DEF DelExec, Set, reqVars, envVars
    <3>2. GoneHands(k)'
      BY <1>0, <1>00, <2>0, <3>1 DEF GoneHands, Live
    <3>3. \A e \in Elem : Agree(e)' \/ elem'[k] = e
      BY <1>0, <2>0, <3>1 DEF Agree, Live
    <3> QED
      BY <2>0, <2>1, <3>2, <3>3, MoveAgrees DEF Verb, Step, Between, Adding, Gone
  <2>2. CASE Outcome(k, "error") /\ UNCHANGED kernel
    BY <1>1, <1>f, <2>2 DEF DelExec, Outcome, Done, Goto, envVars
  <2> QED
    BY <1>1, <2>1, <2>2 DEF DelExec
<1>2. CASE DelCache(k)
  <2>0. /\ pc[k] \in Gone /\ elem[k] \in Elem
        /\ \A e \in Elem : Agree(e) \/ elem[k] = e
        /\ pc' = [pc EXCEPT ![k] = "idle"] /\ Set' = Set /\ revived' = revived
        /\ cache' = [cache EXCEPT ![elem[k]] = Absent]
    BY <1>0, <1>2, <1>a DEF DelCache, CacheIs, Named, Verb, Step, Gone, Outcome, Done, Goto,
                            Set, envVars
  <2>1. \A e \in Elem : e = elem[k] => Agree(e)'
    BY <1>0, <1>00, <1>d, <1>h, <2>0 DEF Agree, GoneHands
  <2>2. \A e \in Elem : e # elem[k] => Agree(e)'
    BY <1>0, <2>0 DEF Agree, Live
  <2> QED
    BY <2>0, <2>1, <2>2, EndAgrees DEF Verb, Step, Gone
<1>3. CASE FlushExec(k)
  <2>1. CASE InTable([e \in Elem |-> Absent]) /\ Goto(k, "flush_cache") /\ UNCHANGED mutateMu
    <3>1. Set' = [e \in Elem |-> Absent]
      BY <1>0, <1>00, <1>3, <2>1, InTableIs DEF FlushExec, Set
    <3>2. \A e \in Elem : ~Live(Set[e])'
      BY <1>00, <3>1 DEF Live
    <3> QED
      BY <1>3, <2>1, <3>2, MoveAgrees DEF FlushExec, Verb, Step, Between, Adding, Gone
  <2>2. CASE Goto(k, "idle") /\ UNCHANGED kernel
    BY <1>3, <1>f, <2>2 DEF FlushExec, Goto, envVars
  <2> QED
    BY <1>3, <2>1, <2>2 DEF FlushExec
<1>4. CASE FlushCache(k)
  <2>0. /\ pc[k] = "flush_cache" /\ pc' = [pc EXCEPT ![k] = "idle"]
        /\ Set' = Set /\ cache' = [e \in Elem |-> Absent]
    BY <1>4 DEF FlushCache, Goto, Set
  <2>1. \A e \in Elem : Agree(e)'
    BY <1>0, <1>00, <1>d, <1>h, <2>0 DEF Agree
  <2> QED
    BY <2>0, <2>1, EndAgrees DEF Verb, Step
<1> QED
  BY <1>1, <1>2, <1>3, <1>4

\* A request takes the lock; a `list` reads, and prunes what has no deadline
\* left; a second passes; the first request may switch the table; the helper
\* may die.
LEMMA RequestAgrees ==
    ASSUME EnforcerInv,
           \/ \E k \in Client : ClientRequest(k) \/ LocalFlush(k)
           \/ SyncStep
           \/ SwitchNames(configured) \/ Rejected
           \/ Tick \/ Restart \/ Calm
    PROVE  HandsOK' /\ AgreeOK'
<1>0. /\ Set \in [Elem -> Absent .. Perm] /\ cache \in [Elem -> Absent .. Perm]
      /\ pc \in [Conn -> Step] /\ elem \in [Conn -> Elem \cup {{}}]
      /\ old \in [Conn -> Absent .. Perm] /\ ttl \in [Conn -> 0 .. MaxTTL]
      /\ "sync" \in Conn /\ Client \subseteq Conn /\ revived \in BOOLEAN
      /\ HandsOK /\ AgreeOK /\ LockOK
  BY Deadlines DEF EnforcerInv, TypeInv, EnforcerTypeOK, Conn
\* A request that takes the lock finds every element agreed.
<1>s. ASSUME NEW k \in Conn, NEW l \in {"add_del", "add_exec", "del_exec", "flush_exec"},
             mutateMu = NoConn, Goto(k, l), UNCHANGED <<kernel, cache, table, revived>>,
             l \in {"add_del", "add_exec"} =>
                /\ elem'[k] \in Elem /\ old'[k] = cache[elem'[k]]
                /\ l = "add_exec" => cache[elem'[k]] = Absent
      PROVE  HandsOK' /\ AgreeOK'
  <2>1. \A j \in Conn : pc[j] \notin Verb
    BY <1>0, <1>s, FreeLock DEF LockOK
  <2>2. \A e \in Elem : Agree(e)
    BY <1>0, <2>1 DEF AgreeOK, Disturbed, Verb, Step, Adding, Gone
  <2>3. Set' = Set /\ cache' = cache /\ revived' = revived
    BY <1>s DEF Set
  <2>4. \A e \in Elem : Agree(e)'
    BY <2>2, <2>3 DEF Agree, Live
  <2>5. pc'[k] = l /\ \A j \in Conn : j # k => pc'[j] \notin Verb
    BY <1>0, <1>s, <2>1 DEF Goto
  <2>6. l = "add_del" => OldOK(k)'
    BY <1>s, <2>3 DEF OldOK
  <2>7. l = "add_exec" => AddHands(k)'
    BY <1>0, <1>s, <2>2, <2>3, <2>5, EnforcerAssumption
    DEF AddHands, OldOK, Agree, Live, Absent, Perm
  <2>8. HandsOK'
    BY <2>5, <2>6, <2>7 DEF HandsOK, Verb, Step, Adding, Gone
  <2> QED
    BY <2>4, <2>8 DEF AgreeOK
\* A step that touches neither the sets nor what a verb holds.
<1>u. ASSUME UNCHANGED <<kernel, cache, table, revived, elem, ttl, old>>,
             \A j \in Conn : pc[j] \in Verb \/ pc'[j] \in Verb => pc'[j] = pc[j]
      PROVE  HandsOK' /\ AgreeOK'
  <2>1. Set' = Set
    BY <1>u DEF Set
  <2>2. HandsOK'
    <3>1. \A j \in Conn : /\ OldOK(j)' <=> OldOK(j)
                          /\ AddedHands(j)' <=> AddedHands(j)
                          /\ GoneHands(j)' <=> GoneHands(j)
      BY <1>u, <2>1 DEF OldOK, AddedHands, GoneHands, Live, Deadline
    <3>2. \A j \in Conn : AddHands(j) /\ pc'[j] = pc[j] => AddHands(j)'
      BY <1>u, <2>1, <3>1 DEF AddHands, Live
    <3> QED
      BY <1>0, <1>u, <2>1, <3>1, <3>2 DEF HandsOK, Verb, Step, Adding, Gone, Live
  <2>3. AgreeOK'
    <3>1. \A e \in Elem : Agree(e) => Agree(e)'
      BY <1>u, <2>1 DEF Agree, Live
    <3>2. \A e \in Elem : Disturbed(e) => Disturbed(e)'
      BY <1>u DEF Disturbed, Verb, Step, Adding, Gone
    <3> QED
      BY <1>0, <3>1, <3>2 DEF AgreeOK
  <2> QED
    BY <2>2, <2>3
\* The helper loads its cache from the table it will work on.
<1>l. ASSUME \A j \in Conn : pc'[j] \notin Verb,
             \A e \in Elem : /\ Set'[e] \in Absent .. Perm
                             /\ cache'[e] = IF Live(Set'[e]) THEN Set'[e] ELSE Absent
      PROVE  HandsOK' /\ AgreeOK'
  <2>1. \A e \in Elem : Agree(e)'
    BY <1>l, EnforcerAssumption DEF Agree, Live, Absent, Perm
  <2>2. HandsOK'
    BY <1>l DEF HandsOK, Verb, Step, Adding, Gone
  <2> QED
    BY <2>1, <2>2 DEF AgreeOK
<1>1. ASSUME NEW k \in Conn, NEW e \in Elem, NEW t, AddStart(k, e, t)
      PROVE  HandsOK' /\ AgreeOK'
  <2>1. elem'[k] = e /\ old'[k] = cache[e] /\ e \in Elem
    BY <1>0, <1>1 DEF AddStart
  <2>2. CASE cache[e] # Absent
    BY <1>1, <1>s, <2>1, <2>2 DEF AddStart, envVars
  <2>3. CASE cache[e] = Absent
    BY <1>1, <1>s, <2>1, <2>3 DEF AddStart, envVars
  <2> QED
    BY <2>2, <2>3
<1>2. ASSUME NEW k \in Conn, NEW e \in Elem, DelStart(k, e)
      PROVE  HandsOK' /\ AgreeOK'
  BY <1>2, <1>s DEF DelStart, envVars
<1>3. ASSUME NEW k \in Client, ClientRequest(k)
      PROVE  HandsOK' /\ AgreeOK'
  BY <1>0, <1>1, <1>2, <1>3 DEF ClientRequest
<1>4. ASSUME NEW k \in Client, LocalFlush(k)
      PROVE  HandsOK' /\ AgreeOK'
  BY <1>0, <1>4, <1>s DEF LocalFlush, FlushStart, envVars
<1>5. CASE SyncList
  BY <1>0, <1>5, <1>u DEF SyncList, Goto, Verb, Step, envVars
<1>6. CASE ListPrune
  <2>0. /\ Set' = Set /\ revived' = revived /\ elem' = elem /\ ttl' = ttl /\ old' = old
        /\ pc' = [pc EXCEPT !["sync"] = "idle"] /\ pc["sync"] = "list_prune"
        /\ \A e \in Elem : \/ cache'[e] = cache[e]
                           \/ cache[e] = 0 /\ cache'[e] = Absent
    BY <1>6 DEF ListPrune, Set, Goto, envVars
  <2>1. \A j \in Conn : pc[j] \in Verb \/ pc'[j] \in Verb => pc'[j] = pc[j]
    BY <1>0, <2>0 DEF Verb, Step
  <2>2. HandsOK'
    <3>1. \A j \in Conn : /\ elem[j] \in Elem /\ OldOK(j) => OldOK(j)'
                          /\ AddedHands(j) => AddedHands(j)'
                          /\ GoneHands(j) => GoneHands(j)'
      BY <1>0, <2>0 DEF OldOK, AddedHands, GoneHands, Live, Deadline, Absent
    <3>2. \A j \in Conn : elem[j] \in Elem /\ AddHands(j) /\ pc'[j] = pc[j] => AddHands(j)'
      BY <2>0, <3>1 DEF AddHands, Live
    <3>3. \A j \in Conn : pc[j] \in Named => elem[j] \in Elem
      BY <1>0 DEF LockOK
    <3> QED
      BY <1>0, <2>0, <2>1, <3>1, <3>2, <3>3 DEF HandsOK, Named, Verb, Step, Adding, Gone, Live
  <2>3. AgreeOK'
    <3>1. \A e \in Elem : Agree(e) => Agree(e)'
      BY <1>0, <2>0, EnforcerAssumption DEF Agree, Live, Absent, Perm
    <3>2. \A e \in Elem : Disturbed(e) => Disturbed(e)'
      BY <1>0, <2>0, <2>1 DEF Disturbed, Verb, Step, Adding, Gone
    <3> QED
      BY <1>0, <3>1, <3>2 DEF AgreeOK
  <2> QED
    BY <2>2, <2>3
<1>7. CASE SyncAdd
  BY <1>0, <1>1, <1>7, EnforcerAssumption DEF SyncAdd, EnforcerInv, TypeInv, EnforcerTypeOK
<1>8. CASE SyncDel
  BY <1>0, <1>2, <1>8 DEF SyncDel, EnforcerInv, TypeInv, EnforcerTypeOK
<1>9. CASE SyncCovered
  BY <1>9, <1>u DEF SyncCovered, serverVars, reqVars, envVars
<1>10. CASE SwitchNames(configured)
  <2>1. \A j \in Conn : pc'[j] \notin Verb
    BY <1>0, <1>10 DEF SwitchNames, LockOK, Verb, Step
  <2>2. Set' = kernel[configured]
    BY <1>10 DEF SwitchNames, Set, EnforcerInv, TypeInv, EnforcerTypeOK
  <2>3. kernel[configured] \in [Elem -> Absent .. Perm]
    BY DEF EnforcerInv, TypeInv, EnforcerTypeOK
  <2> QED
    BY <1>10, <1>l, <2>1, <2>2, <2>3 DEF SwitchNames
<1>11. CASE Rejected
  BY <1>11, <1>u DEF Rejected, vars, serverVars, reqVars, envVars
<1>12. CASE Tick
  <2>0. /\ pc' = pc /\ elem' = elem /\ ttl' = ttl /\ revived' = revived
        /\ \A e \in Elem : Set'[e] = Aged(Set[e]) /\ cache'[e] = Aged(cache[e])
        /\ \A j \in Conn : old'[j] = Aged(old[j])
    BY <1>12 DEF Tick, Set, EnforcerInv, TypeInv, EnforcerTypeOK, envVars
  <2>1. \A d \in Absent .. Perm : /\ Aged(d) \in Absent .. Perm
                                  /\ Aged(d) = Perm <=> d = Perm
                                  /\ Live(Aged(d)) => Live(d)
                                  /\ Aged(d) <= d
                                  /\ Aged(d) = Absent <=> d = Absent
    BY EnforcerAssumption DEF Aged, Live, Absent, Perm
  <2>2. \A c, d \in Absent .. Perm : d <= c /\ Live(Aged(d)) => Aged(d) <= Aged(c)
    BY EnforcerAssumption DEF Aged, Live, Absent, Perm
  <2>3. Aged(0) = 0 /\ Aged(Absent) = Absent /\ 0 \in Absent .. Perm /\ Absent \in Absent .. Perm
    BY EnforcerAssumption DEF Aged, Absent, Perm
  <2>4. HandsOK'
    <3>1. \A j \in Conn : elem[j] \in Elem /\ OldOK(j) => OldOK(j)'
      BY <1>0, <2>0, <2>3 DEF OldOK
    <3>2. \A j \in Conn : elem[j] \in Elem /\ AddedHands(j) => AddedHands(j)'
      <4>1. SUFFICES ASSUME NEW j \in Conn, elem[j] \in Elem, AddedHands(j)
                     PROVE  AddedHands(j)'
        OBVIOUS
      <4>2. /\ Set[elem[j]] \in Absent .. Perm /\ Set'[elem[j]] = Aged(Set[elem[j]])
            /\ Deadline(ttl[j]) \in Absent .. Perm
        BY <1>0, <2>0, <4>1, Deadlines DEF EnforcerInv, TypeInv, Absent, Perm
      <4> QED
        BY <2>0, <2>1, <4>1, <4>2, EnforcerAssumption DEF AddedHands, Deadline, Absent, Perm
    <3>3. \A j \in Conn : elem[j] \in Elem /\ GoneHands(j) => GoneHands(j)'
      BY <1>0, <2>0, <2>1 DEF GoneHands, Live
    <3>4. \A j \in Conn : elem[j] \in Elem /\ AddHands(j) => AddHands(j)'
      BY <1>0, <2>0, <2>1, <3>1 DEF AddHands, Live
    <3>5. \A j \in Conn : pc[j] \in Named => elem[j] \in Elem
      BY <1>0 DEF LockOK
    <3>6. (\A e \in Elem : ~Live(Set[e])) => \A e \in Elem : ~Live(Set[e])'
      BY <1>0, <2>0, <2>1 DEF Live
    <3> QED
      BY <1>0, <2>0, <3>1, <3>2, <3>3, <3>4, <3>5, <3>6 DEF HandsOK, Named, Verb, Step, Adding, Gone
  <2>5. \A e \in Elem : Agree(e) => Agree(e)'
    BY <1>0, <2>0, <2>1, <2>2 DEF Agree, Live
  <2>6. \A e \in Elem : Disturbed(e) => Disturbed(e)'
    BY <2>0 DEF Disturbed
  <2> QED
    BY <1>0, <2>4, <2>5, <2>6 DEF AgreeOK
<1>13. CASE Restart
  <2>1. \A j \in Conn : pc'[j] \notin Verb
    BY <1>13 DEF Restart, Verb, Step
  <2>2. Set' = kernel["default"] /\ kernel["default"] \in [Elem -> Absent .. Perm]
    BY <1>13 DEF Restart, Set, EnforcerInv, TypeInv, EnforcerTypeOK, Table
  <2> QED
    BY <1>13, <1>l, <2>1, <2>2 DEF Restart
<1>14. CASE Calm
  BY <1>14, <1>u DEF Calm, serverVars, reqVars
<1> QED
  BY <1>3, <1>4, <1>5, <1>6, <1>7, <1>8, <1>9, <1>10, <1>11, <1>12, <1>13, <1>14 DEF SyncStep
-----------------------------------------------------------------------------

\* The invariant of the helper: types, lock discipline, what a verb has in
\* hand, and agreement about everything else, for every interleaving of
\* additions, deletions, flushes, reconciles, failing invocations, timeouts,
\* table switches and deaths of the helper.
THEOREM EnforcerInvariant == Spec => []EnforcerInv
<1>1. Init => EnforcerInv
  <2> SUFFICES ASSUME Init PROVE EnforcerInv
    OBVIOUS
  <2>0. \A e \in Want : e \in Elem
    BY EnforcerAssumption
  <2>1. /\ "default" \in Table /\ table = "default"
        /\ kernel \in [Table -> [Elem -> {Absent, Perm}]]
        /\ cache = kernel["default"]
    BY DEF Init, Table
  <2>2. {Absent, Perm} \subseteq Absent .. Perm /\ Forever \in 0 .. MaxTTL
    BY EnforcerAssumption DEF Absent, Perm, Forever
  <2>3. EnforcerTypeOK
    <3>1. kernel \in [Table -> [Elem -> Absent .. Perm]] /\ cache \in [Elem -> Absent .. Perm]
      BY <2>1, <2>2
    <3>2. /\ pc \in [Conn -> Step] /\ elem \in [Conn -> Elem \cup {{}}]
          /\ ttl \in [Conn -> 0 .. MaxTTL] /\ old \in [Conn -> Absent .. Perm]
      BY <2>2 DEF Init, Step
    <3> QED
      BY <2>1, <3>1, <3>2 DEF Init, EnforcerTypeOK
  <2>4. LockOK /\ HandsOK
    BY DEF Init, LockOK, HandsOK, Verb, Named, Step, Adding, Gone
  <2>5. \A e \in Elem : Set[e] = cache[e] /\ cache[e] \in Absent .. Perm
    BY <2>1, <2>2 DEF Set
  <2>6. AgreeOK
    BY <2>5 DEF AgreeOK, Agree, Live, Absent, Perm
  <2> QED
    BY <2>3, <2>4, <2>6 DEF EnforcerInv, TypeInv
<1>2. EnforcerInv /\ [Next]_vars => EnforcerInv'
  <2> SUFFICES ASSUME EnforcerInv, [Next]_vars PROVE EnforcerInv'
    OBVIOUS
  <2>1. ASSUME NEW k \in Conn, VerbStep(k) PROVE EnforcerInv'
    BY <2>1, VerbType, AddAgrees, DelAgrees DEF EnforcerInv, VerbStep
  <2>2. CASE \/ \E k \in Client : ClientRequest(k) \/ LocalFlush(k)
             \/ SyncStep
             \/ SwitchNames(configured) \/ Rejected
             \/ Tick \/ Restart \/ Calm
    BY <2>2, RequestType, RequestAgrees DEF EnforcerInv
  <2>3. CASE UNCHANGED vars
    <3>1. /\ UNCHANGED <<kernel, cache, mutateMu, table, pinned, pc, elem, ttl, old, stale>>
          /\ UNCHANGED <<toAdd, toDel, covered, removed, configured, calm, revived>>
      BY <2>3 DEF vars, serverVars, reqVars, syncVars, envVars
    <3>2. TypeInv'
      BY <3>1 DEF EnforcerInv, TypeInv, EnforcerTypeOK, LockOK
    <3>3. HandsOK'
      BY <3>1 DEF EnforcerInv, HandsOK, OldOK, AddHands, AddedHands, GoneHands, Set, Live, Deadline
    <3>4. AgreeOK'
      BY <3>1 DEF EnforcerInv, AgreeOK, Agree, Disturbed, Set, Live
    <3> QED
      BY <3>2, <3>3, <3>4 DEF EnforcerInv
  <2> QED
    BY <2>1, <2>2, <2>3 DEF Next
<1> QED
  BY <1>1, <1>2, PTL DEF Spec

\* Whenever no verb is at work, what the helper answers to `list` and what the
\* kernel holds agree about every permanent element, whatever failed before:
\* mutateMu, the undo of a half-done replacement and the covered reply of
\* server.go are enough for that.
THEOREM HelperAgrees == Spec => []CacheMatchesKernel
<1>1. EnforcerInv => CacheMatchesKernel
  <2> SUFFICES ASSUME EnforcerInv PROVE CacheMatchesKernel
    OBVIOUS
  <2>1. mutateMu = NoConn => \A e \in Elem : Agree(e)
    BY FreeLock DEF EnforcerInv, TypeInv, LockOK, AgreeOK, Disturbed, Verb, Step, Adding, Gone
  <2> QED
    BY <2>1 DEF EnforcerInv, TypeInv, CacheMatchesKernel, NoGhost, NoOrphan, Agree
<1> QED
  BY <1>1, EnforcerInvariant, PTL
=============================================================================

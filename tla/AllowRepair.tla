---------------------------- MODULE AllowRepair ----------------------------
(***************************************************************************)
(* When the four copies of the allowlist agree. Overlapping reloads and    *)
(* failing calls drive them apart; what brings them together again is an   *)
(* operation that reads the table afresh and re-syncs the kernel (unallow, *)
(* the sweep, startup) with nothing else running. A history variable added *)
(* to Allowlist keeps track of that.                                       *)
(***************************************************************************)
EXTENDS Allowlist

VARIABLE raced  \* history: an operation overlapped another one or a call of it
                \* failed, and no re-syncing operation has begun alone since

arVars == <<aVars, raced>>

\* A step whose call to the store or to the helper failed, wholly or in part.
CallFailed ==
    \/ \E p \in AllowProc : ReloadFail(p)
    \/ \E p \in AllowProc : ResyncPush(p) /\ allowedSet' # (allowedSet \cup snap[p]) \ (listed[p] \ snap[p])
    \/ \E c \in Conn : AllowPush(c) /\ arg[c] \notin allowedSet'

RepairInit == AllowInit /\ raced = FALSE

RepairNext ==
    \/ AllowStep /\ raced' = (raced \/ CallFailed)
    \/ \E c \in Conn : PassLift(c) /\ UNCHANGED raced
    \/ \E c \in Conn, x \in AllowTarget : AllowRequest(c, x) /\ raced' = (raced \/ ~AllowQuiet)
    \/ \E c \in Conn, x \in AllowTarget : UnallowRequest(c, x) /\ raced' = ~AllowQuiet
    \/ \E S \in SUBSET AllowTarget : ExpireAllows(S) /\ raced' = ~AllowQuiet
    \/ Restart("reload_list") /\ raced' = FALSE

RepairSpec == RepairInit /\ [][RepairNext]_arVars

\* reloadAllowlist, handleAllow, handleUnallow, runExpireAllows: as long as
\* operations neither overlap nor fail, the slice, the gate and the kernel say
\* what the table says whenever none is running, across crashes at any step; and
\* after overlaps and failures the next revocation, expiry or restart that has
\* the daemon to itself repairs whatever they left in any of the copies.
CopiesAgree == ~raced => ViewNeverLags /\ KernelMirrorExact
=============================================================================

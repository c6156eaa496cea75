---------------------------- MODULE MCAllowlist ----------------------------
(***************************************************************************)
(* Two addresses; the operators allow and revoke the policy's own entry    *)
(* and the prefix that covers both. Two connections, the sweep, crashes    *)
(* and every failure interleave freely.                                    *)
(***************************************************************************)
EXTENDS AllowRepair

CONSTANTS a1, a2

MCPrefix == {{a1}, {a2}, {a1, a2}}
MCStaticAllow == {{a2}}
MCRevocable == {{a2}, {a1, a2}}
MCGoroutine == Conn \cup {"boot", "expireAllows"}
=============================================================================

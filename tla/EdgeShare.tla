---------------------------- MODULE EdgeShare ----------------------------
(* What a Cloudflare account that several servers share expects of one     *)
(* instance: it lists addresses nobody lists yet, never a protected one,   *)
(* takes back only its own entries, and leaves everybody else's alone.     *)

CONSTANTS Addrs,      \* the addresses
          Protected,  \* the static allowlist
          Mine        \* the tags whose items this instance owns

VARIABLES listed,     \* address -> the tag of its item, or "none"
          theirs      \* the addresses somebody else keeps listed

Tags == {"none", "own", "legacy", "other"}
Tagged(T) == {a \in Addrs : listed[a] \in T}

ShareInit == listed \in [Addrs -> Tags] /\ theirs = Tagged({"other", "legacy"} \ Mine)

Put(S, tag) == listed' = [a \in Addrs |-> IF a \in S THEN tag ELSE listed[a]]

Publish == \E S \in SUBSET (Tagged({"none"}) \ Protected) : Put(S, "own") /\ UNCHANGED theirs
Withdraw == \E S \in SUBSET Tagged(Mine) : Put(S, "none") /\ UNCHANGED theirs
Others == \/ \E a \in Tagged({"none"}) : Put({a}, "other") /\ theirs' = theirs \cup {a}
          \/ \E a \in theirs : Put({a}, "none") /\ theirs' = theirs \ {a}

ShareSpec == ShareInit /\ [][Publish \/ Withdraw \/ Others]_<<listed, theirs>>
==========================================================================

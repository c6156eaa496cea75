--------------------------- MODULE MCBanLifecycle ---------------------------
\* Small instances of BanLifecycle: host prefixes of the addresses and, when
\* there are two of them, the prefix that covers both.
EXTENDS BanLifecycle, TLC

MCHosts == {{a} : a \in Address}
MCPrefix == MCHosts \cup {Address}
MCNoAllow == {}
MCSymmetry == Permutations(Worker)
MCGoroutine == Worker \cup Conn \cup Sys
=============================================================================

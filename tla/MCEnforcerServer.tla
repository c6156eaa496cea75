-------------------------- MODULE MCEnforcerServer --------------------------
\* An address that is banned for good in the store, and a prefix that covers
\* it and is not.
EXTENDS EnforcerServer

CONSTANTS a1, a2

MCElem == {{a1}, {a1, a2}}
MCWant == {{a1}}
=============================================================================

--------------------------- MODULE MCPermissions ---------------------------
(* Small instances of Permissions for TLC.                                 *)
EXTENDS Permissions

CONSTANTS c1, w1, w2, login, wide, plain, expiring

MCOneCaller == {c1}
MCAddresses == {login}
MCTrusted == {wide}
MCNoTrusted == {}
MCCoverage == [t \in TrustedTargets |-> Addresses]
MCContexts == {plain, expiring}
MCDurations == {1}
=============================================================================

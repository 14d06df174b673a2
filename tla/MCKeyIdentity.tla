---------------------------- MODULE MCKeyIdentity ----------------------------
(* An instance of KeyIdentity for TLC: both remotes, one or two hosts.         *)
EXTENDS KeyIdentity, TLC

CONSTANTS w1, w2, legacy, r1, r2, r3, r4

MCApps == {"enter_remote", "rvmc_remote"}
OneHost == {w1}
TwoHosts == {w1, w2}
MCRootKeys == {legacy, r1, r2, r3, r4}
Alike == Permutations({r1, r2, r3, r4}) \cup Permutations({w1, w2})
=============================================================================

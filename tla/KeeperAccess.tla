---------------------------- MODULE KeeperAccess ----------------------------
(***************************************************************************)
(* What the keeper set promises, with no vector in it.  Once a multisig is *)
(* named it grants and revokes executor rights one key at a time, up to    *)
(* Capacity keys.  `grants` is what the multisig has asked for; the keys   *)
(* the executor checks admit, `authorized`, follow it exactly: a grant     *)
(* admits that key, a revoke shuts out that key and no other.             *)
(***************************************************************************)
EXTENDS Naturals, FiniteSets

CONSTANTS Keys, Capacity, NoKey

VARIABLES multisig, grants, authorized

avars == <<multisig, grants, authorized>>

Initialize(ms) ==
    /\ multisig = NoKey
    /\ multisig' = ms
    /\ UNCHANGED <<grants, authorized>>

Grant(k) ==
    /\ multisig # NoKey
    /\ k \notin grants
    /\ Cardinality(grants) < Capacity
    /\ grants' = grants \cup {k}
    /\ authorized' = authorized \cup {k}
    /\ UNCHANGED multisig

Revoke(k) ==
    /\ k \in grants
    /\ grants' = grants \ {k}
    /\ authorized' = authorized \ {k}
    /\ UNCHANGED multisig

Init ==
    /\ multisig = NoKey
    /\ grants = {}
    /\ authorized = {}

Next == \E k \in Keys : Initialize(k) \/ Grant(k) \/ Revoke(k)

Spec == Init /\ [][Next]_avars
=============================================================================

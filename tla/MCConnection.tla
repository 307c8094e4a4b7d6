----------------------------- MODULE MCConnection -----------------------------
(* A small instance of Connection for TLC: three callbacks, one of them for    *)
(* errors, and two connections one after the other.                            *)
EXTENDS Connection, TLC

CONSTANTS a, b, onError

MCCallbacks == {a, b, onError}
MCOptions == {[allowRecconect |-> TRUE, maxReconnect |-> 60],
              [allowRecconect |-> TRUE, maxReconnect |-> -1],
              [allowRecconect |-> FALSE, maxReconnect |-> 60]}
Symmetry == Permutations({a, b})
MCKindOf == a :> "state" @@ b :> "state" @@ onError :> "error"
=============================================================================

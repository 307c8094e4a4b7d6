------------------------------ MODULE MCStreams ------------------------------
(* Streams with two clients and, in nanoseconds of an int64_t of 7 bits, an   *)
(* age that fits and one that overflows.                                      *)
EXTENDS Streams, TLC

CONSTANTS c1, c2

MCStreamConfigs ==
    { [subjects |-> {"s1", "s2"}, denyDelete |-> FALSE, denyPurge |-> FALSE, maxAge |-> 3,
       republish |-> [source |-> "s1", destination |-> "d", headersOnly |-> FALSE]],
      [subjects |-> {"s1", "s2"}, denyDelete |-> TRUE, denyPurge |-> TRUE, maxAge |-> 14,
       republish |-> NoRepublish] }
MCStoreConfigs == {[maxAge |-> 5]}

Symmetry == Permutations(Clients)
=============================================================================

---------------------------- MODULE MCObjectStore ----------------------------
(* Small instances of ObjectStore for TLC. *)
EXTENDS ObjectStore, TLC

CONSTANTS c1, c2, n1, n2, o1, o2, o3, oEmpty, u1, u2, u3

\* o1 and o2 replace each other under n1 (two chunks, the second one short;
\* exactly one full chunk), o3 is under n2, oEmpty has no data.
MCClients == {c1, c2}
MCOneClient == {c1}
MCNames == {n1, n2, EmptyName}
MCObjects == {o1, o2, o3, oEmpty}
MCUids == {u1, u2, u3, EmptyUid}
MCNameOf == o1 :> n1 @@ o2 :> n1 @@ o3 :> n2 @@ oEmpty :> n2
MCSizeOf == o1 :> 3 @@ o2 :> 2 @@ o3 :> 4 @@ oEmpty :> 0
MCFreshUidOf == o1 :> u1 @@ o2 :> u2 @@ o3 :> u3 @@ oEmpty :> EmptyUid

\* What callers do who leave meta.uid alone, as the README and the tests do.
MCDefaultUidOf == [o \in MCObjects |-> EmptyUid]

ClientSymmetry == Permutations(MCClients)
=============================================================================

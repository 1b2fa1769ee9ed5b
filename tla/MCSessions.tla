----------------------------- MODULE MCSessions -----------------------------
(* Model values for Sessions.  Hashes and requests are interchangeable.    *)
EXTENDS Sessions, TLC

CONSTANTS s1, h1, h2, h3, r1, r2, r3

MCSid == {s1}
MCHash == {h1, h2, h3}
MCRequest == {r1, r2, r3}
MCRequest2 == {r1, r2}
MCNoRequest == {}

MCSymmetry == Permutations(MCHash) \cup Permutations(MCRequest)
=============================================================================

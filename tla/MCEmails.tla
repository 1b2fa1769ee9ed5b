------------------------------ MODULE MCEmails --------------------------------
(* u1 is the user that is deleted, twice at that; every user may change    *)
(* its address, at any time.                                               *)
EXTENDS Emails, TLC

CONSTANTS u1, u2, u3, e1, e2, e3, t1, t2, c1, c2, d1, d2

MCTarget == [d \in Deletion |-> u1]

MCSymmetry ==
  Permutations(Email) \cup Permutations(Token) \cup Permutations(Confirmation)
    \cup Permutations(Deletion) \cup Permutations({u2, u3})
=============================================================================

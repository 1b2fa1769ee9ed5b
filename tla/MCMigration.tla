----------------------------- MODULE MCMigration ------------------------------
(* Model values for Migration: one person of the pool and one imported     *)
(* from another pool earlier, who is in this pool, too.  For the import: a *)
(* pool of three, listed in a page of two and a page of one.               *)
EXTENDS Migration, TLC

CONSTANTS p1, p2, p3, r1, r2, r3, w1, w2

MCPoolPassword == (p1 :> w1) @@ (p2 :> w1)
MCPages == <<<<p1>>, <<p2>>>>
MCThreePassword == (p1 :> w1) @@ (p2 :> w1) @@ (p3 :> w1)
MCTwoAndOne == <<<<p1, p2>>, <<p3>>>>
MCSymmetry == Permutations(Request)
=============================================================================

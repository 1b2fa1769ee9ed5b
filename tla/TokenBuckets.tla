----------------------------- MODULE TokenBuckets ------------------------------
(***************************************************************************)
(* What the two limiters of the migration promise                          *)
(* (internal/store/migrating/limiter.go): one bucket for all subjects and  *)
(* one for each, every subject remembered for ever.  A subject may be      *)
(* refused for want of room only while Room others owe tokens.             *)
(***************************************************************************)
EXTENDS Integers, FiniteSets

CONSTANTS Subject, Cost, Burst, Refill, GlobalBurst, GlobalRefill, Room

VARIABLES budget, global

vars == <<budget, global>>

Init == budget = [s \in Subject |-> Burst] /\ global = GlobalBurst

Capped(n, cap) == IF n > cap THEN cap ELSE n

Tick ==
  /\ budget' = [s \in Subject |-> Capped(budget[s] + Refill, Burst)]
  /\ global' = Capped(global + GlobalRefill, GlobalBurst)

Owing == {s \in Subject : budget[s] < Burst}

(* A call to the source, paid from both buckets. *)
Grant(s) ==
  /\ global >= Cost /\ budget[s] >= Cost
  /\ global' = global - Cost
  /\ budget' = [budget EXCEPT ![s] = budget[s] - Cost]

(* A refusal that cost the common bucket a token all the same. *)
Refuse(s) ==
  /\ global >= Cost
  /\ budget[s] < Cost \/ (s \notin Owing /\ Cardinality(Owing) >= Room)
  /\ global' = global - Cost
  /\ UNCHANGED budget

RefuseAll(s) == global < Cost /\ UNCHANGED vars

Next == Tick \/ \E s \in Subject : Grant(s) \/ Refuse(s) \/ RefuseAll(s)

Spec == Init /\ [][Next]_vars
=============================================================================

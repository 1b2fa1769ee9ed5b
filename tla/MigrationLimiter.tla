--------------------------- MODULE MigrationLimiter ----------------------------
(***************************************************************************)
(* The limiter that bounds the calls of one environment to the directory   *)
(* it migrates from (internal/store/migrating/limiter.go).                 *)
(*                                                                         *)
(* Token buckets, one for all subjects and one for each in a table of at   *)
(* most MaxSubjects; a bucket is refilled when it is looked at.  A token   *)
(* is Cost units, so that a refill of a fraction of one is an integer.     *)
(* The mutex makes allow one step.                                         *)
(***************************************************************************)
EXTENDS Integers, FiniteSets

CONSTANTS
  Subject,                   \* user ids, or normalised addresses
  Cost,                      \* units of one token
  Burst, Refill,             \* of a subject: units, and units per tick
  GlobalBurst, GlobalRefill,
  MaxSubjects,
  MaxClock                   \* bound of the model

(* What newLimiter makes of its parameters: the defaults stand in for what *)
(* is not positive.                                                        *)
newLimiter ==
  /\ Cost \in Nat \ {0}
  /\ {Burst, Refill, GlobalBurst, GlobalRefill, MaxSubjects, MaxClock} \subseteq Nat \ {0}

VARIABLES
  clock,
  global,    \* the common bucket
  tracked,   \* the subjects in the table
  bucket     \* their buckets

vars == <<clock, global, tracked, bucket>>

Bucket(cap) == [tokens: 0..cap, last: 0..MaxClock]

TypeOK ==
  /\ clock \in 0..MaxClock
  /\ global \in Bucket(GlobalBurst)
  /\ tracked \subseteq Subject
  /\ bucket \in [Subject -> Bucket(Burst)]

(* A bucket that was never looked at is full, whatever the time. *)
Init ==
  /\ clock = 0
  /\ global = [tokens |-> GlobalBurst, last |-> 0]
  /\ tracked = {}
  /\ bucket = [s \in Subject |-> [tokens |-> Burst, last |-> 0]]

Capped(n, cap) == IF n > cap THEN cap ELSE n

(* take: refilled to date, and a token less if there is one.               *)
Level(b, refill, cap) == Capped(b.tokens + (clock - b.last) * refill, cap)

Refilled(b, refill, cap) == [tokens |-> Level(b, refill, cap), last |-> clock]

Taken(b, refill, cap) ==
  [tokens |-> Level(b, refill, cap) - Cost, last |-> clock]

(* A bucket that has nothing to remember. *)
full(b) == b.tokens >= Burst

(* Mutant: full is asked of the buckets as they were left. *)
FullAsLeft == {s \in tracked : full(bucket[s])}

(* evictLocked: brought to date first, then the full ones go.              *)
Evicted == {s \in tracked : full(Refilled(bucket[s], Refill, Burst))}

(* The table is full, and the subject is not in it. *)
Crowded(s) == s \notin tracked /\ Cardinality(tracked) >= MaxSubjects

(* The table and its buckets as allow finds them for a subject.            *)
Kept(s) == IF Crowded(s) THEN tracked \ Evicted ELSE tracked

Swept(s) ==
  IF Crowded(s)
    THEN [t \in Subject |-> IF t \in tracked THEN Refilled(bucket[t], Refill, Burst)
                            ELSE bucket[t]]
    ELSE bucket

Found(s) == IF s \in tracked THEN bucket[s] ELSE [tokens |-> Burst, last |-> clock]

GlobalHas == Level(global, GlobalRefill, GlobalBurst) >= Cost

(* The common bucket is paid first, and pays for refusals, too.            *)
allow(s) ==
  /\ GlobalHas
  /\ global' = Taken(global, GlobalRefill, GlobalBurst)
  /\ \/ /\ Crowded(s) /\ Evicted = {}
        /\ bucket' = Swept(s)
        /\ UNCHANGED tracked
     \/ /\ ~(Crowded(s) /\ Evicted = {})
        /\ tracked' = Kept(s) \cup {s}
        /\ bucket' = [Swept(s) EXCEPT ![s] =
             IF Level(Found(s), Refill, Burst) >= Cost THEN Taken(Found(s), Refill, Burst)
             ELSE Refilled(Found(s), Refill, Burst)]
  /\ UNCHANGED clock

refuseAll ==
  /\ ~GlobalHas
  /\ global' = Refilled(global, GlobalRefill, GlobalBurst)
  /\ UNCHANGED <<clock, tracked, bucket>>

Tick ==
  /\ clock < MaxClock
  /\ clock' = clock + 1
  /\ UNCHANGED <<global, tracked, bucket>>

Next == Tick \/ refuseAll \/ \E s \in Subject : allow(s)

Spec == Init /\ [][Next]_vars

-----------------------------------------------------------------------------
(* The table, its evictions and its refills on demand implement buckets    *)
(* that tick and are never forgotten.                                      *)
Buckets == INSTANCE TokenBuckets WITH
  budget <- [s \in Subject |->
    IF s \in tracked THEN Level(bucket[s], Refill, Burst) ELSE Burst],
  global <- Level(global, GlobalRefill, GlobalBurst),
  Room <- MaxSubjects

ImplementsBuckets == Buckets!Spec

(* The table never outgrows its bound, and holds all who owe. *)
TableIsBounded == Cardinality(tracked) <= MaxSubjects
=============================================================================

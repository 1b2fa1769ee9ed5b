------------------------------ MODULE MCRequests -------------------------------
(* What a request passes on its way to the core, one part of which is      *)
(* chosen at the start:                                                    *)
(*   crowded    RateLimit, a table that answers, and room in memory for    *)
(*              one subject of two                                         *)
(*   outage     RateLimit, a table whose calls may be lost, room for both  *)
(*   migration  MigrationLimiter with room for two subjects of three       *)
(*   adapter    the Lambda adapter, one invocation of it                   *)
EXTENDS RateLimit, TLC

CONSTANTS e1, e2, s1, s2, s3

CONSTANTS
  Migrant, Places, LimiterClock,                 \* MigrationLimiter, and
  Cost, Burst, Refill, GlobalBurst, GlobalRefill,
  Cookie, Header, Value, MaxDeeds                \* Adapter

VARIABLES
  setting,
  clock, global, tracked, bucket,               \* MigrationLimiter
  front, sent, stage, req, rec, reply, deeds    \* Adapter

limiterVars == <<clock, global, tracked, bucket>>
adapterVars == <<front, sent, stage, req, rec, reply, deeds>>

MCEnv == {e1, e2}
MCSubject == {s1, s2}
MCLag == (e1 :> 0) @@ (e2 :> 2)

Outage == INSTANCE RateLimit WITH MaxSubjects <- 2, StoreFails <- TRUE, MaxClock <- 3

Limiter == INSTANCE MigrationLimiter WITH
  Subject <- Migrant, MaxSubjects <- Places, MaxClock <- LimiterClock

Lambda == INSTANCE Adapter

ASSUME LimiterAssumption == Limiter!newLimiter

ASSUME AdapterAssumption == Lambda!splitsSetCookie

MCSymmetry == Permutations(Subject)

MCInit ==
  /\ Init /\ Limiter!Init /\ Lambda!Init
  /\ setting \in {"crowded", "outage", "migration", "adapter"}
  /\ setting # "adapter" => front = "v2" /\ sent = CHOOSE r \in Lambda!Requests : TRUE

MCNext ==
  /\ \/ setting = "crowded" /\ Next /\ UNCHANGED <<limiterVars, adapterVars>>
     \/ setting = "outage" /\ Outage!Next /\ UNCHANGED <<limiterVars, adapterVars>>
     \/ setting = "migration" /\ Limiter!Next /\ UNCHANGED <<vars, adapterVars>>
     \/ setting = "adapter" /\ Lambda!Next /\ UNCHANGED <<vars, limiterVars>>
  /\ UNCHANGED setting

MCSpec == MCInit /\ [][MCNext]_<<vars, limiterVars, adapterVars, setting>>

(* A refusal means a spent budget, as long as the table answers.           *)
RefusalsAreEarned == setting = "crowded" => NoFalsePositives

(* The ceiling of an outage, for the subjects there is room to count.      *)
OutageIsBounded == setting = "outage" => OutageCeiling

(* The limiter of the migration implements buckets that are never          *)
(* forgotten, and refuses a newcomer only while every place is taken by a  *)
(* subject that owes tokens.                                               *)
ImplementsBuckets ==
  /\ Limiter!Buckets!Init
  /\ [][setting = "migration" => Limiter!Buckets!Next]_(Limiter!Buckets!vars)

(* Between what stands in front of the function and the handler, requests  *)
(* keep their cookies, and responses arrive whole or not at all.           *)
CrossesTheFront == Lambda!RequestIsSeen /\ Lambda!ArrivesWholeOrNotAtAll
=============================================================================

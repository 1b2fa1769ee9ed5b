------------------------------ MODULE Telemetry ------------------------------
(***************************************************************************)
(* The event log (internal/store/dynamodb/telemetry.go): a partition per   *)
(* day, a sort key of instant and id, a TTL.  A query visits the day       *)
(* partitions of its range one by one, oldest first, and each in pages,    *)
(* while events are recorded and reaped.  The tenant is part of the        *)
(* partition key and the same throughout.                                  *)
(***************************************************************************)
EXTENDS FiniteSetsExt, Integers

CONSTANTS
  Id,          \* event ids: numbers, for their order
  DayLength,
  Retention,   \* telemetryTTL
  MaxDays,     \* maxTelemetryDays
  MaxResults,  \* maxTelemetryResults
  PageSize,    \* events DynamoDB reads per call
  Limits,      \* the limits filters name: 0 for none
  Matches,     \* the ids of events they match by user and name
  Always,      \* an end of the range the filter leaves open
  MaxTime,     \* bound on the clock
  MaxEvents    \* bound on the events recorded

boundsAreNumbers ==
  /\ Id \subseteq Nat /\ Always \notin Nat
  /\ {DayLength, Retention, MaxDays, MaxResults, PageSize} \subseteq Nat \ {0}
  /\ Limits \subseteq Nat /\ Matches \subseteq SUBSET Id
  /\ MaxTime \in Nat /\ MaxEvents \in Nat

VARIABLES
  now,
  events,   \* the items
  filter,   \* what the query asks for; limit 0 is none, ids those that match
  query,
  due       \* history: what the query owes its caller

vars == <<now, events, filter, query, due>>

Event == [at: 0..MaxTime, id: Id]

Ends == 0..MaxTime \cup {Always}

Filter == [since: Ends, until: Ends, limit: Limits, ids: Matches]

(* since and until are as telemetryRange resolves them; from is the last   *)
(* page read of the day.                                                   *)
Query ==
  [pc: {"idle", "page", "end"}, since: Int, until: Int, day: Int,
   from: SUBSET Event, out: SUBSET Event,
   answer: {"none", "all", "cut", "rangeTooLarge", "resultTooLarge", "failed"}]

TypeOK ==
  /\ now \in 0..MaxTime
  /\ events \subseteq Event /\ due \subseteq Event
  /\ query.pc # "idle" => filter \in Filter
  /\ query \in Query

Init ==
  /\ now = 0
  /\ events = {} /\ due = {}
  /\ filter = [since |-> Always, until |-> Always, limit |-> 0, ids |-> {}]
  /\ query = [pc |-> "idle", since |-> 0, until |-> 0, day |-> 0, from |-> {},
              out |-> {}, answer |-> "none"]

-----------------------------------------------------------------------------
Before(e, g) == e.at < g.at \/ (e.at = g.at /\ e.id < g.id)

(* The first n of a set of events, in the order of the sort key.           *)
First(n, S) == {e \in S : Cardinality({g \in S : Before(g, e)}) < n}

PartitionOf(t) == t \div DayLength

Expired(e) == e.at + Retention < now

(* The caller's timestamp, or the store's clock if it has none.            *)
Record(e) ==
  /\ e.at <= now
  /\ Cardinality(events) < MaxEvents
  /\ events' = events \cup {e}
  /\ UNCHANGED <<now, filter, query, due>>

Reap(e) ==
  /\ Expired(e)
  /\ events' = events \ {e}
  /\ due' = due \ {e}
  /\ UNCHANGED <<now, filter, query>>

Tick ==
  /\ now < MaxTime
  /\ now' = now + 1
  /\ UNCHANGED <<events, filter, query, due>>

-----------------------------------------------------------------------------
Since(f) == IF f.since = Always THEN now - Retention ELSE f.since

Until(f) == IF f.until = Always THEN now ELSE f.until

Days(since, until) == (until - since) \div DayLength + 1

(* Mutant: the days are counted off from the start of the range. *)
FirstInstant(since) == since

(* since.Truncate(24h) *)
FirstDay(since) == since - (since % DayLength)

(* What matches a filter, as its caller means it. *)
Asked(f, e) ==
  /\ f.since = Always \/ f.since <= e.at
  /\ e.at <= Until(f)
  /\ e.id \in f.ids

Ask(f) ==
  /\ query.pc = "idle"
  /\ filter' = f
  /\ due' = {e \in events : Asked(f, e) /\ ~Expired(e)}
  /\ LET since == Since(f)
         until == Until(f)
         range == [query EXCEPT !.since = since, !.until = until]
     IN query' =
          IF until < since
            THEN [range EXCEPT !.pc = "end", !.answer = "all"]
          ELSE IF Days(since, until) > MaxDays
            THEN [range EXCEPT !.pc = "end", !.answer = "rangeTooLarge"]
          ELSE [range EXCEPT !.pc = "page", !.day = FirstDay(since)]
  /\ UNCHANGED <<now, events>>

Limit == IF filter.limit = 0 THEN MaxResults ELSE filter.limit

(* One page of a day: the filter is applied to what was read of it.  A     *)
(* full page has a LastEvaluatedKey, whether or not anything follows.      *)
ReadPage ==
  /\ query.pc = "page"
  /\ LET rest == {e \in events :
                    /\ PartitionOf(e.at) = PartitionOf(query.day)
                    /\ query.since <= e.at /\ e.at <= query.until
                    /\ \A g \in query.from : Before(g, e)}
         page == First(PageSize, rest)
         out  == query.out \cup
                   First(Limit - Cardinality(query.out),
                         {e \in page : e.id \in filter.ids})
         next == query.day + DayLength
     IN query' =
          IF Cardinality(out) = Limit
            THEN [query EXCEPT !.pc = "end", !.from = {}, !.out = out,
                    !.answer = IF filter.limit = 0 THEN "resultTooLarge" ELSE "cut"]
          ELSE IF Cardinality(page) = PageSize
            THEN [query EXCEPT !.from = page, !.out = out]
          ELSE IF next <= query.until
            THEN [query EXCEPT !.from = {}, !.out = out, !.day = next]
          ELSE [query EXCEPT !.pc = "end", !.from = {}, !.out = out, !.answer = "all"]
  /\ UNCHANGED <<now, events, filter, due>>

Fail ==
  /\ query.pc = "page"
  /\ query' = [query EXCEPT !.pc = "end", !.from = {}, !.answer = "failed"]
  /\ UNCHANGED <<now, events, filter, due>>

(* Up to the answer of the one query. *)
Next ==
  /\ query.pc # "end"
  /\ \/ \E e \in Event : Record(e)
     \/ \E e \in events : Reap(e)
     \/ \E f \in Filter : Ask(f)
     \/ Tick \/ ReadPage \/ Fail

Spec == Init /\ [][Next]_vars

-----------------------------------------------------------------------------
(* An answer has no hole: it holds every event that was stored, had not    *)
(* expired and matched when the query began, and is stored still; one cut  *)
(* at its limit holds those up to the latest it shows.  "No time range     *)
(* returns everything still stored" (the file's comment).                  *)
AnswersHaveNoHoles ==
  /\ query.answer = "all" => due \subseteq query.out
  /\ query.answer = "cut" =>
       \A e \in due : (\E g \in query.out : Before(e, g)) => e \in query.out

(* maxTelemetryDays "bounds how many day partitions one Query may visit".  *)
(* The code does not have it: a range that is as long and begins within a  *)
(* day ends in one more.                                                   *)
VisitsAreBounded ==
  query.pc = "page" => Days(FirstDay(query.since), query.until) <= MaxDays

(* A query that names no beginning is answered, whatever the retention: it *)
(* is not where MaxDays is as short (Retention >= DayLength * MaxDays).    *)
HorizonIsAnswered == query.answer = "rangeTooLarge" => filter.since # Always
=============================================================================

------------------------------ MODULE RateLimit ------------------------------
(***************************************************************************)
(* The rate limiter of the sign-in routes: a counter in the table that     *)
(* every Lambda environment shares (internal/store/dynamodb/rate_limit.go) *)
(* and, in front of it, one in each environment's memory                   *)
(* (cmd/auth/ratelimit.go).  Windows are fixed: the clock divided by their *)
(* length.  An environment serves one request at a time.                   *)
(***************************************************************************)
EXTENDS Naturals, FiniteSets

CONSTANTS
  Env,           \* execution environments
  Subject,       \* what is limited: an address, or a client
  Max,           \* requests of a subject in one window
  MaxSubjects,   \* subjects an environment keeps count of
  WindowLength,
  Grace,         \* rateLimitTTLGrace
  Lag,           \* [Env -> 0 .. Grace]: how far each clock is behind
  StoreFails,    \* TRUE: calls to the table may be lost
  MaxClock       \* bound on the clock, for model checking

ASSUME LimitAssumption ==
  /\ Max \in Nat \ {0} /\ MaxSubjects \in Nat /\ WindowLength \in Nat \ {0}
  /\ Grace \in Nat /\ MaxClock \in Nat /\ Grace <= MaxClock
  /\ Lag \in [Env -> 0 .. Grace]
  /\ StoreFails \in BOOLEAN

VARIABLES
  now,       \* the clock of the table, which TTL goes by
  counter,   \* RL#<subject>#<window>: n, 0 if there is no item
  local,     \* each environment's window and counts
  call,      \* the request each environment is serving
  admitted,  \* history: requests the counter let pass
  passed     \* history: requests each environment let pass, for any reason

vars == <<now, counter, local, call, admitted, passed>>

IndexAt(t) == t \div WindowLength
Window == 0 .. IndexAt(MaxClock)

Counts == [Subject -> 0 .. Max]
NoCounts == [s \in Subject |-> 0]

CallState ==
  [pc: {"idle", "count"}, subject: Subject \cup {"none"}, window: Window,
   answer: {"none", "passed", "refused"}]

TypeOK ==
  /\ now \in Grace .. MaxClock
  /\ counter \in [Subject -> [Window -> 0 .. Max]]
  /\ local \in [Env -> [index: Window, counts: Counts]]
  /\ call \in [Env -> CallState]
  /\ admitted \in [Subject -> [Window -> Nat]]
  /\ passed \in [Env -> [Subject -> [Window -> Nat]]]

Init ==
  /\ now = Grace
  /\ counter = [s \in Subject |-> [w \in Window |-> 0]]
  /\ local = [e \in Env |-> [index |-> 0, counts |-> NoCounts]]
  /\ call = [e \in Env |-> [pc |-> "idle", subject |-> "none", window |-> 0,
                            answer |-> "none"]]
  /\ admitted = [s \in Subject |-> [w \in Window |-> 0]]
  /\ passed = [e \in Env |-> [s \in Subject |-> [w \in Window |-> 0]]]

-----------------------------------------------------------------------------
(* rateLimitWindow, and its twin in localRateLimiter.allow.                *)
WindowOf(e) == IndexAt(now - Lag[e])

(* Mutant: the counts of the last window are carried into the next. *)
LocalCountsKept(e, w) == local[e].counts

(* The table is dropped when the window changes. *)
LocalCounts(e, w) == IF local[e].index = w THEN local[e].counts ELSE NoCounts

(* Mutant: one request more. *)
LocallySpentLate(n) == n > Max

LocallySpent(n) == n >= Max

(* No room to keep count of a subject that is not in the table yet. *)
Full(counts, s) ==
  counts[s] = 0 /\ Cardinality({t \in Subject : counts[t] > 0}) >= MaxSubjects

Answer(e, a) == call' = [call EXCEPT ![e] = [call[e] EXCEPT !.pc = "idle", !.answer = a]]

Pass(e) ==
  /\ Answer(e, "passed")
  /\ passed' = [passed EXCEPT ![e][call[e].subject][call[e].window] = @ + 1]

(* The middleware up to localRateLimiter.allow. *)
Request(e, s) ==
  LET w == WindowOf(e)
      counts == LocalCounts(e, w)
      calling == [pc |-> "count", subject |-> s, window |-> w, answer |-> "none"]
  IN
  /\ call[e].pc = "idle"
  /\ \/ /\ Full(counts, s)
        /\ local' = [local EXCEPT ![e] = [index |-> w, counts |-> counts]]
        /\ call' = [call EXCEPT ![e] = calling]
     \/ /\ ~Full(counts, s) /\ LocallySpent(counts[s])
        /\ local' = [local EXCEPT ![e] = [index |-> w, counts |-> counts]]
        /\ call' = [call EXCEPT ![e] = [calling EXCEPT !.pc = "idle", !.answer = "refused"]]
     \/ /\ ~Full(counts, s) /\ ~LocallySpent(counts[s])
        /\ local' = [local EXCEPT ![e] =
             [index |-> w, counts |-> [counts EXCEPT ![s] = @ + 1]]]
        /\ call' = [call EXCEPT ![e] = calling]
  /\ UNCHANGED <<now, counter, admitted, passed>>

(* attribute_not_exists(n) OR n < :max                                     *)
WithinBudget(s, w) == counter[s][w] < Max

Count(s, w) == counter' = [counter EXCEPT ![s][w] = @ + 1]

(* AllowRequest: compare and add in one write, in the window the clock is  *)
(* in by now.                                                              *)
AllowRequest(e) ==
  LET s == call[e].subject
      w == WindowOf(e)
  IN
  /\ call[e].pc = "count"
  /\ \/ /\ WithinBudget(s, w)
        /\ Count(s, w)
        /\ admitted' = [admitted EXCEPT ![s][w] = @ + 1]
        /\ Pass(e)
     \/ /\ ~WithinBudget(s, w)
        /\ call' = [call EXCEPT ![e] = [call[e] EXCEPT !.pc = "idle", !.window = w,
                                                        !.answer = "refused"]]
        /\ UNCHANGED <<counter, admitted, passed>>
  /\ UNCHANGED <<now, local>>

(* The call fails, whether or not its write took place: the request passes.*)
FailOpen(e) ==
  LET s == call[e].subject
      w == WindowOf(e)
  IN
  /\ StoreFails
  /\ call[e].pc = "count"
  /\ \/ UNCHANGED counter
     \/ WithinBudget(s, w) /\ Count(s, w)
  /\ Pass(e)
  /\ UNCHANGED <<now, local, admitted>>

(* An answer is lost and the SDK sends the write again. *)
Resend(e) ==
  LET s == call[e].subject
      w == WindowOf(e)
  IN
  /\ StoreFails
  /\ call[e].pc = "count"
  /\ WithinBudget(s, w) /\ Count(s, w)
  /\ UNCHANGED <<now, local, call, admitted, passed>>

(* Mutant: a counter that goes with its window. *)
DueAtOnce(w) == now > (w + 1) * WindowLength

Due(w) == now > (w + 1) * WindowLength + Grace

(* TTL takes a counter, at some time after it is due. *)
Reap(s, w) ==
  /\ counter[s][w] > 0
  /\ Due(w)
  /\ counter' = [counter EXCEPT ![s][w] = 0]
  /\ UNCHANGED <<now, local, call, admitted, passed>>

Tick ==
  /\ now < MaxClock
  /\ now' = now + 1
  /\ UNCHANGED <<counter, local, call, admitted, passed>>

Next ==
  \/ \E e \in Env :
       \/ \E s \in Subject : Request(e, s)
       \/ AllowRequest(e)
       \/ FailOpen(e)
       \/ Resend(e)
  \/ \E s \in Subject, w \in Window : Reap(s, w)
  \/ Tick

Spec == Init /\ [][Next]_vars

-----------------------------------------------------------------------------
(* However many environments race on the last unit of a budget, the table  *)
(* lets no more than Max requests of a subject pass in a window, clocks    *)
(* that lag and counters that are reaped included (AllowRequest,           *)
(* rateLimitTTLGrace).                                                     *)
BudgetHolds == \A s \in Subject, w \in Window : admitted[s][w] <= Max

(* Nobody is refused who has budget left: a refusal, by either counter,    *)
(* means that Max requests of the subject have passed in that window (the  *)
(* pre-filter "has no false positives by construction").                   *)
NoFalsePositives ==
  \A e \in Env :
    call[e].answer = "refused" => admitted[call[e].subject][call[e].window] = Max

(* The same of the pre-filter alone: what it refuses, the shared counter   *)
(* would have refused too.                                                 *)
PreFilterSound ==
  \A e \in Env :
    call[e].answer = "refused"
      => counter[call[e].subject][call[e].window] = Max \/ Due(call[e].window)

(* While the table fails, an environment lets no more than Max requests of *)
(* a subject pass in a window ("the ceiling during an outage is max per    *)
(* subject per window per execution environment").                         *)
OutageCeiling ==
  \A e \in Env, s \in Subject, w \in Window : passed[e][s][w] <= Max
=============================================================================

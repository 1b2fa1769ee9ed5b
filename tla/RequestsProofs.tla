---------------------------- MODULE RequestsProofs ----------------------------
(***************************************************************************)
(* Proofs about what a request passes on its way to the core: RateLimit,   *)
(* for any number of environments and subjects, any budget, window, grace  *)
(* and lags up to the grace; MigrationLimiter, for any number of subjects, *)
(* any room in the table and any budgets; and Adapter, for any cookies,    *)
(* headers and values and any number of deeds of the handler.              *)
(***************************************************************************)
EXTENDS MCRequests, Sequences, FiniteSetTheorems, TLAPS

-----------------------------------------------------------------------------
(* RateLimit.  The argument: until a counter is due, it is no less than    *)
(* what it has admitted; and once it is due, no clock is in its window any *)
(* more.                                                                   *)

(* A request in flight has a subject. *)
Subjected == \A e \in Env : call[e].pc = "count" => call[e].subject \in Subject

TypeInv == TypeOK /\ Subjected

-----------------------------------------------------------------------------
(* Arithmetic of the windows. *)

(* An instant lies before the end of its window. *)
LEMMA WindowEnds ==
  ASSUME NEW t \in Nat
  PROVE  IndexAt(t) \in Nat /\ t < (IndexAt(t) + 1) * WindowLength
<1>1. WindowLength \in Nat \ {0}
  BY LimitAssumption
<1> QED
  BY <1>1, SMT DEF IndexAt

(* Windows follow one another as the clock goes on. *)
LEMMA WindowsAscend ==
  ASSUME NEW t \in Nat, NEW u \in Nat, t <= u
  PROVE  IndexAt(t) <= IndexAt(u)
<1>1. WindowLength \in Nat \ {0}
  BY LimitAssumption
<1> QED
  BY <1>1, SMT DEF IndexAt

(* The clock of an environment is in a window of the model. *)
LEMMA WindowKnown ==
  ASSUME TypeInv, NEW e \in Env
  PROVE  /\ WindowOf(e) \in Window
         /\ now - Lag[e] \in Nat
<1>1. now \in Nat /\ Grace <= now /\ now <= MaxClock /\ Lag[e] \in 0 .. Grace
      /\ Grace \in Nat /\ MaxClock \in Nat
  BY LimitAssumption DEF TypeInv, TypeOK
<1>2. now - Lag[e] \in Nat /\ now - Lag[e] <= MaxClock
  BY <1>1
<1>3. IndexAt(now - Lag[e]) \in Nat /\ IndexAt(MaxClock) \in Nat
  BY <1>1, <1>2, WindowEnds
<1>4. IndexAt(now - Lag[e]) <= IndexAt(MaxClock)
  BY <1>1, <1>2, WindowsAscend
<1> QED
  BY <1>2, <1>3, <1>4 DEF WindowOf, Window

(* No environment is in a window whose counter TTL may take: the grace     *)
(* covers the lag.                                                         *)
LEMMA NotDue ==
  ASSUME TypeInv, NEW e \in Env
  PROVE  ~Due(WindowOf(e))
<1>1. now \in Nat /\ Lag[e] \in 0 .. Grace /\ Grace \in Nat
  BY LimitAssumption DEF TypeInv, TypeOK
<1>2. now - Lag[e] \in Nat
  BY WindowKnown
<1> DEFINE end == (WindowOf(e) + 1) * WindowLength
<1>3. now - Lag[e] < end
  BY <1>2, WindowEnds DEF WindowOf
<1>4. end \in Nat
  <2>1. WindowOf(e) \in Nat /\ WindowLength \in Nat
    BY <1>2, WindowEnds, LimitAssumption DEF WindowOf
  <2> QED
    BY <2>1
<1>5. Due(WindowOf(e)) <=> now > end + Grace
  BY DEF Due
<1> HIDE DEF end
<1> QED
  BY <1>1, <1>3, <1>4, <1>5

-----------------------------------------------------------------------------
LEMMA TypeInit == Init => TypeInv
<1> SUFFICES ASSUME Init PROVE TypeInv
  OBVIOUS
<1>1. Grace \in Nat /\ MaxClock \in Nat /\ Grace <= MaxClock /\ Max \in Nat
  BY LimitAssumption
<1>2. 0 \in Window /\ 0 \in 0 .. Max
  <2>1. IndexAt(MaxClock) \in Nat
    BY <1>1, WindowEnds
  <2> QED
    BY <1>1, <2>1 DEF Window
<1>3. NoCounts \in Counts
  BY <1>2 DEF NoCounts, Counts
<1> QED
  BY <1>1, <1>2, <1>3 DEF Init, TypeInv, TypeOK, Subjected, CallState

(* Passing a request keeps the types of what it changes. *)
LEMMA PassSound ==
  ASSUME TypeInv, NEW e \in Env, Pass(e), call[e].pc = "count"
  PROVE  /\ call' \in [Env -> CallState] /\ Subjected'
         /\ passed' \in [Env -> [Subject -> [Window -> Nat]]]
<1>1. call \in [Env -> CallState] /\ call[e] \in CallState
      /\ passed \in [Env -> [Subject -> [Window -> Nat]]]
  BY DEF TypeInv, TypeOK
<1> DEFINE new == [call[e] EXCEPT !.pc = "idle", !.answer = "passed"]
<1>2. new \in CallState /\ new.pc = "idle"
  BY <1>1 DEF CallState
<1>3. call' = [call EXCEPT ![e] = new]
  BY DEF Pass, Answer
<1> HIDE DEF new
<1>4. call' \in [Env -> CallState] /\ Subjected'
  BY <1>1, <1>2, <1>3 DEF TypeInv, Subjected
<1>5. call[e].subject \in Subject /\ call[e].window \in Window
  BY <1>1 DEF TypeInv, Subjected, CallState
<1>6. passed' \in [Env -> [Subject -> [Window -> Nat]]]
  BY <1>1, <1>5 DEF Pass
<1> QED
  BY <1>4, <1>6

(* So does counting one. *)
LEMMA CountSound ==
  ASSUME TypeInv, NEW s \in Subject, NEW w \in Window, WithinBudget(s, w), Count(s, w)
  PROVE  counter' \in [Subject -> [Window -> 0 .. Max]]
<1>1. counter \in [Subject -> [Window -> 0 .. Max]] /\ Max \in Nat
  BY LimitAssumption DEF TypeInv, TypeOK
<1>2. counter[s][w] + 1 \in 0 .. Max
  BY <1>1 DEF WithinBudget
<1> QED
  BY <1>1, <1>2 DEF Count

(* Types: one step per action. *)
LEMMA TypeStep == TypeInv /\ [Next]_vars => TypeInv'
<1> SUFFICES ASSUME TypeInv, [Next]_vars PROVE TypeInv'
  OBVIOUS
<1>a. /\ now \in Grace .. MaxClock
      /\ counter \in [Subject -> [Window -> 0 .. Max]]
      /\ local \in [Env -> [index: Window, counts: Counts]]
      /\ call \in [Env -> CallState]
      /\ admitted \in [Subject -> [Window -> Nat]]
      /\ passed \in [Env -> [Subject -> [Window -> Nat]]]
      /\ Subjected
      /\ Max \in Nat /\ Max # 0
  BY LimitAssumption DEF TypeInv, TypeOK
<1>1. ASSUME NEW e \in Env, NEW s \in Subject, Request(e, s) PROVE TypeInv'
  <2> DEFINE w == WindowOf(e)
             counts == LocalCounts(e, w)
             calling == [pc |-> "count", subject |-> s, window |-> w, answer |-> "none"]
             refused == [calling EXCEPT !.pc = "idle", !.answer = "refused"]
             more == [counts EXCEPT ![s] = counts[s] + 1]
  <2>1. w \in Window
    BY WindowKnown
  <2>2. counts \in Counts
    <3>1. NoCounts \in Counts
      BY <1>a DEF NoCounts, Counts
    <3>2. local[e].counts \in Counts
      BY <1>a
    <3> QED
      BY <3>1, <3>2 DEF LocalCounts
  <2>3. calling \in CallState /\ calling.subject = s
    BY <2>1 DEF CallState
  <2>4. refused \in CallState /\ refused.pc = "idle"
    BY <2>1 DEF CallState
  <2>5. ASSUME ~LocallySpent(counts[s]) PROVE more \in Counts
    <3>1. counts[s] + 1 \in 0 .. Max
      BY <1>a, <2>2, <2>5 DEF LocallySpent, Counts
    <3> QED
      BY <2>2, <3>1 DEF Counts
  <2>6. \/ /\ local' = [local EXCEPT ![e] = [index |-> w, counts |-> counts]]
           /\ call' = [call EXCEPT ![e] = calling]
        \/ /\ local' = [local EXCEPT ![e] = [index |-> w, counts |-> counts]]
           /\ call' = [call EXCEPT ![e] = refused]
        \/ /\ ~LocallySpent(counts[s])
           /\ local' = [local EXCEPT ![e] = [index |-> w, counts |-> more]]
           /\ call' = [call EXCEPT ![e] = calling]
    BY <1>1 DEF Request
  <2>7. UNCHANGED <<now, counter, admitted, passed>>
    BY <1>1 DEF Request
  <2> HIDE DEF w, counts, calling, refused, more
  <2>8. local' \in [Env -> [index: Window, counts: Counts]]
    <3>1. ASSUME NEW c \in Counts, local'
                   = [local EXCEPT ![e] = [index |-> w, counts |-> c]]
          PROVE  local' \in [Env -> [index: Window, counts: Counts]]
      <4>1. [index |-> w, counts |-> c] \in [index: Window, counts: Counts]
        BY <2>1
      <4> QED
        BY <1>a, <3>1, <4>1
    <3> QED
      BY <2>2, <2>5, <2>6, <3>1
  <2>9. call' \in [Env -> CallState] /\ Subjected'
    BY <1>a, <2>3, <2>4, <2>6 DEF Subjected
  <2> QED
    BY <1>a, <2>7, <2>8, <2>9 DEF TypeInv, TypeOK
<1>2. ASSUME NEW e \in Env, AllowRequest(e) PROVE TypeInv'
  <2> DEFINE s == call[e].subject
             w == WindowOf(e)
  <2>1. s \in Subject /\ w \in Window /\ call[e].pc = "count" /\ call[e] \in CallState
    BY <1>2, <1>a, WindowKnown DEF AllowRequest, Subjected
  <2>2. CASE /\ WithinBudget(s, w) /\ Count(s, w) /\ Pass(e)
             /\ admitted' = [admitted EXCEPT ![s][w] = @ + 1]
    <3>1. counter' \in [Subject -> [Window -> 0 .. Max]]
      BY <2>1, <2>2, CountSound
    <3>2. /\ call' \in [Env -> CallState] /\ Subjected'
          /\ passed' \in [Env -> [Subject -> [Window -> Nat]]]
      BY <2>1, <2>2, PassSound
    <3>3. admitted' \in [Subject -> [Window -> Nat]]
      BY <1>a, <2>1, <2>2
    <3> QED
      BY <1>2, <1>a, <3>1, <3>2, <3>3 DEF AllowRequest, TypeInv, TypeOK
  <2>3. CASE /\ call' = [call EXCEPT ![e] = [call[e] EXCEPT !.pc = "idle", !.window = w,
                                                            !.answer = "refused"]]
             /\ UNCHANGED <<counter, admitted, passed>>
    <3> DEFINE new == [call[e] EXCEPT !.pc = "idle", !.window = w, !.answer = "refused"]
    <3>1. new \in CallState /\ new.pc = "idle"
      BY <2>1 DEF CallState
    <3>2. call' = [call EXCEPT ![e] = new]
      BY <2>3
    <3> HIDE DEF new
    <3>3. call' \in [Env -> CallState] /\ Subjected'
      BY <1>a, <3>1, <3>2 DEF Subjected
    <3> QED
      BY <1>2, <1>a, <2>3, <3>3 DEF AllowRequest, TypeInv, TypeOK
  <2> QED
    BY <1>2, <2>2, <2>3 DEF AllowRequest
<1>3. ASSUME NEW e \in Env, FailOpen(e) PROVE TypeInv'
  <2>1. call[e].subject \in Subject /\ WindowOf(e) \in Window /\ call[e].pc = "count"
    BY <1>3, <1>a, WindowKnown DEF FailOpen, Subjected
  <2>2. counter' \in [Subject -> [Window -> 0 .. Max]]
    BY <1>3, <1>a, <2>1, CountSound DEF FailOpen
  <2>3. /\ call' \in [Env -> CallState] /\ Subjected'
        /\ passed' \in [Env -> [Subject -> [Window -> Nat]]]
    BY <1>3, <2>1, PassSound DEF FailOpen
  <2> QED
    BY <1>3, <1>a, <2>2, <2>3 DEF FailOpen, TypeInv, TypeOK
<1>4. ASSUME NEW e \in Env, Resend(e) PROVE TypeInv'
  <2>1. call[e].subject \in Subject /\ WindowOf(e) \in Window
    BY <1>4, <1>a, WindowKnown DEF Resend, Subjected
  <2>2. counter' \in [Subject -> [Window -> 0 .. Max]]
    BY <1>4, <2>1, CountSound DEF Resend
  <2> QED
    BY <1>4, <1>a, <2>2 DEF Resend, TypeInv, TypeOK, Subjected
<1>5. ASSUME NEW s \in Subject, NEW w \in Window, Reap(s, w) PROVE TypeInv'
  <2>1. counter' \in [Subject -> [Window -> 0 .. Max]]
    BY <1>5, <1>a DEF Reap
  <2> QED
    BY <1>5, <1>a, <2>1 DEF Reap, TypeInv, TypeOK, Subjected
<1>6. CASE Tick
  <2>1. now' \in Grace .. MaxClock
    BY <1>6, <1>a, LimitAssumption DEF Tick
  <2> QED
    BY <1>6, <1>a, <2>1 DEF Tick, TypeInv, TypeOK, Subjected
<1>7. CASE UNCHANGED vars
  BY <1>7, <1>a DEF vars, TypeInv, TypeOK, Subjected
<1> QED
  BY <1>1, <1>2, <1>3, <1>4, <1>5, <1>6, <1>7 DEF Next

LEMMA TypeInvariant == Spec => []TypeInv
BY TypeInit, TypeStep, PTL DEF Spec

(* Every reachable state is well typed. *)
THEOREM TypeCorrect == Spec => []TypeOK
<1>1. TypeInv => TypeOK
  BY DEF TypeInv
<1> QED
  BY <1>1, TypeInvariant, PTL

-----------------------------------------------------------------------------
(* What the table has admitted is at most Max, and at most its count while *)
(* the counter is sure to be there.                                        *)
Accounted ==
  \A s \in Subject, w \in Window :
    /\ admitted[s][w] <= Max
    /\ ~Due(w) => admitted[s][w] <= counter[s][w]

LEMMA AccountedInit == Init => Accounted
BY LimitAssumption DEF Init, Accounted

LEMMA AccountedStep == TypeInv /\ Accounted /\ [Next]_vars => Accounted'
<1> SUFFICES ASSUME TypeInv, Accounted, [Next]_vars,
                    NEW s \in Subject, NEW w \in Window
             PROVE  /\ admitted'[s][w] <= Max
                    /\ ~Due(w)' => admitted'[s][w] <= counter'[s][w]
  BY DEF Accounted, Window
<1>a. /\ counter \in [Subject -> [Window -> 0 .. Max]]
      /\ admitted \in [Subject -> [Window -> Nat]]
      /\ admitted[s][w] \in Nat /\ counter[s][w] \in Nat /\ Max \in Nat
      /\ admitted[s][w] <= Max
      /\ ~Due(w) => admitted[s][w] <= counter[s][w]
  BY LimitAssumption DEF TypeInv, TypeOK, Accounted
(* A due counter stays due. *)
<1>b. ASSUME now' = now PROVE Due(w)' = Due(w)
  BY <1>b DEF Due
(* Counting can only raise a counter. *)
<1>c. ASSUME NEW t \in Subject, NEW v \in Window, Count(t, v)
      PROVE  counter'[s][w] \in Nat /\ counter[s][w] <= counter'[s][w]
  BY <1>c, <1>a DEF Count
<1>1. ASSUME NEW e \in Env, AllowRequest(e)
      PROVE  /\ admitted'[s][w] <= Max
             /\ ~Due(w)' => admitted'[s][w] <= counter'[s][w]
  <2> DEFINE t == call[e].subject
             v == WindowOf(e)
  <2>1. t \in Subject /\ v \in Window /\ ~Due(v) /\ now' = now
    BY <1>1, WindowKnown, NotDue DEF AllowRequest, TypeInv, Subjected
  <2>2. CASE /\ WithinBudget(t, v) /\ Count(t, v)
             /\ admitted' = [admitted EXCEPT ![t][v] = @ + 1]
    <3>1. counter' = [counter EXCEPT ![t][v] = @ + 1]
      BY <2>2 DEF Count
    <3>2. CASE t = s /\ v = w
      <4>1. admitted'[s][w] = admitted[s][w] + 1 /\ counter'[s][w] = counter[s][w] + 1
        BY <1>a, <2>2, <3>1, <3>2
      <4>2. counter[s][w] < Max /\ admitted[s][w] <= counter[s][w]
        BY <1>a, <2>1, <2>2, <3>2 DEF WithinBudget
      <4> QED
        BY <1>a, <4>1, <4>2
    <3>3. CASE ~(t = s /\ v = w)
      <4>1. admitted'[s][w] = admitted[s][w] /\ counter'[s][w] = counter[s][w]
        BY <1>a, <2>1, <2>2, <3>1, <3>3
      <4> QED
        BY <1>a, <1>b, <2>1, <4>1
    <3> QED
      BY <3>2, <3>3
  <2>3. CASE UNCHANGED <<counter, admitted>>
    BY <1>a, <1>b, <2>1, <2>3
  <2> QED
    BY <1>1, <2>2, <2>3 DEF AllowRequest
<1>2. ASSUME NEW e \in Env, FailOpen(e) \/ Resend(e)
      PROVE  /\ admitted'[s][w] <= Max
             /\ ~Due(w)' => admitted'[s][w] <= counter'[s][w]
  <2>1. call[e].subject \in Subject /\ WindowOf(e) \in Window
    BY <1>2, WindowKnown DEF FailOpen, Resend, TypeInv, Subjected
  <2>2. now' = now /\ admitted' = admitted
        /\ (UNCHANGED counter \/ Count(call[e].subject, WindowOf(e)))
    BY <1>2 DEF FailOpen, Resend
  <2>3. counter'[s][w] \in Nat /\ counter[s][w] <= counter'[s][w]
    BY <1>a, <1>c, <2>1, <2>2
  <2> QED
    BY <1>a, <1>b, <2>2, <2>3
<1>3. ASSUME NEW t \in Subject, NEW v \in Window, Reap(t, v)
      PROVE  /\ admitted'[s][w] <= Max
             /\ ~Due(w)' => admitted'[s][w] <= counter'[s][w]
  <2>1. now' = now /\ admitted' = admitted /\ Due(v)
        /\ counter' = [counter EXCEPT ![t][v] = 0]
    BY <1>3 DEF Reap
  <2>2. CASE v = w
    BY <1>a, <1>b, <2>1, <2>2
  <2>3. CASE v # w
    <3>1. counter'[s][w] = counter[s][w]
      BY <1>a, <2>1, <2>3
    <3> QED
      BY <1>a, <1>b, <2>1, <3>1
  <2> QED
    BY <2>2, <2>3
<1>4. ASSUME Tick
      PROVE  /\ admitted'[s][w] <= Max
             /\ ~Due(w)' => admitted'[s][w] <= counter'[s][w]
  <2>1. now' = now + 1 /\ admitted' = admitted /\ counter' = counter
    BY <1>4 DEF Tick
  <2>2. Due(w) => Due(w)'
    <3>1. now \in Nat /\ Grace \in Nat /\ w \in Nat /\ WindowLength \in Nat
      BY LimitAssumption DEF TypeInv, TypeOK, Window
    <3> DEFINE end == (w + 1) * WindowLength
    <3>2. end \in Nat
      BY <3>1
    <3>3. (Due(w) <=> now > end + Grace) /\ (Due(w)' <=> now' > end + Grace)
      BY DEF Due
    <3> HIDE DEF end
    <3> QED
      BY <2>1, <3>1, <3>2, <3>3
  <2> QED
    BY <1>a, <2>1, <2>2
<1>5. ASSUME UNCHANGED <<now, counter, admitted>>
      PROVE  /\ admitted'[s][w] <= Max
             /\ ~Due(w)' => admitted'[s][w] <= counter'[s][w]
  BY <1>5, <1>a, <1>b
<1>6. ASSUME NEW e \in Env, NEW t \in Subject, Request(e, t)
      PROVE  UNCHANGED <<now, counter, admitted>>
  BY <1>6 DEF Request
<1>7. ASSUME UNCHANGED vars PROVE UNCHANGED <<now, counter, admitted>>
  BY <1>7 DEF vars
<1> QED
  BY <1>1, <1>2, <1>3, <1>4, <1>5, <1>6, <1>7 DEF Next

(* The table admits at most Max requests of a subject in a window, for any *)
(* number of environments whose clocks lag by no more than the grace, and  *)
(* whatever calls are lost or repeated (AllowRequest).                     *)
THEOREM BudgetIsKept == Spec => []BudgetHolds
<1>1. Accounted => BudgetHolds
  BY DEF Accounted, BudgetHolds
<1> QED
  BY <1>1, AccountedInit, AccountedStep, TypeInvariant, PTL DEF Spec

-----------------------------------------------------------------------------
(* What the memory of an environment is worth.                             *)

InFlight(e, s) == call[e].pc = "count" /\ call[e].subject = s

(* No environment counts in a window that is still to come. *)
NeverAhead == \A e \in Env : local[e].index <= WindowOf(e)

(* The clocks go forward. *)
LEMMA ClocksAdvance ==
  ASSUME TypeInv, [Next]_vars, NEW e \in Env
  PROVE  /\ WindowOf(e) \in Nat /\ WindowOf(e)' \in Nat
         /\ WindowOf(e) <= WindowOf(e)'
<1>1. now \in Nat /\ now - Lag[e] \in Nat /\ Lag[e] \in Nat
  BY WindowKnown, LimitAssumption DEF TypeInv, TypeOK
<1>2. now' = now \/ now' = now + 1
  BY DEF Next, vars, Request, AllowRequest, FailOpen, Resend, Reap, Tick
<1>3. now' - Lag[e] \in Nat /\ now - Lag[e] <= now' - Lag[e]
  BY <1>1, <1>2
<1>4. /\ IndexAt(now - Lag[e]) \in Nat /\ IndexAt(now' - Lag[e]) \in Nat
      /\ IndexAt(now - Lag[e]) <= IndexAt(now' - Lag[e])
  BY <1>1, <1>3, WindowEnds, WindowsAscend
<1> QED
  BY <1>4 DEF WindowOf, IndexAt

(* What a request makes of the memory of its environment, and what becomes *)
(* of it.                                                                  *)
LEMMA RequestOutcome ==
  ASSUME TypeInv, NEW e \in Env, NEW s \in Subject, Request(e, s)
  PROVE  \E c \in Counts, k \in CallState :
           /\ local' = [local EXCEPT ![e] = [index |-> WindowOf(e), counts |-> c]]
           /\ call' = [call EXCEPT ![e] = k]
           /\ k.subject = s /\ k.window = WindowOf(e)
           /\ \/ /\ k.pc = "count" /\ k.answer = "none"
                 /\ Full(LocalCounts(e, WindowOf(e)), s)
                 /\ c = LocalCounts(e, WindowOf(e))
              \/ /\ k.pc = "idle" /\ k.answer = "refused"
                 /\ c = LocalCounts(e, WindowOf(e)) /\ c[s] = Max
              \/ /\ k.pc = "count" /\ k.answer = "none"
                 /\ c = [LocalCounts(e, WindowOf(e)) EXCEPT ![s] = @ + 1]
<1> DEFINE w == WindowOf(e)
           counts == LocalCounts(e, w)
           calling == [pc |-> "count", subject |-> s, window |-> w, answer |-> "none"]
           refused == [calling EXCEPT !.pc = "idle", !.answer = "refused"]
           more == [counts EXCEPT ![s] = @ + 1]
<1>1. w \in Window /\ Max \in Nat
  BY WindowKnown, LimitAssumption
<1>2. counts \in Counts
  <2>1. NoCounts \in Counts
    BY <1>1 DEF NoCounts, Counts
  <2>2. local[e].counts \in Counts
    BY DEF TypeInv, TypeOK
  <2> QED
    BY <2>1, <2>2 DEF LocalCounts
<1>3. calling \in CallState /\ calling.subject = s /\ calling.window = w
      /\ calling.pc = "count" /\ calling.answer = "none"
  BY <1>1 DEF CallState
<1>4. refused \in CallState /\ refused.subject = s /\ refused.window = w
      /\ refused.pc = "idle" /\ refused.answer = "refused"
  BY <1>1 DEF CallState
<1>5. ASSUME ~LocallySpent(counts[s]) PROVE more \in Counts
  <2>1. counts[s] + 1 \in 0 .. Max
    BY <1>1, <1>2, <1>5 DEF LocallySpent, Counts
  <2> QED
    BY <1>2, <2>1 DEF Counts
<1>6. ASSUME LocallySpent(counts[s]) PROVE counts[s] = Max
  BY <1>1, <1>2, <1>6 DEF LocallySpent, Counts
<1>7. \/ /\ Full(counts, s)
         /\ local' = [local EXCEPT ![e] = [index |-> w, counts |-> counts]]
         /\ call' = [call EXCEPT ![e] = calling]
      \/ /\ LocallySpent(counts[s])
         /\ local' = [local EXCEPT ![e] = [index |-> w, counts |-> counts]]
         /\ call' = [call EXCEPT ![e] = refused]
      \/ /\ ~LocallySpent(counts[s])
         /\ local' = [local EXCEPT ![e] = [index |-> w, counts |-> more]]
         /\ call' = [call EXCEPT ![e] = calling]
  BY DEF Request
<1>8. more = [LocalCounts(e, w) EXCEPT ![s] = @ + 1] /\ counts = LocalCounts(e, w)
      /\ w = WindowOf(e)
  OBVIOUS
<1> HIDE DEF w, counts, calling, refused, more
<1>9. CASE /\ Full(counts, s)
           /\ local' = [local EXCEPT ![e] = [index |-> w, counts |-> counts]]
           /\ call' = [call EXCEPT ![e] = calling]
  BY <1>2, <1>3, <1>8, <1>9
<1>10. CASE /\ LocallySpent(counts[s])
            /\ local' = [local EXCEPT ![e] = [index |-> w, counts |-> counts]]
            /\ call' = [call EXCEPT ![e] = refused]
  BY <1>2, <1>4, <1>6, <1>8, <1>10
<1>11. CASE /\ ~LocallySpent(counts[s])
            /\ local' = [local EXCEPT ![e] = [index |-> w, counts |-> more]]
            /\ call' = [call EXCEPT ![e] = calling]
  BY <1>3, <1>5, <1>8, <1>11
<1> QED
  BY <1>7, <1>9, <1>10, <1>11

(* The memory changes only by a request of its own environment. *)
LEMMA MemoryStays ==
  ASSUME [Next]_vars, NEW e \in Env, \A s \in Subject : ~Request(e, s), TypeInv
  PROVE  local'[e] = local[e]
<1>1. ASSUME NEW f \in Env, NEW s \in Subject, Request(f, s) PROVE local'[e] = local[e]
  <2>1. f # e
    BY <1>1
  <2>2. PICK r : local' = [local EXCEPT ![f] = r]
    BY <1>1 DEF Request
  <2> QED
    BY <2>1, <2>2 DEF TypeInv, TypeOK
<1>2. ASSUME \A f \in Env, s \in Subject : ~Request(f, s) PROVE local' = local
  BY <1>2 DEF Next, vars, AllowRequest, FailOpen, Resend, Reap, Tick
<1> QED
  BY <1>1, <1>2

LEMMA NeverAheadInit == Init => NeverAhead
<1> SUFFICES ASSUME Init, NEW e \in Env PROVE local[e].index <= WindowOf(e)
  BY DEF NeverAhead
<1>1. WindowOf(e) \in Nat
  BY TypeInit, WindowKnown, WindowEnds DEF WindowOf
<1>2. local[e].index = 0
  BY DEF Init
<1> QED
  BY <1>1, <1>2

LEMMA NeverAheadStep == TypeInv /\ NeverAhead /\ [Next]_vars => NeverAhead'
<1> SUFFICES ASSUME TypeInv, NeverAhead, [Next]_vars, NEW e \in Env
             PROVE  local'[e].index <= WindowOf(e)'
  BY DEF NeverAhead
<1>1. /\ WindowOf(e) \in Nat /\ WindowOf(e)' \in Nat
      /\ WindowOf(e) <= WindowOf(e)'
  BY ClocksAdvance
<1>2. ASSUME NEW s \in Subject, Request(e, s) PROVE local'[e].index = WindowOf(e)
  BY <1>2, RequestOutcome DEF TypeInv, TypeOK
<1>3. local[e].index \in Nat /\ local[e].index <= WindowOf(e)
  BY DEF TypeInv, TypeOK, NeverAhead, Window
<1>4. local'[e] = local[e] \/ local'[e].index = WindowOf(e)
  BY <1>2, MemoryStays
<1> QED
  BY <1>1, <1>3, <1>4

-----------------------------------------------------------------------------
(* While the table answers, a counter is never over what it has admitted,  *)
(* and what an environment has counted in the window of its clock has been *)
(* admitted, the request in flight aside.                                  *)
NeverOver == \A s \in Subject, w \in Window : counter[s][w] <= admitted[s][w]

CountsAreAdmitted ==
  \A e \in Env, s \in Subject :
    local[e].index = WindowOf(e)
      => local[e].counts[s] <= admitted[s][local[e].index]
                                 + (IF InFlight(e, s) THEN 1 ELSE 0)

(* Who was refused had spent the budget. *)
RefusedAfterMax ==
  \A e \in Env :
    call[e].answer = "refused"
      => /\ call[e].subject \in Subject
         /\ admitted[call[e].subject][call[e].window] = Max

EarnedInv ==
  TypeInv /\ Accounted /\ NeverAhead /\ NeverOver /\ CountsAreAdmitted /\ RefusedAfterMax

LEMMA EarnedInit == Init => EarnedInv
<1> SUFFICES ASSUME Init PROVE EarnedInv
  OBVIOUS
<1>1. TypeInv /\ Accounted /\ NeverAhead
  BY TypeInit, AccountedInit, NeverAheadInit
<1>2. NeverOver
  BY DEF Init, NeverOver
<1>3. CountsAreAdmitted
  <2> SUFFICES ASSUME NEW e \in Env, NEW s \in Subject
               PROVE  local[e].counts[s] <= admitted[s][local[e].index]
                                              + (IF InFlight(e, s) THEN 1 ELSE 0)
    BY DEF CountsAreAdmitted
  <2>1. local[e].counts[s] = 0
    BY DEF Init, NoCounts
  <2>2. admitted[s][local[e].index] \in Nat
    BY <1>1 DEF TypeInv, TypeOK
  <2> QED
    BY <2>1, <2>2
<1>4. RefusedAfterMax
  BY DEF Init, RefusedAfterMax
<1> QED
  BY <1>1, <1>2, <1>3, <1>4 DEF EarnedInv

(* What is counted for a window has been admitted, once nothing is in      *)
(* flight.                                                                 *)
LEMMA CountsSettled ==
  ASSUME TypeInv, CountsAreAdmitted, NEW e \in Env, call[e].pc = "idle", NEW t \in Subject
  PROVE  LocalCounts(e, WindowOf(e))[t] <= admitted[t][WindowOf(e)]
<1>1. admitted[t][WindowOf(e)] \in Nat
  BY WindowKnown DEF TypeInv, TypeOK
<1>2. CASE local[e].index = WindowOf(e)
  <2>1. ~InFlight(e, t)
    BY DEF InFlight
  <2> QED
    BY <1>1, <1>2, <2>1 DEF CountsAreAdmitted, LocalCounts
<1>3. CASE local[e].index # WindowOf(e)
  BY <1>1, <1>3 DEF LocalCounts, NoCounts
<1> QED
  BY <1>2, <1>3

LEMMA EarnedStep ==
  ASSUME StoreFails = FALSE, EarnedInv, [Next]_vars
  PROVE  EarnedInv'
<1>a. /\ TypeInv /\ Accounted /\ NeverAhead
      /\ NeverOver /\ CountsAreAdmitted /\ RefusedAfterMax
  BY DEF EarnedInv
<1>b. TypeInv' /\ Accounted' /\ NeverAhead'
  BY <1>a, TypeStep, AccountedStep, NeverAheadStep
<1>c. /\ counter \in [Subject -> [Window -> 0 .. Max]]
      /\ local \in [Env -> [index: Window, counts: Counts]]
      /\ call \in [Env -> CallState]
      /\ admitted \in [Subject -> [Window -> Nat]]
      /\ Max \in Nat
  BY <1>a, LimitAssumption DEF TypeInv, TypeOK
<1> SUFFICES NeverOver' /\ CountsAreAdmitted' /\ RefusedAfterMax'
  BY <1>b DEF EarnedInv
<1>1. ASSUME NEW e \in Env, NEW s \in Subject, Request(e, s)
      PROVE  NeverOver' /\ CountsAreAdmitted' /\ RefusedAfterMax'
  <2> DEFINE w == WindowOf(e)
             counts == LocalCounts(e, w)
  <2>1. UNCHANGED <<now, counter, admitted>> /\ call[e].pc = "idle"
    BY <1>1 DEF Request
  <2>2. PICK c \in Counts, k \in CallState :
           /\ local' = [local EXCEPT ![e] = [index |-> w, counts |-> c]]
           /\ call' = [call EXCEPT ![e] = k]
           /\ k.subject = s /\ k.window = w
           /\ \/ k.pc = "count" /\ k.answer = "none" /\ c = counts
              \/ k.pc = "idle" /\ k.answer = "refused" /\ c = counts /\ c[s] = Max
              \/ /\ k.pc = "count" /\ k.answer = "none"
                 /\ c = [counts EXCEPT ![s] = @ + 1]
    BY <1>1, <1>a, RequestOutcome
  <2>3. ASSUME NEW t \in Subject PROVE counts[t] <= admitted[t][w]
    BY <1>a, <2>1, CountsSettled
  <2>4. w \in Window /\ \A t \in Subject : admitted[t][w] \in Nat
    BY <1>a, <1>c, WindowKnown
  <2>5. counts \in Counts
    <3>1. NoCounts \in Counts
      BY <1>c DEF NoCounts, Counts
    <3> QED
      BY <1>c, <3>1 DEF LocalCounts
  <2>6. \A f \in Env : WindowOf(f)' = WindowOf(f)
    BY <2>1 DEF WindowOf, IndexAt
  <2> HIDE DEF w, counts
  <2>7. NeverOver'
    BY <1>a, <2>1 DEF NeverOver, Window
  <2>8. CountsAreAdmitted'
    <3> SUFFICES ASSUME NEW f \in Env, NEW t \in Subject, local'[f].index = WindowOf(f)'
                 PROVE  local'[f].counts[t] <= admitted'[t][local'[f].index]
                                                 + (IF InFlight(f, t)' THEN 1 ELSE 0)
      BY DEF CountsAreAdmitted
    <3>1. CASE f # e
      <4>1. local'[f] = local[f] /\ (InFlight(f, t)' <=> InFlight(f, t))
        BY <1>c, <2>2, <3>1 DEF InFlight
      <4> QED
        BY <1>a, <2>1, <2>6, <4>1 DEF CountsAreAdmitted
    <3>2. CASE f = e
      <4>1. local'[f].index = w /\ local'[f].counts = c /\ call'[f] = k
        BY <1>c, <2>2, <3>2
      <4>2. c[t] \in Nat /\ counts[t] \in Nat /\ admitted[t][w] \in Nat
            /\ counts[t] <= admitted[t][w]
        BY <1>c, <2>3, <2>4, <2>5 DEF Counts
      <4>3. CASE c = counts
        BY <2>1, <4>1, <4>2, <4>3
      <4>4. CASE c = [counts EXCEPT ![s] = @ + 1] /\ k.pc = "count"
        <5>1. InFlight(f, s)'
          BY <2>2, <4>1, <4>4 DEF InFlight
        <5>2. CASE t = s
          BY <2>1, <2>5, <4>1, <4>2, <4>4, <5>1, <5>2 DEF Counts
        <5>3. CASE t # s
          <6>1. c[t] = counts[t]
            BY <2>5, <4>4, <5>3 DEF Counts
          <6> QED
            BY <2>1, <4>1, <4>2, <6>1
        <5> QED
          BY <5>2, <5>3
      <4> QED
        BY <2>2, <4>3, <4>4
    <3> QED
      BY <3>1, <3>2
  <2>9. RefusedAfterMax'
    <3> SUFFICES ASSUME NEW f \in Env, call'[f].answer = "refused"
                 PROVE  /\ call'[f].subject \in Subject
                        /\ admitted'[call'[f].subject][call'[f].window] = Max
      BY DEF RefusedAfterMax
    <3>1. CASE f # e
      BY <1>a, <1>c, <2>1, <2>2, <3>1 DEF RefusedAfterMax
    <3>2. CASE f = e
      <4>1. call'[f] = k
        BY <1>c, <2>2, <3>2
      <4>2. counts[s] = Max
        BY <2>2, <4>1
      <4>3. counts[s] <= admitted[s][w] /\ admitted[s][w] <= Max
        BY <1>a, <2>3, <2>4 DEF Accounted
      <4>4. admitted[s][w] \in Nat /\ Max \in Nat
        BY <1>c, <2>4
      <4>5. admitted[s][w] = Max
        BY <4>2, <4>3, <4>4
      <4> QED
        BY <2>1, <2>2, <4>1, <4>5
    <3> QED
      BY <3>1, <3>2
  <2> QED
    BY <2>7, <2>8, <2>9
<1>2. ASSUME NEW e \in Env, AllowRequest(e)
      PROVE  NeverOver' /\ CountsAreAdmitted' /\ RefusedAfterMax'
  <2> DEFINE s == call[e].subject
             w == WindowOf(e)
  <2>1. s \in Subject /\ w \in Window /\ call[e].pc = "count" /\ call[e] \in CallState
        /\ UNCHANGED <<now, local>>
    BY <1>2, <1>a, <1>c, WindowKnown DEF AllowRequest, TypeInv, Subjected
  <2>2. \A f \in Env : WindowOf(f)' = WindowOf(f)
    BY <2>1 DEF WindowOf, IndexAt
  <2>3. \A t \in Subject, v \in Window : admitted[t][v] \in Nat /\ counter[t][v] \in Nat
    BY <1>c
  <2>4. CASE /\ WithinBudget(s, w) /\ Count(s, w) /\ Pass(e)
             /\ admitted' = [admitted EXCEPT ![s][w] = @ + 1]
    <3> DEFINE new == [call[e] EXCEPT !.pc = "idle", !.answer = "passed"]
    <3>1. new.pc = "idle" /\ new.answer = "passed"
      BY <2>1 DEF CallState
    <3>2. call' = [call EXCEPT ![e] = new]
      BY <2>4 DEF Pass, Answer
    <3> HIDE DEF new, s, w
    <3>3. ASSUME NEW t \in Subject, NEW v \in Window
          PROVE  IF t = s /\ v = w
                 THEN /\ admitted'[t][v] = admitted[t][v] + 1
                      /\ counter'[t][v] = counter[t][v] + 1
                 ELSE admitted'[t][v] = admitted[t][v] /\ counter'[t][v] = counter[t][v]
      <4>1. counter' = [counter EXCEPT ![s][w] = @ + 1]
        BY <2>4 DEF Count
      <4> QED
        BY <1>c, <2>1, <2>4, <4>1
    <3>4. NeverOver'
      <4> SUFFICES ASSUME NEW t \in Subject, NEW v \in Window
                   PROVE  counter'[t][v] <= admitted'[t][v]
        BY DEF NeverOver, Window
      <4>1. counter[t][v] <= admitted[t][v]
        BY <1>a DEF NeverOver
      <4> QED
        BY <2>3, <3>3, <4>1
    <3>5. CountsAreAdmitted'
      <4> SUFFICES ASSUME NEW f \in Env, NEW t \in Subject, local'[f].index = WindowOf(f)'
                   PROVE  local'[f].counts[t] <= admitted'[t][local'[f].index]
                                                   + (IF InFlight(f, t)' THEN 1 ELSE 0)
        BY DEF CountsAreAdmitted
      <4> DEFINE v == local[f].index
      <4>1. v \in Window /\ local'[f] = local[f] /\ local[f].counts[t] \in Nat
            /\ v = WindowOf(f)
        BY <1>c, <2>1, <2>2 DEF Counts
      <4>2. local[f].counts[t] <= admitted[t][v] + (IF InFlight(f, t) THEN 1 ELSE 0)
        BY <1>a, <4>1 DEF CountsAreAdmitted
      <4>3. CASE f = e /\ t = s
        <5>1. v = w
          BY <4>1, <4>3 DEF w
        <5>2. admitted'[t][v] = admitted[t][v] + 1
          BY <3>3, <4>1, <4>3, <5>1
        <5> HIDE DEF v
        <5> QED
          BY <2>3, <4>1, <4>2, <5>2 DEF v
      <4>4. CASE ~(f = e /\ t = s)
        <5>1. InFlight(f, t)' <=> InFlight(f, t)
          <6>1. CASE f # e
            BY <1>c, <3>2, <6>1 DEF InFlight
          <6>2. CASE f = e
            <7>1. call'[f].pc = "idle"
              BY <1>c, <3>1, <3>2, <6>2
            <7> QED
              BY <4>4, <6>2, <7>1 DEF InFlight, s
          <6> QED
            BY <6>1, <6>2
        <5>2. admitted'[t][v] = admitted[t][v] \/ admitted'[t][v] = admitted[t][v] + 1
          BY <3>3, <4>1
        <5> HIDE DEF v
        <5> QED
          BY <2>3, <4>1, <4>2, <5>1, <5>2 DEF v
      <4> QED
        BY <4>3, <4>4
    <3>6. RefusedAfterMax'
      <4> SUFFICES ASSUME NEW f \in Env, call'[f].answer = "refused"
                   PROVE  /\ call'[f].subject \in Subject
                          /\ admitted'[call'[f].subject][call'[f].window] = Max
        BY DEF RefusedAfterMax
      <4>1. f # e
        BY <1>c, <3>1, <3>2
      <4>2. call'[f] = call[f]
        BY <1>c, <3>2, <4>1
      <4> DEFINE t == call[f].subject
                 v == call[f].window
      <4>3. t \in Subject /\ v \in Window /\ admitted[t][v] = Max
        BY <1>a, <1>c, <4>2 DEF RefusedAfterMax, CallState
      <4>4. admitted'[t][v] \in Nat /\ admitted'[t][v] <= Max
        BY <1>b, <4>3 DEF Accounted, TypeInv, TypeOK, Window
      <4> HIDE DEF t, v
      <4>5. admitted'[t][v] = admitted[t][v] \/ admitted'[t][v] = admitted[t][v] + 1
        BY <3>3, <4>3
      <4>6. admitted'[t][v] = Max
        BY <1>c, <4>3, <4>4, <4>5
      <4> QED
        BY <4>2, <4>3, <4>6 DEF t, v
    <3> QED
      BY <3>4, <3>5, <3>6
  <2>5. CASE /\ ~WithinBudget(s, w)
             /\ call' = [call EXCEPT ![e] = [call[e] EXCEPT !.pc = "idle", !.window = w,
                                                            !.answer = "refused"]]
             /\ UNCHANGED <<counter, admitted, passed>>
    <3> DEFINE new == [call[e] EXCEPT !.pc = "idle", !.window = w, !.answer = "refused"]
    <3>1. new.pc = "idle" /\ new.answer = "refused" /\ new.subject = s /\ new.window = w
      BY <2>1 DEF CallState
    <3>2. call' = [call EXCEPT ![e] = new]
      BY <2>5
    <3> HIDE DEF new
    <3>3. admitted[s][w] = Max
      <4>1. ~(counter[s][w] < Max)
        BY <2>5 DEF WithinBudget
      <4>2. counter[s][w] <= admitted[s][w] /\ admitted[s][w] <= Max
        BY <1>a, <2>1 DEF NeverOver, Accounted
      <4>3. counter[s][w] \in Nat /\ admitted[s][w] \in Nat /\ Max \in Nat
        BY <1>c, <2>1, <2>3
      <4> HIDE DEF s, w
      <4> QED
        BY <4>1, <4>2, <4>3
    <3>4. NeverOver'
      BY <1>a, <2>5 DEF NeverOver, Window
    <3>5. CountsAreAdmitted'
      <4> SUFFICES ASSUME NEW f \in Env, NEW t \in Subject, local'[f].index = WindowOf(f)'
                   PROVE  local'[f].counts[t] <= admitted'[t][local'[f].index]
                                                   + (IF InFlight(f, t)' THEN 1 ELSE 0)
        BY DEF CountsAreAdmitted
      <4> DEFINE v == local[f].index
      <4>1. v \in Window /\ local'[f] = local[f] /\ local[f].counts[t] \in 0 .. Max
            /\ v = WindowOf(f)
        BY <1>c, <2>1, <2>2 DEF Counts
      <4>2. local[f].counts[t] <= admitted[t][v] + (IF InFlight(f, t) THEN 1 ELSE 0)
        BY <1>a, <4>1 DEF CountsAreAdmitted
      <4>3. CASE f = e /\ t = s
        <5>1. admitted[t][v] = Max
          BY <3>3, <4>1, <4>3
        <5> HIDE DEF v
        <5> QED
          BY <1>c, <2>5, <4>1, <5>1 DEF v
      <4>4. CASE ~(f = e /\ t = s)
        <5>1. InFlight(f, t)' <=> InFlight(f, t)
          <6>1. CASE f # e
            BY <1>c, <3>2, <6>1 DEF InFlight
          <6>2. CASE f = e
            <7>1. call'[f].pc = "idle"
              BY <1>c, <3>1, <3>2, <6>2
            <7> QED
              BY <4>4, <6>2, <7>1 DEF InFlight
          <6> QED
            BY <6>1, <6>2
        <5> QED
          BY <2>5, <4>1, <4>2, <5>1
      <4> QED
        BY <4>3, <4>4
    <3>6. RefusedAfterMax'
      <4> SUFFICES ASSUME NEW f \in Env, call'[f].answer = "refused"
                   PROVE  /\ call'[f].subject \in Subject
                          /\ admitted'[call'[f].subject][call'[f].window] = Max
        BY DEF RefusedAfterMax
      <4>1. CASE f = e
        BY <1>c, <2>1, <2>5, <3>1, <3>2, <3>3, <4>1
      <4>2. CASE f # e
        BY <1>a, <1>c, <2>5, <3>2, <4>2 DEF RefusedAfterMax
      <4> QED
        BY <4>1, <4>2
    <3> QED
      BY <3>4, <3>5, <3>6
  <2> QED
    BY <1>2, <2>4, <2>5 DEF AllowRequest
<1>3. ASSUME NEW t \in Subject, NEW v \in Window, Reap(t, v)
      PROVE  NeverOver' /\ CountsAreAdmitted' /\ RefusedAfterMax'
  <2>1. UNCHANGED <<now, local, call, admitted>> /\ counter' = [counter EXCEPT ![t][v] = 0]
    BY <1>3 DEF Reap
  <2>2. NeverOver'
    <3> SUFFICES ASSUME NEW s \in Subject, NEW w \in Window
                 PROVE  counter'[s][w] <= admitted'[s][w]
      BY DEF NeverOver, Window
    <3>1. counter'[s][w] = 0 \/ counter'[s][w] = counter[s][w]
      BY <1>c, <2>1
    <3>2. admitted[s][w] \in Nat /\ counter[s][w] <= admitted[s][w]
      BY <1>a, <1>c DEF NeverOver
    <3> QED
      BY <2>1, <3>1, <3>2
  <2> QED
    BY <1>a, <2>1, <2>2 DEF CountsAreAdmitted, RefusedAfterMax, InFlight, WindowOf, IndexAt
<1>4. CASE Tick
  <2>1. UNCHANGED <<counter, local, call, admitted>>
    BY <1>4 DEF Tick
  <2>2. CountsAreAdmitted'
    <3> SUFFICES ASSUME NEW f \in Env, NEW t \in Subject, local'[f].index = WindowOf(f)'
                 PROVE  local'[f].counts[t] <= admitted'[t][local'[f].index]
                                                 + (IF InFlight(f, t)' THEN 1 ELSE 0)
      BY DEF CountsAreAdmitted
    <3>1. /\ WindowOf(f) \in Nat /\ WindowOf(f)' \in Nat /\ WindowOf(f) <= WindowOf(f)'
          /\ local[f].index \in Nat /\ local[f].index <= WindowOf(f)
      BY <1>a, <1>c, ClocksAdvance DEF NeverAhead, Window
    <3>2. local[f].index = WindowOf(f)
      BY <2>1, <3>1
    <3> QED
      BY <1>a, <2>1, <3>2 DEF CountsAreAdmitted, InFlight
  <2> QED
    BY <1>a, <2>1, <2>2 DEF NeverOver, RefusedAfterMax, Window
<1>5. CASE UNCHANGED vars
  BY <1>a, <1>5
     DEF vars, NeverOver, CountsAreAdmitted, RefusedAfterMax, InFlight, WindowOf, IndexAt,
           Window
<1>6. ASSUME NEW e \in Env PROVE ~FailOpen(e) /\ ~Resend(e)
  BY DEF FailOpen, Resend
<1> QED
  BY <1>1, <1>2, <1>3, <1>4, <1>5, <1>6 DEF Next

(* While the table answers, a refusal by either counter means that Max     *)
(* requests of that subject have passed in that window: the counter in     *)
(* memory has no false positives (localRateLimiter.allow, AllowRequest).   *)
THEOREM RefusalIsEarned ==
  ASSUME StoreFails = FALSE
  PROVE  MCSpec => []RefusalsAreEarned
<1> DEFINE Inv == setting = "crowded" => EarnedInv
<1>1. MCInit => Inv
  BY EarnedInit DEF MCInit
<1>2. Inv /\ [MCNext]_<<vars, limiterVars, adapterVars, setting>> => Inv'
  <2> SUFFICES ASSUME Inv, [MCNext]_<<vars, limiterVars, adapterVars, setting>>,
                      setting' = "crowded"
               PROVE  EarnedInv'
    OBVIOUS
  <2>1. setting = "crowded" /\ [Next]_vars
    BY DEF MCNext
  <2> QED
    BY <2>1, EarnedStep
<1>3. Inv => RefusalsAreEarned
  BY DEF EarnedInv, RefusedAfterMax, RefusalsAreEarned, NoFalsePositives
<1> QED
  BY <1>1, <1>2, <1>3, PTL DEF MCSpec

-----------------------------------------------------------------------------
(* What an environment lets pass in a window, the request in flight        *)
(* included, is what it has counted there: nothing yet in a window to come,*)
(* and Max at most in one that is over.                                    *)

CalledHere == \A e \in Env : call[e].pc = "count" => call[e].window = local[e].index

Room(e, s, w) ==
  IF w = local[e].index THEN local[e].counts[s]
  ELSE IF w > local[e].index THEN 0 ELSE Max

Underway(e, s, w) == InFlight(e, s) /\ call[e].window = w

CeilingKept ==
  \A e \in Env, s \in Subject, w \in Window :
    passed[e][s][w] + (IF Underway(e, s, w) THEN 1 ELSE 0) <= Room(e, s, w)

CeilingInv == TypeInv /\ NeverAhead /\ CalledHere /\ CeilingKept

LEMMA CeilingInit == Init => CeilingInv
<1> SUFFICES ASSUME Init PROVE CeilingInv
  OBVIOUS
<1>1. TypeInv /\ NeverAhead /\ CalledHere
  BY TypeInit, NeverAheadInit DEF Init, CalledHere
<1>2. CeilingKept
  <2> SUFFICES ASSUME NEW e \in Env, NEW s \in Subject, NEW w \in Window
               PROVE  passed[e][s][w] + (IF Underway(e, s, w) THEN 1 ELSE 0)
                        <= Room(e, s, w)
    BY DEF CeilingKept
  <2>1. passed[e][s][w] = 0 /\ ~Underway(e, s, w) /\ local[e].counts[s] = 0
    BY DEF Init, Underway, InFlight, NoCounts
  <2> QED
    BY <2>1, LimitAssumption DEF Room
<1> QED
  BY <1>1, <1>2 DEF CeilingInv

(* With room for every subject, none is let through uncounted. *)
LEMMA NeverFull ==
  ASSUME IsFiniteSet(Subject), Cardinality(Subject) <= MaxSubjects,
         NEW counts \in Counts, NEW s \in Subject
  PROVE  ~Full(counts, s)
<1> DEFINE counted == {t \in Subject : counts[t] > 0}
<1>a. Full(counts, s) = (counts[s] = 0 /\ Cardinality(counted) >= MaxSubjects)
  BY Zenon DEF Full
<1> SUFFICES ASSUME counts[s] = 0 PROVE ~(Cardinality(counted) >= MaxSubjects)
  <2> HIDE DEF counted
  <2> QED
    BY <1>a
<1>1. counted \subseteq Subject /\ counted # Subject
  OBVIOUS
<1>2. /\ Cardinality(counted) <= Cardinality(Subject)
      /\ Cardinality(counted) # Cardinality(Subject)
  BY <1>1, FS_Subset
<1>3. Cardinality(counted) \in Nat /\ Cardinality(Subject) \in Nat /\ MaxSubjects \in Nat
  BY <1>1, FS_Subset, FS_CardinalityType, LimitAssumption
<1> HIDE DEF counted
<1> QED
  BY <1>2, <1>3

(* A request that passes was underway. *)
LEMMA PassKeepsCeiling ==
  ASSUME CeilingInv, NEW e \in Env, call[e].pc = "count", Pass(e), UNCHANGED local
  PROVE  CalledHere' /\ CeilingKept'
<1>a. /\ local \in [Env -> [index: Window, counts: Counts]]
      /\ call \in [Env -> CallState] /\ call[e] \in CallState
      /\ passed \in [Env -> [Subject -> [Window -> Nat]]]
      /\ call[e].subject \in Subject /\ call[e].window \in Window
      /\ CalledHere /\ CeilingKept
  BY DEF CeilingInv, TypeInv, TypeOK, Subjected, CallState
<1> DEFINE new == [call[e] EXCEPT !.pc = "idle", !.answer = "passed"]
<1>1. new.pc = "idle"
  BY <1>a DEF CallState
<1>2. call' = [call EXCEPT ![e] = new]
  BY DEF Pass, Answer
<1> HIDE DEF new
<1>3. CalledHere'
  BY <1>a, <1>1, <1>2 DEF CalledHere
<1>4. CeilingKept'
  <2> SUFFICES ASSUME NEW f \in Env, NEW s \in Subject, NEW w \in Window
               PROVE  passed'[f][s][w] + (IF Underway(f, s, w)' THEN 1 ELSE 0)
                        <= Room(f, s, w)'
    BY DEF CeilingKept, Window
  <2>1. Room(f, s, w)' = Room(f, s, w)
    BY DEF Room
  <2>2. passed[f][s][w] + (IF Underway(f, s, w) THEN 1 ELSE 0) <= Room(f, s, w)
        /\ passed[f][s][w] \in Nat
    BY <1>a DEF CeilingKept
  <2>3. CASE f # e
    <3>1. passed'[f] = passed[f] /\ call'[f] = call[f]
      BY <1>a, <1>2, <2>3 DEF Pass
    <3> QED
      BY <2>1, <2>2, <3>1 DEF Underway, InFlight
  <2>4. CASE f = e
    <3>1. call'[f] = new /\ ~Underway(f, s, w)'
      BY <1>a, <1>1, <1>2, <2>4 DEF Underway, InFlight
    <3>2. CASE Underway(f, s, w)
      <4>1. s = call[e].subject /\ w = call[e].window
        BY <2>4, <3>2 DEF Underway, InFlight
      <4>2. passed'[f][s][w] = passed[f][s][w] + 1
        BY <1>a, <2>4, <4>1 DEF Pass
      <4> QED
        BY <2>1, <2>2, <3>1, <3>2, <4>2
    <3>3. CASE ~Underway(f, s, w)
      <4>1. ~(s = call[e].subject /\ w = call[e].window)
        BY <2>4, <3>3 DEF Underway, InFlight
      <4>2. passed'[f][s][w] = passed[f][s][w]
        BY <1>a, <2>4, <4>1 DEF Pass
      <4> QED
        BY <2>1, <2>2, <3>1, <3>3, <4>2
    <3> QED
      BY <3>2, <3>3
  <2> QED
    BY <2>3, <2>4
<1> QED
  BY <1>3, <1>4

LEMMA CeilingStep ==
  ASSUME IsFiniteSet(Subject), Cardinality(Subject) <= MaxSubjects,
         CeilingInv, [Next]_vars
  PROVE  CeilingInv'
<1>a. TypeInv /\ NeverAhead /\ CalledHere /\ CeilingKept
  BY DEF CeilingInv
<1>b. TypeInv' /\ NeverAhead'
  BY <1>a, TypeStep, NeverAheadStep
<1>c. /\ local \in [Env -> [index: Window, counts: Counts]]
      /\ call \in [Env -> CallState]
      /\ passed \in [Env -> [Subject -> [Window -> Nat]]]
      /\ Max \in Nat
  BY <1>a, LimitAssumption DEF TypeInv, TypeOK
<1> SUFFICES CalledHere' /\ CeilingKept'
  BY <1>b DEF CeilingInv
<1>1. ASSUME NEW e \in Env, NEW s \in Subject, Request(e, s)
      PROVE  CalledHere' /\ CeilingKept'
  <2> DEFINE w == WindowOf(e)
             counts == LocalCounts(e, w)
  <2>1. UNCHANGED passed /\ call[e].pc = "idle"
    BY <1>1 DEF Request
  <2>2. counts \in Counts
    <3>1. NoCounts \in Counts
      BY <1>c DEF NoCounts, Counts
    <3> QED
      BY <1>c, <3>1 DEF LocalCounts
  <2>3. ~Full(counts, s)
    BY <2>2, NeverFull
  <2>4. PICK c \in Counts, k \in CallState :
           /\ local' = [local EXCEPT ![e] = [index |-> w, counts |-> c]]
           /\ call' = [call EXCEPT ![e] = k]
           /\ k.subject = s /\ k.window = w
           /\ \/ k.pc = "idle" /\ c = counts
              \/ k.pc = "count" /\ c = [counts EXCEPT ![s] = @ + 1]
    BY <1>1, <1>a, <2>3, RequestOutcome
  <2>5. w \in Window /\ w \in Nat /\ local[e].index \in Nat /\ local[e].index <= w
    BY <1>a, <1>c, WindowKnown DEF NeverAhead, Window
  <2>6. ASSUME NEW t \in Subject PROVE passed[e][t][w] <= counts[t]
    <3>1. passed[e][t][w] + (IF Underway(e, t, w) THEN 1 ELSE 0) <= Room(e, t, w)
      BY <1>a, <2>5 DEF CeilingKept
    <3>2. ~Underway(e, t, w) /\ passed[e][t][w] \in Nat
      BY <1>c, <2>1, <2>5 DEF Underway, InFlight
    <3>3. Room(e, t, w) = counts[t]
      BY <2>5 DEF Room, LocalCounts, NoCounts
    <3>4. counts[t] \in Nat
      BY <2>2 DEF Counts
    <3> HIDE DEF w, counts
    <3> QED
      BY <3>1, <3>2, <3>3, <3>4
  <2> HIDE DEF w, counts
  <2>7. local'[e].index = w /\ local'[e].counts = c /\ call'[e] = k
    BY <1>c, <2>4
  <2>8. CalledHere'
    BY <1>a, <1>c, <2>4, <2>7 DEF CalledHere
  <2>9. CeilingKept'
    <3> SUFFICES ASSUME NEW f \in Env, NEW t \in Subject, NEW v \in Window
                 PROVE  passed'[f][t][v] + (IF Underway(f, t, v)' THEN 1 ELSE 0)
                          <= Room(f, t, v)'
      BY DEF CeilingKept, Window
    <3>1. /\ passed[f][t][v] \in Nat /\ v \in Nat
          /\ passed[f][t][v] + (IF Underway(f, t, v) THEN 1 ELSE 0) <= Room(f, t, v)
      <4>1. passed[f][t][v] + (IF Underway(f, t, v) THEN 1 ELSE 0) <= Room(f, t, v)
        BY <1>a DEF CeilingKept
      <4>2. passed[f][t][v] \in Nat
        BY <1>c
      <4>3. v \in Nat
        BY DEF Window
      <4> QED
        BY <4>1, <4>2, <4>3
    <3>2. CASE f # e
      <4>1. local'[f] = local[f] /\ call'[f] = call[f]
        BY <1>c, <2>4, <3>2
      <4> QED
        BY <2>1, <3>1, <4>1 DEF Underway, InFlight, Room
    <3>3. CASE f = e /\ v = w
      <4>1. Room(f, t, v)' = c[t]
        BY <2>7, <3>3 DEF Room
      <4>2. passed[f][t][v] <= counts[t] /\ counts[t] \in Nat
        BY <2>2, <2>6, <3>3 DEF Counts
      <4>3. CASE k.pc = "idle" /\ c = counts
        <5>1. ~Underway(f, t, v)'
          BY <2>7, <3>3, <4>3 DEF Underway, InFlight
        <5> QED
          BY <2>1, <3>1, <4>1, <4>2, <4>3, <5>1
      <4>4. CASE k.pc = "count" /\ c = [counts EXCEPT ![s] = @ + 1]
        <5>1. CASE t = s
          <6>1. c[t] = counts[t] + 1
            BY <2>2, <4>4, <5>1 DEF Counts
          <6> QED
            BY <2>1, <3>1, <4>1, <4>2, <6>1
        <5>2. CASE t # s
          <6>1. c[t] = counts[t] /\ ~Underway(f, t, v)'
            BY <2>2, <2>4, <2>7, <3>3, <4>4, <5>2 DEF Counts, Underway, InFlight
          <6> QED
            BY <2>1, <3>1, <4>1, <4>2, <6>1
        <5> QED
          BY <5>1, <5>2
      <4> QED
        BY <2>4, <4>3, <4>4
    <3>4. CASE f = e /\ v # w
      <4>1. ~Underway(f, t, v)' /\ ~Underway(f, t, v)
        BY <2>1, <2>4, <2>7, <3>4 DEF Underway, InFlight
      <4>2. CASE v > w
        <5>1. Room(f, t, v)' = 0 /\ Room(f, t, v) = 0
          BY <2>5, <2>7, <3>1, <3>4, <4>2 DEF Room
        <5> QED
          BY <2>1, <3>1, <4>1, <5>1
      <4>3. CASE v < w
        <5>1. Room(f, t, v)' = Max
          BY <2>5, <2>7, <3>1, <3>4, <4>3 DEF Room
        <5>2. Room(f, t, v) \in Nat /\ Room(f, t, v) <= Max
          BY <1>c DEF Room, Counts
        <5> QED
          BY <1>c, <2>1, <3>1, <4>1, <5>1, <5>2
      <4> QED
        BY <2>5, <3>1, <3>4, <4>2, <4>3
    <3> QED
      BY <3>2, <3>3, <3>4
  <2> QED
    BY <2>8, <2>9
<1>2. ASSUME NEW e \in Env, call[e].pc = "count", Pass(e), UNCHANGED local
      PROVE  CalledHere' /\ CeilingKept'
  BY <1>2, PassKeepsCeiling
<1>3. ASSUME NEW e \in Env, AllowRequest(e), ~Pass(e)
      PROVE  CalledHere' /\ CeilingKept'
  <2> DEFINE new == [call[e] EXCEPT !.pc = "idle", !.window = WindowOf(e),
                                    !.answer = "refused"]
  <2>1. new.pc = "idle"
    BY <1>c DEF CallState
  <2>2. call' = [call EXCEPT ![e] = new] /\ UNCHANGED <<local, passed>>
    BY <1>3 DEF AllowRequest
  <2> HIDE DEF new
  <2>3. CalledHere'
    BY <1>a, <1>c, <2>1, <2>2 DEF CalledHere
  <2>4. CeilingKept'
    <3> SUFFICES ASSUME NEW f \in Env, NEW t \in Subject, NEW v \in Window
                 PROVE  passed'[f][t][v] + (IF Underway(f, t, v)' THEN 1 ELSE 0)
                          <= Room(f, t, v)'
      BY DEF CeilingKept, Window
    <3>1. Underway(f, t, v)' => Underway(f, t, v)
      BY <1>c, <2>1, <2>2 DEF Underway, InFlight
    <3>2. passed[f][t][v] \in Nat /\ Room(f, t, v)' = Room(f, t, v)
          /\ passed[f][t][v] + (IF Underway(f, t, v) THEN 1 ELSE 0) <= Room(f, t, v)
      BY <1>a, <1>c, <2>2 DEF CeilingKept, Room
    <3>3. Room(f, t, v) \in Nat
      BY <1>c DEF Room, Counts
    <3> QED
      BY <2>2, <3>1, <3>2, <3>3
  <2> QED
    BY <2>3, <2>4
<1>4. ASSUME UNCHANGED <<local, call, passed>>
      PROVE  CalledHere' /\ CeilingKept'
  BY <1>a, <1>4 DEF CalledHere, CeilingKept, Underway, InFlight, Room, Window
<1>5. ASSUME NEW e \in Env, AllowRequest(e) PROVE call[e].pc = "count" /\ UNCHANGED local
  BY <1>5 DEF AllowRequest
<1>6. ASSUME NEW e \in Env, FailOpen(e)
      PROVE  call[e].pc = "count" /\ UNCHANGED local /\ Pass(e)
  BY <1>6 DEF FailOpen
<1>7. ASSUME \/ \E e \in Env : Resend(e)
             \/ \E s \in Subject, w \in Window : Reap(s, w)
             \/ Tick
             \/ UNCHANGED vars
      PROVE  UNCHANGED <<local, call, passed>>
  BY <1>7 DEF Resend, Reap, Tick, vars
<1> QED
  BY <1>1, <1>2, <1>3, <1>4, <1>5, <1>6, <1>7 DEF Next

(* Whatever calls to the table are lost, an environment that has room for  *)
(* every subject lets no more than Max requests of each pass in a window   *)
(* (localRateLimiter.allow and the error path of the middleware).          *)
THEOREM OutageHasACeiling ==
  ASSUME IsFiniteSet(Subject), Cardinality(Subject) <= MaxSubjects
  PROVE  Spec => [](OutageCeiling /\ OutageIsBounded)
<1>1. CeilingInv => OutageCeiling /\ OutageIsBounded
  <2> SUFFICES ASSUME CeilingInv, NEW e \in Env, NEW s \in Subject, NEW w \in Window
               PROVE  passed[e][s][w] <= Max
    BY DEF OutageCeiling, OutageIsBounded
  <2>1. passed[e][s][w] \in Nat /\ Max \in Nat
        /\ passed[e][s][w] + (IF Underway(e, s, w) THEN 1 ELSE 0) <= Room(e, s, w)
    BY LimitAssumption DEF CeilingInv, TypeInv, TypeOK, CeilingKept
  <2>2. Room(e, s, w) \in Nat /\ Room(e, s, w) <= Max
    BY <2>1 DEF Room, CeilingInv, TypeInv, TypeOK, Counts
  <2> QED
    BY <2>1, <2>2
<1>2. CeilingInv /\ [Next]_vars => CeilingInv'
  BY CeilingStep
<1> QED
  BY <1>1, <1>2, CeilingInit, PTL DEF Spec

-----------------------------------------------------------------------------
(* MigrationLimiter implements buckets that are never forgotten            *)
(* (TokenBuckets).  Two facts carry the proof: a refill on demand comes to *)
(* what a refill at every tick would have come to, and what is evicted has *)
(* nothing to remember.                                                    *)

(* Buckets are dated, and hold no more than they can. *)
Dated(b, cap) == b.tokens \in 0..cap /\ b.last \in 0..clock

LimiterInv ==
  /\ clock \in Nat
  /\ Dated(global, GlobalBurst)
  /\ tracked \subseteq Migrant
  /\ DOMAIN bucket = Migrant
  /\ \A s \in Migrant : Dated(bucket[s], Burst)

-----------------------------------------------------------------------------
(* Levels.  *)

LEMMA LevelInRange ==
  ASSUME NEW b, NEW refill \in Nat, NEW cap \in Nat, clock \in Nat, Dated(b, cap)
  PROVE  Limiter!Level(b, refill, cap) \in 0..cap
<1>1. clock - b.last \in Nat /\ b.tokens \in Nat
  BY DEF Dated
<1>2. (clock - b.last) * refill \in Nat
  BY <1>1
<1> QED BY <1>1, <1>2 DEF Limiter!Level, Limiter!Capped

LEMMA CappedTwice ==
  ASSUME NEW n \in Nat, NEW m \in Nat, NEW cap \in Nat
  PROVE  Limiter!Capped(n + m, cap) = Limiter!Capped(Limiter!Capped(n, cap) + m, cap)
BY DEF Limiter!Capped

(* A tick later the level is what one tick's refill makes of it. *)
LEMMA LevelTicks ==
  ASSUME NEW b, NEW refill \in Nat, NEW cap \in Nat, clock \in Nat, Dated(b, cap),
         clock' = clock + 1
  PROVE  Limiter!Capped(b.tokens + (clock' - b.last) * refill, cap)
           = Limiter!Capped(Limiter!Level(b, refill, cap) + refill, cap)
<1> DEFINE d == clock - b.last
           m == d * refill
<1>1. d \in Nat /\ b.tokens \in Nat
  BY DEF Dated
<1>2. m \in Nat
  BY <1>1
<1>3. clock' - b.last = d + 1
  BY <1>1 DEF Dated
<1>4. (d + 1) * refill = m + refill
  BY <1>1
<1>5. Limiter!Level(b, refill, cap) = Limiter!Capped(b.tokens + m, cap)
  BY DEF Limiter!Level
<1> HIDE DEF d, m
<1>6. b.tokens + (clock' - b.last) * refill = (b.tokens + m) + refill
  BY <1>1, <1>2, <1>3, <1>4
<1>7. b.tokens + m \in Nat
  BY <1>1, <1>2
<1>8. Limiter!Capped((b.tokens + m) + refill, cap)
        = Limiter!Capped(Limiter!Capped(b.tokens + m, cap) + refill, cap)
  BY <1>7, CappedTwice
<1> QED BY <1>5, <1>6, <1>8, Zenon

(* To bring a bucket to date changes no level, and to take one token       *)
(* lowers it by that.                                                      *)
LEMMA LevelNow ==
  ASSUME NEW n \in Nat, NEW refill \in Nat, NEW cap \in Nat, clock \in Nat, n <= cap
  PROVE  Limiter!Level([tokens |-> n, last |-> clock], refill, cap) = n
<1>1. (clock - clock) * refill = 0
  OBVIOUS
<1> QED BY <1>1 DEF Limiter!Level, Limiter!Capped

(* What a subject has to spend, in the table or out of it. *)
Worth(s) == IF s \in tracked THEN Limiter!Level(bucket[s], Refill, Burst) ELSE Burst

GlobalLevel == Limiter!Level(global, GlobalRefill, GlobalBurst)

LEMMA BucketsMapping ==
  /\ Limiter!Buckets!vars = <<[s \in Migrant |-> Worth(s)], GlobalLevel>>
  /\ Limiter!Buckets!Owing = {s \in Migrant : Worth(s) < Burst}
BY DEF Limiter!Buckets!vars, Limiter!Buckets!Owing, Worth, GlobalLevel

(* The steps of the buckets, in these terms. *)
LEMMA BucketsTick ==
  ASSUME \A s \in Migrant : Worth(s)' = Limiter!Capped(Worth(s) + Refill, Burst),
         GlobalLevel' = Limiter!Capped(GlobalLevel + GlobalRefill, GlobalBurst)
  PROVE  Limiter!Buckets!Tick
BY DEF Limiter!Buckets!Tick, Limiter!Buckets!Capped, Limiter!Capped, Worth, GlobalLevel

LEMMA BucketsGrant ==
  ASSUME NEW s \in Migrant, GlobalLevel >= Cost, Worth(s) >= Cost,
         GlobalLevel' = GlobalLevel - Cost, Worth(s)' = Worth(s) - Cost,
         \A t \in Migrant \ {s} : Worth(t)' = Worth(t)
  PROVE  Limiter!Buckets!Grant(s)
BY DEF Limiter!Buckets!Grant, Worth, GlobalLevel

LEMMA SameCardinality ==
  \A S : /\ Limiter!Cardinality(S) = Cardinality(S)
         /\ Limiter!Buckets!Cardinality(S) = Cardinality(S)
BY DEF Cardinality, Limiter!Cardinality, Limiter!Buckets!Cardinality

LEMMA BucketsRefuse ==
  ASSUME NEW s \in Migrant, GlobalLevel >= Cost,
         \/ Worth(s) < Cost
         \/ Worth(s) = Burst /\ Cardinality({t \in Migrant : Worth(t) < Burst}) >= Places,
         Burst \in Nat,
         GlobalLevel' = GlobalLevel - Cost,
         \A t \in Migrant : Worth(t)' = Worth(t)
  PROVE  Limiter!Buckets!Refuse(s)
<1>1. Limiter!Buckets!Owing = {t \in Migrant : Worth(t) < Burst}
  BY BucketsMapping
<1>2. Worth(s) = Burst => s \notin Limiter!Buckets!Owing
  BY <1>1
<1>3. [t \in Migrant |-> Worth(t)]' = [t \in Migrant |-> Worth(t)]
  OBVIOUS
<1>4. \/ Worth(s) < Cost
      \/ /\ s \notin Limiter!Buckets!Owing
         /\ Limiter!Buckets!Cardinality(Limiter!Buckets!Owing) >= Places
  BY <1>1, <1>2, SameCardinality
<1> QED BY <1>3, <1>4 DEF Limiter!Buckets!Refuse, Worth, GlobalLevel

-----------------------------------------------------------------------------
(* The steps of the limiter. *)

LEMMA LimiterTicks ==
  ASSUME Limiter!newLimiter, LimiterInv, Limiter!Tick
  PROVE  LimiterInv' /\ Limiter!Buckets!Tick
<1>1. clock \in Nat /\ clock' = clock + 1 /\ UNCHANGED <<global, tracked, bucket>>
  BY DEF Limiter!Tick, LimiterInv
<1>2. Refill \in Nat /\ GlobalRefill \in Nat /\ Burst \in Nat /\ GlobalBurst \in Nat
  BY DEF Limiter!newLimiter
<1>3. LimiterInv'
  BY <1>1 DEF LimiterInv, Dated
<1>4. GlobalLevel' = Limiter!Capped(GlobalLevel + GlobalRefill, GlobalBurst)
  <2>1. Dated(global, GlobalBurst)
    BY DEF LimiterInv
  <2>2. GlobalLevel'
          = Limiter!Capped(global.tokens + (clock' - global.last) * GlobalRefill, GlobalBurst)
    BY <1>1 DEF GlobalLevel, Limiter!Level
  <2> QED BY <1>1, <1>2, <2>1, <2>2, LevelTicks DEF GlobalLevel
<1>5. ASSUME NEW s \in Migrant
      PROVE  Worth(s)' = Limiter!Capped(Worth(s) + Refill, Burst)
  <2>1. CASE s \in tracked
    <3>1. Dated(bucket[s], Burst)
      BY DEF LimiterInv
    <3>2. Worth(s)'
            = Limiter!Capped(bucket[s].tokens + (clock' - bucket[s].last) * Refill, Burst)
      BY <1>1, <2>1 DEF Worth, Limiter!Level
    <3>3. Worth(s) = Limiter!Level(bucket[s], Refill, Burst)
      BY <2>1 DEF Worth
    <3> QED BY <1>1, <1>2, <3>1, <3>2, <3>3, LevelTicks
  <2>2. CASE s \notin tracked
    BY <1>1, <1>2, <2>2 DEF Worth, Limiter!Capped
  <2> QED BY <2>1, <2>2
<1> QED BY <1>3, <1>4, <1>5, BucketsTick

(* A bucket as refilled or as taken from, one step on: its level, and that *)
(* it is dated.                                                            *)
LEMMA AsRefilled ==
  ASSUME NEW b, NEW refill \in Nat, NEW cap \in Nat, clock \in Nat, Dated(b, cap)
  PROVE  /\ Dated(Limiter!Refilled(b, refill, cap), cap)
         /\ Limiter!Level(Limiter!Refilled(b, refill, cap), refill, cap)
              = Limiter!Level(b, refill, cap)
<1>1. Limiter!Level(b, refill, cap) \in 0..cap
  BY LevelInRange
<1>2. Limiter!Refilled(b, refill, cap)
        = [tokens |-> Limiter!Level(b, refill, cap), last |-> clock]
  BY DEF Limiter!Refilled
<1> QED BY <1>1, <1>2, LevelNow DEF Dated

LEMMA AsTaken ==
  ASSUME NEW b, NEW refill \in Nat, NEW cap \in Nat, clock \in Nat, Dated(b, cap),
         Cost \in Nat, Limiter!Level(b, refill, cap) >= Cost
  PROVE  /\ Dated(Limiter!Taken(b, refill, cap), cap)
         /\ Limiter!Level(Limiter!Taken(b, refill, cap), refill, cap)
              = Limiter!Level(b, refill, cap) - Cost
<1>1. Limiter!Level(b, refill, cap) \in 0..cap
  BY LevelInRange
<1>2. Limiter!Taken(b, refill, cap)
        = [tokens |-> Limiter!Level(b, refill, cap) - Cost, last |-> clock]
  BY DEF Limiter!Taken
<1>3. /\ Limiter!Level(b, refill, cap) - Cost \in Nat
      /\ Limiter!Level(b, refill, cap) - Cost <= cap
  BY <1>1
<1> QED BY <1>2, <1>3, LevelNow DEF Dated

LEMMA RefusesAll ==
  ASSUME Limiter!newLimiter, LimiterInv, Limiter!refuseAll
  PROVE  LimiterInv' /\ UNCHANGED Limiter!Buckets!vars
<1>1. /\ clock \in Nat /\ GlobalRefill \in Nat /\ GlobalBurst \in Nat
      /\ Dated(global, GlobalBurst)
  BY DEF Limiter!newLimiter, LimiterInv
<1>2. /\ global' = Limiter!Refilled(global, GlobalRefill, GlobalBurst)
      /\ UNCHANGED <<clock, tracked, bucket>>
  BY DEF Limiter!refuseAll
<1>3. /\ Dated(global', GlobalBurst)
      /\ Limiter!Level(global', GlobalRefill, GlobalBurst) = GlobalLevel
  BY <1>1, <1>2, AsRefilled DEF GlobalLevel
<1>4. LimiterInv'
  BY <1>2, <1>3 DEF LimiterInv, Dated
<1>5. GlobalLevel' = GlobalLevel
  BY <1>2, <1>3 DEF GlobalLevel, Limiter!Level
<1>6. \A s \in Migrant : Worth(s)' = Worth(s)
  BY <1>2 DEF Worth, Limiter!Level
<1> QED BY <1>4, <1>5, <1>6, BucketsMapping DEF Worth, GlobalLevel, Limiter!Buckets!vars

(* What allow does to the common bucket. *)
LEMMA PaysTheCommonBucket ==
  ASSUME Limiter!newLimiter, LimiterInv, NEW s \in Migrant, Limiter!allow(s)
  PROVE  /\ clock' = clock
         /\ GlobalLevel >= Cost
         /\ GlobalLevel' = GlobalLevel - Cost
         /\ Dated(global', GlobalBurst)
<1>1. /\ clock \in Nat /\ GlobalRefill \in Nat /\ GlobalBurst \in Nat /\ Cost \in Nat
      /\ Dated(global, GlobalBurst)
  BY DEF Limiter!newLimiter, LimiterInv
<1>2. /\ GlobalLevel >= Cost
      /\ global' = Limiter!Taken(global, GlobalRefill, GlobalBurst)
      /\ clock' = clock
  BY DEF Limiter!allow, Limiter!GlobalHas, GlobalLevel
<1>3. /\ Dated(global', GlobalBurst)
      /\ Limiter!Level(global', GlobalRefill, GlobalBurst) = GlobalLevel - Cost
  BY <1>1, <1>2, AsTaken DEF GlobalLevel
<1> QED BY <1>2, <1>3 DEF GlobalLevel, Limiter!Level

(* What it does to the others when the table is swept: nothing changes in  *)
(* what they have, and who is evicted has all there is.                    *)
LEMMA Sweeps ==
  ASSUME Limiter!newLimiter, LimiterInv, NEW s \in Migrant
  PROVE  /\ DOMAIN Limiter!Swept(s) = Migrant
         /\ \A t \in Migrant :
              /\ Dated(Limiter!Swept(s)[t], Burst)
              /\ t \in tracked =>
                   Limiter!Level(Limiter!Swept(s)[t], Refill, Burst)
                     = Limiter!Level(bucket[t], Refill, Burst)
         /\ \A t \in Limiter!Evicted :
              t \in tracked /\ Limiter!Level(bucket[t], Refill, Burst) = Burst
         /\ \A t \in tracked \ Limiter!Evicted :
              Limiter!Level(bucket[t], Refill, Burst) < Burst
<1>1. /\ clock \in Nat /\ Refill \in Nat /\ Burst \in Nat
      /\ tracked \subseteq Migrant /\ DOMAIN bucket = Migrant
      /\ \A t \in Migrant : Dated(bucket[t], Burst)
  BY DEF Limiter!newLimiter, LimiterInv
<1>2. \A t \in Migrant :
        /\ Dated(Limiter!Refilled(bucket[t], Refill, Burst), Burst)
        /\ Limiter!Level(Limiter!Refilled(bucket[t], Refill, Burst), Refill, Burst)
             = Limiter!Level(bucket[t], Refill, Burst)
        /\ Limiter!Level(bucket[t], Refill, Burst) \in 0..Burst
  BY <1>1, AsRefilled, LevelInRange
<1>3. \A t \in tracked : Limiter!Refilled(bucket[t], Refill, Burst).tokens
                           = Limiter!Level(bucket[t], Refill, Burst)
  BY DEF Limiter!Refilled
<1>4. DOMAIN Limiter!Swept(s) = Migrant
  BY <1>1 DEF Limiter!Swept
<1>5. \A t \in Migrant :
        /\ Dated(Limiter!Swept(s)[t], Burst)
        /\ t \in tracked =>
             Limiter!Level(Limiter!Swept(s)[t], Refill, Burst)
               = Limiter!Level(bucket[t], Refill, Burst)
  <2>1. \A t \in Migrant :
          \/ Limiter!Swept(s)[t] = bucket[t]
          \/ t \in tracked /\ Limiter!Swept(s)[t]
               = Limiter!Refilled(bucket[t], Refill, Burst)
    BY <1>1 DEF Limiter!Swept
  <2> QED BY <1>1, <1>2, <2>1
<1>6. \A t \in tracked :
        t \in Limiter!Evicted <=> Limiter!Level(bucket[t], Refill, Burst) = Burst
  BY <1>1, <1>2, <1>3 DEF Limiter!Evicted, Limiter!full
<1> QED BY <1>1, <1>2, <1>4, <1>5, <1>6 DEF Limiter!Evicted

(* No room, and nobody to evict: the subject is refused while as many      *)
(* others owe tokens as the table has places.                              *)
LEMMA FindsNoRoom ==
  ASSUME Limiter!newLimiter, LimiterInv, NEW s \in Migrant, Limiter!allow(s),
         Limiter!Crowded(s), Limiter!Evicted = {}
  PROVE  LimiterInv' /\ Limiter!Buckets!Refuse(s)
<1>1. /\ clock' = clock /\ GlobalLevel >= Cost /\ GlobalLevel' = GlobalLevel - Cost
      /\ Dated(global', GlobalBurst)
  BY PaysTheCommonBucket
<1>2. bucket' = Limiter!Swept(s) /\ tracked' = tracked
  BY DEF Limiter!allow
<1>3. /\ DOMAIN Limiter!Swept(s) = Migrant
      /\ \A t \in Migrant :
           /\ Dated(Limiter!Swept(s)[t], Burst)
           /\ t \in tracked =>
                Limiter!Level(Limiter!Swept(s)[t], Refill, Burst)
                  = Limiter!Level(bucket[t], Refill, Burst)
      /\ \A t \in tracked : Limiter!Level(bucket[t], Refill, Burst) < Burst
  BY Sweeps
<1>4. LimiterInv'
  BY <1>1, <1>2, <1>3 DEF LimiterInv, Dated
<1>5. \A t \in Migrant : Worth(t)' = Worth(t)
  BY <1>1, <1>2, <1>3 DEF Worth, Limiter!Level
<1>6. {t \in Migrant : Worth(t) < Burst} = tracked
  BY <1>3 DEF Worth, LimiterInv, Limiter!newLimiter
<1>7. Worth(s) = Burst /\ Cardinality(tracked) >= Places
  BY SameCardinality DEF Worth, Limiter!Crowded
<1> QED BY <1>1, <1>4, <1>5, <1>6, <1>7, BucketsRefuse DEF Limiter!newLimiter

(* Otherwise it is in the table afterwards, with a token less if it had    *)
(* one, and everybody else has what they had.                              *)
LEMMA FindsRoom ==
  ASSUME Limiter!newLimiter, LimiterInv, NEW s \in Migrant, Limiter!allow(s),
         ~(Limiter!Crowded(s) /\ Limiter!Evicted = {})
  PROVE  LimiterInv' /\ (Limiter!Buckets!Grant(s) \/ Limiter!Buckets!Refuse(s))
<1> DEFINE found == Limiter!Found(s)
           had == Limiter!Level(found, Refill, Burst)
           left == IF had >= Cost THEN Limiter!Taken(found, Refill, Burst)
                   ELSE Limiter!Refilled(found, Refill, Burst)
<1>1. /\ clock' = clock /\ GlobalLevel >= Cost /\ GlobalLevel' = GlobalLevel - Cost
      /\ Dated(global', GlobalBurst)
  BY PaysTheCommonBucket
<1>2. /\ tracked' = Limiter!Kept(s) \cup {s}
      /\ bucket' = [Limiter!Swept(s) EXCEPT ![s] = left]
  BY DEF Limiter!allow
<1>3. /\ clock \in Nat /\ Refill \in Nat /\ Burst \in Nat /\ Cost \in Nat
      /\ tracked \subseteq Migrant /\ \A t \in Migrant : Dated(bucket[t], Burst)
  BY DEF Limiter!newLimiter, LimiterInv
<1>4. Dated(found, Burst) /\ had = Worth(s)
  <2>1. CASE s \in tracked
    BY <1>3, <2>1 DEF Limiter!Found, Worth
  <2>2. CASE s \notin tracked
    <3>1. found = [tokens |-> Burst, last |-> clock]
      BY <2>2 DEF Limiter!Found
    <3> QED BY <1>3, <2>2, <3>1, LevelNow DEF Dated, Worth
  <2> QED BY <2>1, <2>2
<1>5. /\ Dated(left, Burst)
      /\ Limiter!Level(left, Refill, Burst) = IF had >= Cost THEN had - Cost ELSE had
  <2> HIDE DEF found
  <2>1. CASE had >= Cost
    BY <1>3, <1>4, <2>1, AsTaken
  <2>2. CASE ~(had >= Cost)
    BY <1>3, <1>4, <2>2, AsRefilled
  <2> QED BY <2>1, <2>2
<1> HIDE DEF found, had, left
<1>6. /\ DOMAIN Limiter!Swept(s) = Migrant
      /\ \A t \in Migrant :
           /\ Dated(Limiter!Swept(s)[t], Burst)
           /\ t \in tracked =>
                Limiter!Level(Limiter!Swept(s)[t], Refill, Burst)
                  = Limiter!Level(bucket[t], Refill, Burst)
      /\ \A t \in Limiter!Evicted : t \in tracked /\ Limiter!Level(bucket[t], Refill, Burst)
                                      = Burst
  BY Sweeps
<1>7. /\ DOMAIN bucket' = Migrant /\ bucket'[s] = left
      /\ \A t \in Migrant \ {s} : bucket'[t] = Limiter!Swept(s)[t]
  BY <1>2, <1>6
<1>8. /\ tracked' \subseteq Migrant /\ s \in tracked'
      /\ \A t \in Migrant \ {s} :
           /\ t \in tracked' => t \in tracked
           /\ t \notin tracked' => t \notin tracked \/ t \in Limiter!Evicted
  BY <1>2, <1>3 DEF Limiter!Kept
<1>9. LimiterInv'
  BY <1>1, <1>3, <1>5, <1>6, <1>7, <1>8 DEF LimiterInv, Dated
<1>10. \A t \in Migrant \ {s} : Worth(t)' = Worth(t)
  <2> TAKE t \in Migrant \ {s}
  <2>1. CASE t \in tracked'
    <3>1. Worth(t)' = Limiter!Level(Limiter!Swept(s)[t], Refill, Burst)
      BY <1>1, <1>7, <2>1 DEF Worth, Limiter!Level
    <3>2. t \in tracked
      BY <1>8, <2>1
    <3> QED BY <1>6, <3>1, <3>2 DEF Worth
  <2>2. CASE t \notin tracked'
    <3>1. t \notin tracked \/ t \in Limiter!Evicted
      BY <1>8, <2>2
    <3>2. Worth(t) = Burst
      BY <1>6, <3>1 DEF Worth
    <3> QED BY <2>2, <3>2 DEF Worth
  <2> QED BY <2>1, <2>2
<1>11. Worth(s)' = IF had >= Cost THEN Worth(s) - Cost ELSE Worth(s)
  BY <1>1, <1>4, <1>5, <1>7, <1>8 DEF Worth, Limiter!Level
<1>12. CASE had >= Cost
  BY <1>1, <1>4, <1>9, <1>10, <1>11, <1>12, BucketsGrant
<1>13. CASE ~(had >= Cost)
  <2>1. had \in Nat
    BY <1>3, <1>4, LevelInRange DEF had
  <2>2. Worth(s) < Cost
    BY <1>3, <1>4, <1>13, <2>1
  <2>3. \A t \in Migrant : Worth(t)' = Worth(t)
    BY <1>10, <1>11, <1>13
  <2> QED BY <1>1, <1>3, <1>9, <2>2, <2>3, BucketsRefuse
<1> QED BY <1>12, <1>13

-----------------------------------------------------------------------------
(* The migration's limiter promises what buckets that are never forgotten  *)
(* promise, and refuses a newcomer for want of room only while every place *)
(* is taken by a subject that owes tokens (limiter.go: "Only full buckets  *)
(* go: an entry still owing tokens is the only kind that means anything"). *)
THEOREM BucketsAreKept == Limiter!Spec => ImplementsBuckets
<1>a. Limiter!newLimiter
  BY LimiterAssumption
<1>1. Limiter!Init => LimiterInv
  BY <1>a DEF Limiter!Init, LimiterInv, Dated, Limiter!newLimiter
<1>2. Limiter!Init => Limiter!Buckets!Init
  <2> SUFFICES ASSUME Limiter!Init PROVE Limiter!Buckets!Init
    OBVIOUS
  <2>1. GlobalLevel = GlobalBurst
    BY <1>a, LevelNow DEF Limiter!Init, Limiter!newLimiter, GlobalLevel
  <2> QED BY <2>1 DEF Limiter!Init, Limiter!Buckets!Init, GlobalLevel
<1>3. LimiterInv /\ [Limiter!Next]_(Limiter!vars) =>
        LimiterInv' /\ [Limiter!Buckets!Next]_(Limiter!Buckets!vars)
  <2> SUFFICES ASSUME LimiterInv, [Limiter!Next]_(Limiter!vars)
               PROVE  LimiterInv' /\ [Limiter!Buckets!Next]_(Limiter!Buckets!vars)
    OBVIOUS
  <2>1. CASE Limiter!Tick
    BY <1>a, <2>1, LimiterTicks DEF Limiter!Buckets!Next
  <2>2. CASE Limiter!refuseAll
    BY <1>a, <2>2, RefusesAll
  <2>3. ASSUME NEW s \in Migrant, Limiter!allow(s)
        PROVE  LimiterInv' /\ [Limiter!Buckets!Next]_(Limiter!Buckets!vars)
    BY <1>a, <2>3, FindsNoRoom, FindsRoom DEF Limiter!Buckets!Next
  <2>4. CASE UNCHANGED Limiter!vars
    <3>1. LimiterInv'
      BY <2>4 DEF Limiter!vars, LimiterInv, Dated
    <3>2. UNCHANGED Limiter!Buckets!vars
      BY <2>4 DEF Limiter!vars, Limiter!Buckets!vars, Limiter!Level
    <3> QED BY <3>1, <3>2
  <2> QED BY <2>1, <2>2, <2>3, <2>4 DEF Limiter!Next
<1>4. [Limiter!Buckets!Next]_(Limiter!Buckets!vars) =>
        [setting = "migration" => Limiter!Buckets!Next]_(Limiter!Buckets!vars)
  OBVIOUS
<1> QED BY <1>1, <1>2, <1>3, <1>4, PTL DEF Limiter!Spec, ImplementsBuckets

-----------------------------------------------------------------------------
(* Adapter.  The argument: while the handler runs, the recorder holds what *)
(* its deeds say, kind by kind and in their order; a deed adds to one kind.*)

(* A sequence of sequences, put end to end: none, one or two of them. *)
LEMMA Flattened ==
  ASSUME NEW seqs, Len(seqs) # 0,
         NEW W, W = [i \in 1..Len(seqs) |-> IF i = 1 THEN seqs[i] ELSE W[i - 1] \o seqs[i]]
  PROVE  \E f : /\ f = [i \in 1..Len(seqs) |-> IF i = 1 THEN seqs[i] ELSE f[i - 1] \o seqs[i]]
                /\ Lambda!FlattenSeq(seqs) = f[Len(seqs)]
<1> DEFINE G(f) == [i \in 1..Len(seqs) |-> IF i = 1 THEN seqs[i] ELSE f[i - 1] \o seqs[i]]
           F == CHOOSE f : f = G(f)
<1>1. Lambda!FlattenSeq(seqs) = F[Len(seqs)]
  BY Zenon DEF Lambda!FlattenSeq
<1>2. F = G(F)
  <2>1. W = G(W)
    BY Zenon
  <2> HIDE DEF G
  <2> QED
    BY <2>1
<1> HIDE DEF F
<1> QED
  BY <1>1, <1>2

LEMMA FlattenNone == Lambda!FlattenSeq(<<>>) = <<>>
BY DEF Lambda!FlattenSeq

LEMMA FlattenOne == ASSUME NEW a PROVE Lambda!FlattenSeq(<<a>>) = a
<1> DEFINE s == <<a>>
           W == [i \in 1..1 |-> a]
<1>1. W = [i \in 1..Len(s) |-> IF i = 1 THEN s[i] ELSE W[i - 1] \o s[i]] /\ Len(s) # 0
  OBVIOUS
<1>2. PICK f : /\ f = [i \in 1..Len(s) |-> IF i = 1 THEN s[i] ELSE f[i - 1] \o s[i]]
               /\ Lambda!FlattenSeq(s) = f[Len(s)]
  <2> HIDE DEF s, W
  <2> QED
    BY <1>1, Flattened, Zenon
<1> QED
  BY <1>2

LEMMA FlattenTwo == ASSUME NEW a, NEW b PROVE Lambda!FlattenSeq(<<a, b>>) = a \o b
<1> DEFINE s == <<a, b>>
           W == [i \in 1..2 |-> IF i = 1 THEN a ELSE a \o b]
<1>1. W = [i \in 1..Len(s) |-> IF i = 1 THEN s[i] ELSE W[i - 1] \o s[i]] /\ Len(s) # 0
  OBVIOUS
<1>2. PICK f : /\ f = [i \in 1..Len(s) |-> IF i = 1 THEN s[i] ELSE f[i - 1] \o s[i]]
               /\ Lambda!FlattenSeq(s) = f[Len(s)]
  <2> HIDE DEF s, W
  <2> QED
    BY <1>1, Flattened, Zenon
<1>3. 1 \in 1..Len(s) /\ 2 \in 1..Len(s) /\ s[1] = a /\ s[2] = b /\ Len(s) = 2 /\ 2 - 1 = 1 /\ 2 # 1
  OBVIOUS
<1>4. f[1] = a
  BY <1>2, <1>3
<1>5. f[2] = f[1] \o b
  <2> HIDE DEF s
  <2>1. f[2] = IF 2 = 1 THEN s[2] ELSE f[2 - 1] \o s[2]
    BY <1>2, <1>3, Zenon
  <2> QED
    BY <2>1, <1>3, Zenon
<1>6. Lambda!FlattenSeq(s) = f[2]
  BY <1>2, <1>3
<1> HIDE DEF s
<1>7. Lambda!FlattenSeq(s) = a \o b
  BY <1>4, <1>5, <1>6, Zenon
<1> QED
  BY <1>7 DEF s

(* How many members of a set lie up to one of its members. *)
Rank(I, i) == Cardinality({x \in I : x <= i})

LEMMA FiniteIn ==
  ASSUME NEW n \in Nat, NEW I \in SUBSET (1..n)
  PROVE  IsFiniteSet(I) /\ Cardinality(I) \in Nat
<1>1. IsFiniteSet(1..n)
  BY FS_Interval
<1> QED
  BY <1>1, FS_Subset, FS_CardinalityType

LEMMA RankInRange ==
  ASSUME NEW n \in Nat, NEW I \in SUBSET (1..n), NEW i \in I
  PROVE  Rank(I, i) \in 1..Cardinality(I)
<1> DEFINE U == {x \in I : x <= i}
<1>1. U \in SUBSET (1..n) /\ U \subseteq I /\ i \in U
  <2>1. i \in 1..n
    OBVIOUS
  <2>2. i <= i
    BY <2>1
  <2> QED
    BY <2>2
<1> HIDE DEF U
<1>2. IsFiniteSet(U) /\ Cardinality(U) \in Nat /\ IsFiniteSet(I) /\ Cardinality(I) \in Nat
  BY <1>1, FiniteIn
<1>3. Cardinality(U) <= Cardinality(I)
  BY <1>1, <1>2, FS_Subset
<1>4. Cardinality(U) # 0
  BY <1>1, <1>2, FS_EmptySet
<1> QED
  BY <1>2, <1>3, <1>4 DEF U, Rank

LEMMA RankIsInjective ==
  ASSUME NEW n \in Nat, NEW I \in SUBSET (1..n), NEW i \in I, NEW k \in I, Rank(I, i) = Rank(I, k)
  PROVE  i = k
<1>1. ASSUME NEW a \in I, NEW b \in I, a < b, Rank(I, a) = Rank(I, b) PROVE FALSE
  <2> DEFINE U == {x \in I : x <= a}
             V == {x \in I : x <= b}
  <2>1. \A x \in I : x \in 1..n
    OBVIOUS
  <2>2. a \in 1..n /\ b \in 1..n /\ b <= b /\ ~(b <= a)
    BY <1>1, <2>1
  <2>3. U \subseteq V
    <3>1. \A x \in 1..n : x <= a => x <= b
      BY <1>1, <2>2
    <3> QED
      BY <2>1, <3>1
  <2>4. V \in SUBSET (1..n) /\ b \in V /\ b \notin U
    BY <2>2
  <2>5. Rank(I, a) = Cardinality(U) /\ Rank(I, b) = Cardinality(V)
    BY DEF Rank
  <2> HIDE DEF U, V
  <2>6. IsFiniteSet(V)
    BY <2>4, FiniteIn
  <2>7. Cardinality(U) = Cardinality(V)
    BY <1>1, <2>5
  <2>8. U = V
    BY <2>3, <2>6, <2>7, FS_Subset
  <2> QED
    BY <2>4, <2>8
<1>2. i \in Nat /\ k \in Nat
  OBVIOUS
<1>3. i < k \/ k < i \/ i = k
  BY <1>2
<1> QED
  BY <1>1, <1>3

(* Every place in the order is somebody's. *)
Ranked(I) == \A j \in 1..Cardinality(I) : \E i \in I : Rank(I, i) = j

LEMMA OneMoreRank ==
  ASSUME NEW n \in Nat, NEW I \in SUBSET (1..n)
  PROVE  /\ Cardinality(I \cup {n + 1}) = Cardinality(I) + 1
         /\ Rank(I \cup {n + 1}, n + 1) = Cardinality(I) + 1
         /\ \A i \in I : Rank(I \cup {n + 1}, i) = Rank(I, i)
<1>5. \A x \in I : x \in 1..n
  OBVIOUS
<1>1. n + 1 \notin I /\ IsFiniteSet(I)
  <2>1. n + 1 \notin 1..n
    OBVIOUS
  <2> QED
    BY <2>1, <1>5, FiniteIn
<1>2. Cardinality(I \cup {n + 1}) = Cardinality(I) + 1
  BY <1>1, FS_AddElement
<1>3. {x \in I \cup {n + 1} : x <= n + 1} = I \cup {n + 1}
  <2>1. \A x \in I \cup {n + 1} : x <= n + 1
    BY <1>5
  <2> QED
    BY <2>1
<1>4. ASSUME NEW i \in I PROVE {x \in I \cup {n + 1} : x <= i} = {x \in I : x <= i}
  <2>1. ~(n + 1 <= i)
    BY <1>5
  <2> QED
    BY <2>1
<1> QED
  BY <1>2, <1>3, <1>4, Zenon DEF Rank

LEMMA OneMoreRanked ==
  ASSUME NEW n \in Nat, NEW I \in SUBSET (1..n), Ranked(I)
  PROVE  Ranked(I \cup {n + 1})
<1> SUFFICES ASSUME NEW j \in 1..Cardinality(I \cup {n + 1})
             PROVE  \E i \in I \cup {n + 1} : Rank(I \cup {n + 1}, i) = j
  BY DEF Ranked
<1>1. Cardinality(I) \in Nat
  BY FiniteIn
<1>2. j \in 1..Cardinality(I) \/ j = Cardinality(I) + 1
  BY <1>1, OneMoreRank
<1>3. CASE j \in 1..Cardinality(I)
  <2>1. PICK i \in I : Rank(I, i) = j
    BY <1>3 DEF Ranked
  <2> QED
    BY <2>1, OneMoreRank
<1>4. CASE j = Cardinality(I) + 1
  BY <1>4, OneMoreRank
<1> QED
  BY <1>2, <1>3, <1>4

(* A set of naturals has a least member; so what holds of a set of deeds   *)
(* when it holds without the last of them, holds of every one.             *)
LEMMA LeastNatural ==
  ASSUME NEW T \in SUBSET Nat, T # {}
  PROVE  \E m \in T : \A x \in T : m <= x
<1>1. OpToRel(<, Nat) = {p \in Nat \X Nat : p[1] < p[2]}
  BY DEF OpToRel
<1> DEFINE R == {p \in Nat \X Nat : p[1] < p[2]}
<1>2. IsWellFoundedOn(R, Nat)
  BY <1>1, NatLessThanWellFounded
<1>3. PICK m \in T : \A x \in T : ~(<<x, m>> \in R)
  <2> HIDE DEF R
  <2> QED
    BY <1>2, WFMin
<1>4. T \subseteq Nat
  OBVIOUS
<1>5. \A x \in T : ~(x < m) /\ x \in Nat /\ m \in Nat
  BY <1>3, <1>4
<1> QED
  BY <1>5

LEMMA AllAreRanked ==
  ASSUME NEW n \in Nat, NEW I \in SUBSET (1..n)
  PROVE  Ranked(I)
<1> DEFINE T == {m \in Nat : \E J \in SUBSET (1..m) : ~Ranked(J)}
<1>1. SUFFICES T = {}
  OBVIOUS
<1>2. SUFFICES ASSUME T # {} PROVE FALSE
  OBVIOUS
<1>3. PICK m \in T : \A x \in T : m <= x
  <2>1. T \in SUBSET Nat
    OBVIOUS
  <2> HIDE DEF T
  <2> QED
    BY <1>2, <2>1, LeastNatural
<1>4. PICK J \in SUBSET (1..m) : ~Ranked(J)
  OBVIOUS
<1>5. Ranked({})
  BY FS_EmptySet DEF Ranked
<1>6. J # {} /\ m \in Nat \ {0}
  <2>1. J # {}
    BY <1>4, <1>5
  <2>2. m \in Nat
    OBVIOUS
  <2>3. m = 0 => 1..m = {}
    OBVIOUS
  <2> QED
    BY <1>4, <2>1, <2>2, <2>3
<1>7. m - 1 \in Nat /\ m - 1 \notin T
  BY <1>3, <1>6
<1>8. \A K \in SUBSET (1..(m - 1)) : Ranked(K)
  BY <1>7
<1>9. CASE m \notin J
  <2>1. J \in SUBSET (1..(m - 1))
    BY <1>6, <1>9
  <2> QED
    BY <1>4, <1>8, <2>1
<1>10. CASE m \in J
  <2>1. /\ J \ {m} \in SUBSET (1..(m - 1))
        /\ J = (J \ {m}) \cup {(m - 1) + 1}
    BY <1>6, <1>10
  <2>2. Ranked(J \ {m})
    BY <1>8, <2>1
  <2>3. Ranked((J \ {m}) \cup {(m - 1) + 1})
    BY <1>7, <2>1, <2>2, OneMoreRanked
  <2> QED
    BY <1>4, <2>1, <2>3
<1> QED
  BY <1>9, <1>10

(* A list with a place for every member of a set. *)
Listed(f, I) == f = [j \in 1..Cardinality(I) |-> f[j]]

(* Two lists with the same members in the same places. *)
Agree(f, g, I) == \A i \in I : f[Rank(I, i)] = g[Rank(I, i)]

(* The order of the deeds, place by place. *)
LEMMA Order ==
  ASSUME NEW n \in Nat, NEW I \in SUBSET (1..n), NEW s
  PROVE  /\ Listed(Lambda!InOrder(s, I), I)
         /\ \A i \in I : Lambda!InOrder(s, I)[Rank(I, i)] = s[i].what
<1>1. Lambda!InOrder(s, I) = [j \in 1..Cardinality(I) |-> s[CHOOSE i \in I : Rank(I, i) = j].what]
  BY Zenon DEF Lambda!InOrder, Rank, Cardinality, Lambda!Cardinality
<1>2. ASSUME NEW i \in I PROVE (CHOOSE k \in I : Rank(I, k) = Rank(I, i)) = i
  BY RankIsInjective
<1>3. ASSUME NEW i \in I PROVE Lambda!InOrder(s, I)[Rank(I, i)] = s[i].what
  <2>1. Rank(I, i) \in 1..Cardinality(I)
    BY RankInRange
  <2>2. Lambda!InOrder(s, I)[Rank(I, i)] = s[CHOOSE k \in I : Rank(I, k) = Rank(I, i)].what
    <3> DEFINE r == Rank(I, i)
    <3> HIDE DEF r
    <3>1. r \in 1..Cardinality(I)
      BY <2>1 DEF r
    <3>2. Lambda!InOrder(s, I)[r] = s[CHOOSE k \in I : Rank(I, k) = r].what
      BY <1>1, <3>1, Zenon
    <3> QED
      BY <3>2 DEF r
  <2> QED
    BY <1>2, <2>2
<1> QED
  BY <1>1, <1>3 DEF Listed

LEMMA SameOrder ==
  ASSUME NEW n \in Nat, NEW I \in SUBSET (1..n), NEW f, NEW g,
         Listed(f, I), Listed(g, I),
         Agree(f, g, I)
  PROVE  f = g
<1>1. ASSUME NEW j \in 1..Cardinality(I) PROVE f[j] = g[j]
  <2>1. PICK i \in I : Rank(I, i) = j
    BY AllAreRanked DEF Ranked
  <2> QED
    BY <2>1 DEF Agree
<1> QED
  BY <1>1, Zenon DEF Listed

(* Another deed changes nothing about the deeds before it. *)
LEMMA OrderStays ==
  ASSUME NEW S, NEW s \in Seq(S), NEW d \in S, NEW I \in SUBSET (1..Len(s))
  PROVE  Lambda!InOrder(Append(s, d), I) = Lambda!InOrder(s, I)
<1>1. Len(s) \in Nat /\ \A i \in I : Append(s, d)[i] = s[i]
  OBVIOUS
<1> DEFINE f == Lambda!InOrder(Append(s, d), I)
           g == Lambda!InOrder(s, I)
<1>2. Listed(f, I) /\ \A i \in I : f[Rank(I, i)] = Append(s, d)[i].what
  BY <1>1, Order
<1>3. Listed(g, I) /\ \A i \in I : g[Rank(I, i)] = s[i].what
  BY <1>1, Order
<1>5. Agree(f, g, I)
  BY <1>1, <1>2, <1>3 DEF Agree
<1> DEFINE n == Len(s)
<1>4. n \in Nat /\ I \in SUBSET (1..n)
  BY <1>1
<1> HIDE DEF f, g, n
<1>6. f = g
  BY <1>2, <1>3, <1>5, <1>4, SameOrder
<1> QED
  BY <1>6 DEF f, g

(* A deed of a kind comes after the deeds of the kind before it. *)
LEMMA OrderGrows ==
  ASSUME NEW S, NEW s \in Seq(S), NEW d \in S, NEW I \in SUBSET (1..Len(s)),
         NEW W, Lambda!InOrder(s, I) \in Seq(W), d.what \in W
  PROVE  Lambda!InOrder(Append(s, d), I \cup {Len(s) + 1}) = Append(Lambda!InOrder(s, I), d.what)
<1> DEFINE n == Len(s)
           J == I \cup {n + 1}
           f == Lambda!InOrder(Append(s, d), J)
           h == Lambda!InOrder(s, I)
           g == Append(h, d.what)
<1>1. n \in Nat /\ J \in SUBSET (1..(n + 1)) /\ n + 1 \in Nat
  <2>1. n \in Nat
    OBVIOUS
  <2>2. n + 1 \in 1..(n + 1) /\ (\A x \in 1..n : x \in 1..(n + 1)) /\ n + 1 \in Nat
    BY <2>1
  <2>3. \A x \in I : x \in 1..n
    OBVIOUS
  <2> QED
    BY <2>1, <2>2, <2>3
<1>13. I \in SUBSET (1..n)
  OBVIOUS
<1>2. Append(s, d)[n + 1] = d /\ \A i \in I : Append(s, d)[i] = s[i]
  OBVIOUS
<1>3. Cardinality(I) \in Nat /\ Listed(h, I) /\ \A i \in I : h[Rank(I, i)] = s[i].what
  BY <1>1, <1>13, FiniteIn, Order
<1>4. Listed(f, J) /\ \A i \in J : f[Rank(J, i)] = Append(s, d)[i].what
  <2> HIDE DEF J, n
  <2> QED
    BY <1>1, Order
<1>5. /\ Cardinality(J) = Cardinality(I) + 1 /\ Rank(J, n + 1) = Cardinality(I) + 1
      /\ \A i \in I : Rank(J, i) = Rank(I, i)
  BY <1>1, OneMoreRank
<1>6. \A i \in I : Rank(I, i) \in 1..Cardinality(I)
  BY <1>1, RankInRange
<1> HIDE DEF f, h, J, n
<1>7. h \in Seq(W)
  BY DEF h
<1>8. Len(h) = Cardinality(I)
  BY <1>3, <1>7 DEF Listed
<1>9. Listed(g, J)
  BY <1>5, <1>7, <1>8 DEF Listed
<1>10. g[Cardinality(I) + 1] = d.what /\ \A j \in 1..Cardinality(I) : g[j] = h[j]
  BY <1>7, <1>8
<1> HIDE DEF g
<1>11. ASSUME NEW i \in J PROVE f[Rank(J, i)] = g[Rank(J, i)]
  <2>1. CASE i = n + 1
    BY <1>2, <1>4, <1>5, <1>10, <2>1 DEF n
  <2>2. CASE i \in I
    BY <1>2, <1>3, <1>4, <1>5, <1>6, <1>10, <2>2
  <2> QED
    BY <2>1, <2>2 DEF J
<1>12. Agree(f, g, J)
  BY <1>11 DEF Agree
<1>14. f = g
  BY <1>1, <1>4, <1>9, <1>12, SameOrder
<1> QED
  BY <1>14 DEF f, g, h, J, n

(* What a handler may do. *)
Deed ==
  [kind : {"header", "status", "write", "panic"}, of : Lambda!Names \cup {"none"},
   what : Cookie \cup Value \cup Lambda!Status \cup {"text", "binary", "none"}]

(* The recorder holds what was done, kind by kind and in order. *)
AsDone ==
  /\ \A n \in Header : rec.header[n] = Lambda!InOrder(deeds, Lambda!Adds(n))
  /\ rec.cookies = Lambda!InOrder(deeds, Lambda!Adds("Set-Cookie"))
  /\ rec.body = Lambda!InOrder(deeds, Lambda!Writes)
  /\ rec.wrote <=> (Lambda!Statuses # {})
  /\ rec.code = Lambda!FirstCode

(* What will be sent is what was meant. *)
AsMeant ==
  /\ rec.code = Lambda!Meant.code /\ rec.header = Lambda!Meant.header
  /\ rec.cookies = Lambda!Meant.cookies /\ rec.body = Lambda!Meant.body

Adapted ==
  /\ front \in Lambda!FrontEnd /\ sent \in Lambda!Requests
  /\ deeds \in Seq(Deed) /\ rec \in Lambda!Recorder
  /\ stage = "event" => deeds = <<>> /\ rec = Lambda!newResponseRecorder
  /\ stage = "handler" => sent.decodable /\ Lambda!Panics = {} /\ AsDone
  /\ stage = "returned" => AsMeant

(* The deeds of a kind, after one more of them. *)
LEMMA Grown ==
  ASSUME deeds \in Seq(Deed), NEW d \in Deed, deeds' = Append(deeds, d)
  PROVE  /\ \A n : Lambda!Adds(n)' =
              IF d.kind = "header" /\ d.of = n THEN Lambda!Adds(n) \cup {Len(deeds) + 1} ELSE Lambda!Adds(n)
         /\ Lambda!Writes' = IF d.kind = "write" THEN Lambda!Writes \cup {Len(deeds) + 1} ELSE Lambda!Writes
         /\ Lambda!Panics' = IF d.kind = "panic" THEN Lambda!Panics \cup {Len(deeds) + 1} ELSE Lambda!Panics
         /\ Lambda!Statuses' =
              IF d.kind = "write" \/ (d.kind = "status" /\ d.what # "processing")
                THEN Lambda!Statuses \cup {Len(deeds) + 1} ELSE Lambda!Statuses
<1> DEFINE m == Len(deeds)
<1>1. /\ m \in Nat /\ DOMAIN deeds = 1..m /\ DOMAIN deeds' = 1..(m + 1)
      /\ \A i \in 1..m : deeds'[i] = deeds[i]
      /\ deeds'[m + 1] = d /\ m + 1 \notin 1..m
  OBVIOUS
<1>2. \A i : i \in 1..(m + 1) <=> i \in 1..m \/ i = m + 1
  BY <1>1
<1> HIDE DEF m
<1>3. ASSUME NEW n
      PROVE  Lambda!Adds(n)' =
               IF d.kind = "header" /\ d.of = n THEN Lambda!Adds(n) \cup {m + 1} ELSE Lambda!Adds(n)
  BY <1>1, <1>2 DEF Lambda!Adds
<1>4. Lambda!Writes' = IF d.kind = "write" THEN Lambda!Writes \cup {m + 1} ELSE Lambda!Writes
  BY <1>1, <1>2 DEF Lambda!Writes
<1>5. Lambda!Panics' = IF d.kind = "panic" THEN Lambda!Panics \cup {m + 1} ELSE Lambda!Panics
  BY <1>1, <1>2 DEF Lambda!Panics
<1>6. Lambda!Statuses' =
        IF d.kind = "write" \/ (d.kind = "status" /\ d.what # "processing")
          THEN Lambda!Statuses \cup {m + 1} ELSE Lambda!Statuses
  <2> DEFINE Final(s) == {i \in DOMAIN s : s[i].kind = "status" /\ s[i].what # "processing"}
  <2>1. CASE d.kind = "status" /\ d.what # "processing"
    <3>1. \A i : i \in Final(deeds') <=> i \in Final(deeds) \/ i = m + 1
      BY <1>1, <1>2, <2>1
    <3> HIDE DEF Final
    <3>2. Final(deeds') = Final(deeds) \cup {m + 1}
      BY <3>1
    <3> QED
      BY <1>4, <2>1, <3>2 DEF Final, Lambda!Statuses
  <2>2. CASE ~(d.kind = "status" /\ d.what # "processing")
    <3>1. Final(deeds') = Final(deeds)
      BY <1>1, <1>2, <2>2
    <3> QED
      BY <1>4, <2>2, <3>1 DEF Lambda!Statuses
  <2> QED
    BY <2>1, <2>2
<1> QED
  BY <1>3, <1>4, <1>5, <1>6 DEF m

(* They are among the deeds. *)
LEMMA Among ==
  ASSUME deeds \in Seq(Deed)
  PROVE  /\ \A n : Lambda!Adds(n) \in SUBSET (1..Len(deeds))
         /\ Lambda!Writes \in SUBSET (1..Len(deeds)) /\ Lambda!Statuses \in SUBSET (1..Len(deeds))
BY DEF Lambda!Adds, Lambda!Writes, Lambda!Statuses

LEMMA MinIs ==
  ASSUME NEW T \in SUBSET Nat, NEW m \in T, \A x \in T : m <= x
  PROVE  Lambda!Min(T) = m
<1>1. \A x \in T : (\A y \in T : x <= y) => x = m
  <2>1. \A x \in T : x \in Nat
    OBVIOUS
  <2> QED
    BY <2>1
<1> QED
  BY <1>1 DEF Lambda!Min

(* The first status stays what it was. *)
LEMMA FirstStays ==
  ASSUME deeds \in Seq(Deed), NEW d \in Deed, deeds' = Append(deeds, d),
         Lambda!Statuses # {} \/ Lambda!Statuses' = Lambda!Statuses
  PROVE  Lambda!FirstCode' = Lambda!FirstCode
<1>1. Lambda!Statuses \in SUBSET (1..Len(deeds)) /\ Len(deeds) \in Nat
  BY Among
<1>2. CASE Lambda!Statuses = {}
  BY <1>2 DEF Lambda!FirstCode
<1>3. CASE Lambda!Statuses # {}
  <2>1. Lambda!Statuses \in SUBSET Nat
    BY <1>1
  <2>2. PICK m \in Lambda!Statuses : \A x \in Lambda!Statuses : m <= x
    BY <1>3, <2>1, LeastNatural
  <2>3. m \in 1..Len(deeds)
    BY <1>1
  <2>4. Lambda!Statuses' = Lambda!Statuses \/ Lambda!Statuses' = Lambda!Statuses \cup {Len(deeds) + 1}
    BY Grown
  <2>5. Lambda!Statuses' \in SUBSET Nat /\ m \in Lambda!Statuses' /\ \A x \in Lambda!Statuses' : m <= x
    <3>1. Len(deeds) + 1 \in Nat /\ m <= Len(deeds) + 1
      BY <1>1, <2>3
    <3> QED
      BY <2>1, <2>2, <2>4, <3>1
  <2>6. Lambda!Min(Lambda!Statuses) = m
    <3> DEFINE T == Lambda!Statuses
    <3> HIDE DEF T
    <3>1. T \in SUBSET Nat /\ m \in T /\ \A x \in T : m <= x
      BY <2>1, <2>2 DEF T
    <3>2. Lambda!Min(T) = m
      BY <3>1, MinIs
    <3> QED
      BY <3>2 DEF T
  <2>7. Lambda!Min(Lambda!Statuses)' = m
    <3> DEFINE T == Lambda!Statuses'
    <3> HIDE DEF T
    <3>1. T \in SUBSET Nat /\ m \in T /\ \A x \in T : m <= x
      BY <2>5 DEF T
    <3>2. Lambda!Min(T) = m
      BY <3>1, MinIs
    <3> QED
      BY <3>2 DEF T, Lambda!Min
  <2>8. deeds'[m] = deeds[m]
    BY <2>3
  <2> QED
    BY <1>3, <2>5, <2>6, <2>7, <2>8 DEF Lambda!FirstCode, Lambda!CodeOf
<1> QED
  BY <1>2, <1>3

(* The first of them decides. *)
LEMMA FirstComes ==
  ASSUME deeds \in Seq(Deed), NEW d \in Deed, deeds' = Append(deeds, d),
         Lambda!Statuses = {}, d.kind = "write" \/ (d.kind = "status" /\ d.what # "processing")
  PROVE  Lambda!FirstCode' = Lambda!CodeOf(d)
<1>1. Lambda!Statuses' = {Len(deeds) + 1} /\ Len(deeds) + 1 \in Nat
  BY Grown
<1>2. Lambda!Min({Len(deeds) + 1}) = Len(deeds) + 1
  BY <1>1 DEF Lambda!Min
<1>3. deeds'[Len(deeds) + 1] = d
  OBVIOUS
<1>4. Lambda!Min(Lambda!Statuses)' = Len(deeds) + 1
  BY <1>1, <1>2 DEF Lambda!Min
<1> QED
  BY <1>1, <1>3, <1>4 DEF Lambda!FirstCode, Lambda!CodeOf

(* The lists of the other kinds are what they were. *)
LEMMA ListsStay ==
  ASSUME deeds \in Seq(Deed), NEW d \in Deed, deeds' = Append(deeds, d)
  PROVE  /\ \A n : ~(d.kind = "header" /\ d.of = n) =>
                     Lambda!InOrder(deeds, Lambda!Adds(n))' = Lambda!InOrder(deeds, Lambda!Adds(n))
         /\ d.kind # "write" =>
              Lambda!InOrder(deeds, Lambda!Writes)' = Lambda!InOrder(deeds, Lambda!Writes)
<1>1. ASSUME NEW n, ~(d.kind = "header" /\ d.of = n)
      PROVE  Lambda!InOrder(deeds, Lambda!Adds(n))' = Lambda!InOrder(deeds, Lambda!Adds(n))
  <2>1. Lambda!Adds(n)' = Lambda!Adds(n)
    BY <1>1, Grown
  <2>2. Lambda!InOrder(deeds, Lambda!Adds(n))' = Lambda!InOrder(deeds', Lambda!Adds(n)')
    BY Zenon DEF Lambda!InOrder
  <2>3. Lambda!InOrder(Append(deeds, d), Lambda!Adds(n)) = Lambda!InOrder(deeds, Lambda!Adds(n))
    BY Among, OrderStays
  <2> QED
    BY <2>1, <2>2, <2>3, Zenon
<1>2. ASSUME d.kind # "write"
      PROVE  Lambda!InOrder(deeds, Lambda!Writes)' = Lambda!InOrder(deeds, Lambda!Writes)
  <2>1. Lambda!Writes' = Lambda!Writes
    BY <1>2, Grown
  <2>2. Lambda!InOrder(deeds, Lambda!Writes)' = Lambda!InOrder(deeds', Lambda!Writes')
    BY Zenon DEF Lambda!InOrder
  <2>3. Lambda!InOrder(Append(deeds, d), Lambda!Writes) = Lambda!InOrder(deeds, Lambda!Writes)
    BY Among, OrderStays
  <2> QED
    BY <2>1, <2>2, <2>3, Zenon
<1> QED
  BY <1>1, <1>2

(* The list of its own kind has the deed at its end. *)
LEMMA ListGrows ==
  ASSUME deeds \in Seq(Deed), NEW d \in Deed, deeds' = Append(deeds, d), NEW W, d.what \in W
  PROVE  /\ \A n : d.kind = "header" /\ d.of = n /\ Lambda!InOrder(deeds, Lambda!Adds(n)) \in Seq(W) =>
                     Lambda!InOrder(deeds, Lambda!Adds(n))' = Append(Lambda!InOrder(deeds, Lambda!Adds(n)), d.what)
         /\ d.kind = "write" /\ Lambda!InOrder(deeds, Lambda!Writes) \in Seq(W) =>
              Lambda!InOrder(deeds, Lambda!Writes)' = Append(Lambda!InOrder(deeds, Lambda!Writes), d.what)
<1>1. ASSUME NEW n, d.kind = "header" /\ d.of = n, Lambda!InOrder(deeds, Lambda!Adds(n)) \in Seq(W)
      PROVE  Lambda!InOrder(deeds, Lambda!Adds(n))' = Append(Lambda!InOrder(deeds, Lambda!Adds(n)), d.what)
  <2>1. Lambda!Adds(n)' = Lambda!Adds(n) \cup {Len(deeds) + 1}
    BY <1>1, Grown
  <2>2. Lambda!InOrder(deeds, Lambda!Adds(n))' = Lambda!InOrder(deeds', Lambda!Adds(n)')
    BY Zenon DEF Lambda!InOrder
  <2>3. Lambda!InOrder(Append(deeds, d), Lambda!Adds(n) \cup {Len(deeds) + 1})
          = Append(Lambda!InOrder(deeds, Lambda!Adds(n)), d.what)
    <3>1. Lambda!Adds(n) \in SUBSET (1..Len(deeds))
      BY Among
    <3> QED
      BY <1>1, <3>1, OrderGrows
  <2> QED
    BY <2>1, <2>2, <2>3, Zenon
<1>2. ASSUME d.kind = "write", Lambda!InOrder(deeds, Lambda!Writes) \in Seq(W)
      PROVE  Lambda!InOrder(deeds, Lambda!Writes)' = Append(Lambda!InOrder(deeds, Lambda!Writes), d.what)
  <2>1. Lambda!Writes' = Lambda!Writes \cup {Len(deeds) + 1}
    BY <1>2, Grown
  <2>2. Lambda!InOrder(deeds, Lambda!Writes)' = Lambda!InOrder(deeds', Lambda!Writes')
    BY Zenon DEF Lambda!InOrder
  <2>3. Lambda!InOrder(Append(deeds, d), Lambda!Writes \cup {Len(deeds) + 1})
          = Append(Lambda!InOrder(deeds, Lambda!Writes), d.what)
    <3>1. Lambda!Writes \in SUBSET (1..Len(deeds))
      BY Among
    <3> QED
      BY <1>2, <3>1, OrderGrows
  <2> QED
    BY <2>1, <2>2, <2>3, Zenon
<1> QED
  BY <1>1, <1>2

(* What a deed of the handler's leaves as it is. *)
LEMMA Deeds ==
  ASSUME Adapted, NEW kind, NEW of, NEW what, Lambda!Do(kind, of, what),
         [kind |-> kind, of |-> of, what |-> what] \in Deed
  PROVE  /\ stage = "handler" /\ sent.decodable /\ Lambda!Panics = {} /\ AsDone
         /\ deeds \in Seq(Deed) /\ rec \in Lambda!Recorder
         /\ deeds' = Append(deeds, [kind |-> kind, of |-> of, what |-> what])
         /\ deeds' \in Seq(Deed)
         /\ kind # "panic" => Lambda!Panics' = {}
<1>1. deeds' = Append(deeds, [kind |-> kind, of |-> of, what |-> what]) /\ stage = "handler"
  BY DEF Lambda!Do
<1>2. kind # "panic" => Lambda!Panics' = Lambda!Panics
  BY <1>1, Grown DEF Adapted
<1> QED
  BY <1>1, <1>2 DEF Adapted

(* What is replaced in a recorder, and what stays. *)
LEMMA RecorderWith ==
  ASSUME NEW r \in Lambda!Recorder
  PROVE  /\ \A x \in Seq(Cookie) :
              LET q == [r EXCEPT !.cookies = x]
              IN  /\ q \in Lambda!Recorder /\ q.cookies = x
                  /\ q.header = r.header /\ q.code = r.code /\ q.wrote = r.wrote /\ q.body = r.body
         /\ \A x \in [Header -> Seq(Value)] :
              LET q == [r EXCEPT !.header = x]
              IN  /\ q \in Lambda!Recorder /\ q.header = x
                  /\ q.cookies = r.cookies /\ q.code = r.code /\ q.wrote = r.wrote /\ q.body = r.body
         /\ \A x \in Seq({"text", "binary"}) :
              LET q == [r EXCEPT !.body = x]
              IN  /\ q \in Lambda!Recorder /\ q.body = x
                  /\ q.cookies = r.cookies /\ q.code = r.code /\ q.wrote = r.wrote /\ q.header = r.header
<1> DEFINE A == [Header -> Seq(Value)]
           B == Seq(Cookie)
           C == Lambda!Status \cup {"ok", "badRequest", "internal"}
           D == Seq({"text", "binary"})
<1>1. Lambda!Recorder = [header : A, cookies : B, code : C, wrote : BOOLEAN, body : D]
  BY DEF Lambda!Recorder
<1> HIDE DEF A, B, C, D
<1>2. ASSUME NEW x \in B
      PROVE  LET q == [r EXCEPT !.cookies = x]
             IN  /\ q \in Lambda!Recorder /\ q.cookies = x
                 /\ q.header = r.header /\ q.code = r.code /\ q.wrote = r.wrote /\ q.body = r.body
  BY <1>1
<1>3. ASSUME NEW x \in A
      PROVE  LET q == [r EXCEPT !.header = x]
             IN  /\ q \in Lambda!Recorder /\ q.header = x
                 /\ q.cookies = r.cookies /\ q.code = r.code /\ q.wrote = r.wrote /\ q.body = r.body
  BY <1>1
<1>4. ASSUME NEW x \in D
      PROVE  LET q == [r EXCEPT !.body = x]
             IN  /\ q \in Lambda!Recorder /\ q.body = x
                 /\ q.cookies = r.cookies /\ q.code = r.code /\ q.wrote = r.wrote /\ q.header = r.header
  BY <1>1
<1> QED
  BY <1>2, <1>3, <1>4 DEF A, B, D

LEMMA CookieKeeps ==
  ASSUME Adapted, Lambda!splitsSetCookie, NEW c \in Cookie, Lambda!SetCookie(c)
  PROVE  Adapted'
<1> DEFINE d == [kind |-> "header", of |-> "Set-Cookie", what |-> c]
<1>1. d \in Deed /\ Lambda!Do("header", "Set-Cookie", c)
  BY DEF Deed, Lambda!Names, Lambda!SetCookie
<1>2. /\ stage = "handler" /\ sent.decodable /\ AsDone /\ deeds \in Seq(Deed) /\ rec \in Lambda!Recorder
      /\ deeds' = Append(deeds, d) /\ deeds' \in Seq(Deed) /\ Lambda!Panics' = {}
  BY <1>1, Deeds
<1>3. rec' = [rec EXCEPT !.cookies = Append(rec.cookies, c)] /\ UNCHANGED <<front, sent, stage>>
  BY DEF Lambda!SetCookie, Lambda!Recorded
<1>4. /\ rec' \in Lambda!Recorder /\ rec'.cookies = Append(rec.cookies, c)
      /\ rec'.header = rec.header /\ rec'.code = rec.code /\ rec'.wrote = rec.wrote /\ rec'.body = rec.body
  <2>1. Append(rec.cookies, c) \in Seq(Cookie)
    BY <1>2 DEF Lambda!Recorder
  <2> QED
    BY <1>2, <1>3, <2>1, RecorderWith
<1>5. \A n \in Header : Lambda!InOrder(deeds, Lambda!Adds(n))' = Lambda!InOrder(deeds, Lambda!Adds(n))
  <2>1. ASSUME NEW n \in Header PROVE ~(d.kind = "header" /\ d.of = n)
    BY DEF Lambda!splitsSetCookie
  <2> HIDE DEF d
  <2> QED
    BY <1>1, <1>2, <2>1, ListsStay
<1>6. Lambda!InOrder(deeds, Lambda!Adds("Set-Cookie"))' = Append(rec.cookies, c)
  <2>1. rec.cookies \in Seq(Cookie) /\ rec.cookies = Lambda!InOrder(deeds, Lambda!Adds("Set-Cookie"))
    BY <1>2 DEF Lambda!Recorder, AsDone
  <2>2. d.kind = "header" /\ d.of = "Set-Cookie" /\ d.what = c
    OBVIOUS
  <2> HIDE DEF d
  <2> QED
    BY <1>1, <1>2, <2>1, <2>2, ListGrows
<1>7. Lambda!InOrder(deeds, Lambda!Writes)' = Lambda!InOrder(deeds, Lambda!Writes)
  BY <1>1, <1>2, ListsStay
<1>8. Lambda!Statuses' = Lambda!Statuses
  BY <1>1, <1>2, Grown
<1>9. Lambda!FirstCode' = Lambda!FirstCode
  BY <1>1, <1>2, <1>8, FirstStays
<1>10. AsDone'
  BY <1>2, <1>4, <1>5, <1>6, <1>7, <1>8, <1>9 DEF AsDone
<1> QED
  BY <1>2, <1>3, <1>4, <1>10 DEF Adapted

LEMMA HeaderKeeps ==
  ASSUME Adapted, Lambda!splitsSetCookie, NEW n \in Header, NEW v \in Value, Lambda!AddHeader(n, v)
  PROVE  Adapted'
<1> DEFINE d == [kind |-> "header", of |-> n, what |-> v]
<1>1. d \in Deed /\ Lambda!Do("header", n, v)
  BY DEF Deed, Lambda!Names, Lambda!AddHeader
<1>2. /\ stage = "handler" /\ sent.decodable /\ AsDone /\ deeds \in Seq(Deed) /\ rec \in Lambda!Recorder
      /\ deeds' = Append(deeds, d) /\ deeds' \in Seq(Deed) /\ Lambda!Panics' = {}
  BY <1>1, Deeds
<1> DEFINE h == [rec.header EXCEPT ![n] = Append(rec.header[n], v)]
<1>3. rec' = [rec EXCEPT !.header = h] /\ UNCHANGED <<front, sent, stage>>
  BY DEF Lambda!AddHeader, Lambda!Recorded
<1>4. /\ rec' \in Lambda!Recorder /\ rec'.header = h
      /\ rec'.cookies = rec.cookies /\ rec'.code = rec.code /\ rec'.wrote = rec.wrote /\ rec'.body = rec.body
  <2>1. rec.header \in [Header -> Seq(Value)]
    BY <1>2 DEF Lambda!Recorder
  <2>2. h \in [Header -> Seq(Value)]
    BY <2>1
  <2> HIDE DEF h
  <2> QED
    BY <1>2, <1>3, <2>2, RecorderWith
<1>5. \A m : m # n => Lambda!InOrder(deeds, Lambda!Adds(m))' = Lambda!InOrder(deeds, Lambda!Adds(m))
  <2>1. ASSUME NEW m, m # n PROVE ~(d.kind = "header" /\ d.of = m)
    BY <2>1
  <2> HIDE DEF d
  <2> QED
    BY <1>1, <1>2, <2>1, ListsStay
<1>6. Lambda!InOrder(deeds, Lambda!Adds(n))' = Append(rec.header[n], v)
  <2>1. rec.header[n] \in Seq(Value) /\ rec.header[n] = Lambda!InOrder(deeds, Lambda!Adds(n))
    BY <1>2 DEF Lambda!Recorder, AsDone
  <2>2. d.kind = "header" /\ d.of = n /\ d.what = v
    OBVIOUS
  <2> HIDE DEF d
  <2> QED
    BY <1>1, <1>2, <2>1, <2>2, ListGrows
<1>7. Lambda!InOrder(deeds, Lambda!Writes)' = Lambda!InOrder(deeds, Lambda!Writes)
  BY <1>1, <1>2, ListsStay
<1>8. Lambda!Statuses' = Lambda!Statuses
  BY <1>1, <1>2, Grown
<1>9. Lambda!FirstCode' = Lambda!FirstCode
  BY <1>1, <1>2, <1>8, FirstStays
<1>10. /\ rec'.header[n] = Append(rec.header[n], v) /\ \A m \in Header : m # n => rec'.header[m] = rec.header[m]
       /\ rec'.cookies = rec.cookies /\ rec'.body = rec.body /\ rec'.wrote = rec.wrote /\ rec'.code = rec.code
  BY <1>2, <1>4 DEF Lambda!Recorder
<1>11. n # "Set-Cookie"
  BY DEF Lambda!splitsSetCookie
<1>12. AsDone'
  BY <1>2, <1>5, <1>6, <1>7, <1>8, <1>9, <1>10, <1>11 DEF AsDone
<1> QED
  BY <1>2, <1>3, <1>4, <1>12 DEF Adapted

(* A status, or the first piece of a body, settles the code once. *)
LEMMA CodedAs ==
  ASSUME NEW r \in Lambda!Recorder, NEW code \in Lambda!Status \cup {"ok"}
  PROVE  /\ Lambda!Coded(r, code) \in Lambda!Recorder
         /\ Lambda!Coded(r, code).header = r.header /\ Lambda!Coded(r, code).cookies = r.cookies
         /\ Lambda!Coded(r, code).body = r.body
         /\ r.wrote \/ code = "processing" =>
              Lambda!Coded(r, code).wrote = r.wrote /\ Lambda!Coded(r, code).code = r.code
         /\ ~r.wrote /\ code # "processing" =>
              /\ Lambda!Coded(r, code).wrote
              /\ Lambda!Coded(r, code).code = IF code = "outOfRange" THEN "internal" ELSE code
BY DEF Lambda!Coded, Lambda!Recorder, Lambda!Status

LEMMA StatusKeeps ==
  ASSUME Adapted, NEW code \in Lambda!Status, Lambda!WriteHeader(code)
  PROVE  Adapted'
<1> DEFINE d == [kind |-> "status", of |-> "none", what |-> code]
<1>1. d \in Deed /\ Lambda!Do("status", "none", code)
  BY DEF Deed, Lambda!WriteHeader
<1>2. /\ stage = "handler" /\ sent.decodable /\ AsDone /\ deeds \in Seq(Deed) /\ rec \in Lambda!Recorder
      /\ deeds' = Append(deeds, d) /\ deeds' \in Seq(Deed) /\ Lambda!Panics' = {}
  BY <1>1, Deeds
<1>3. rec' = Lambda!Coded(rec, code) /\ UNCHANGED <<front, sent, stage>>
  BY DEF Lambda!WriteHeader, Lambda!Recorded
<1>4. /\ rec' \in Lambda!Recorder /\ rec'.header = rec.header /\ rec'.cookies = rec.cookies /\ rec'.body = rec.body
      /\ rec.wrote \/ code = "processing" => rec'.wrote = rec.wrote /\ rec'.code = rec.code
      /\ ~rec.wrote /\ code # "processing" =>
           rec'.wrote /\ rec'.code = IF code = "outOfRange" THEN "internal" ELSE code
  BY <1>2, <1>3, CodedAs
<1>5. /\ \A n : Lambda!InOrder(deeds, Lambda!Adds(n))' = Lambda!InOrder(deeds, Lambda!Adds(n))
      /\ Lambda!InOrder(deeds, Lambda!Writes)' = Lambda!InOrder(deeds, Lambda!Writes)
  BY <1>1, <1>2, ListsStay
<1>6. rec'.wrote <=> (Lambda!Statuses # {})'
  <2>1. Lambda!Statuses' = IF code # "processing" THEN Lambda!Statuses \cup {Len(deeds) + 1} ELSE Lambda!Statuses
    BY <1>1, <1>2, Grown
  <2>2. rec.wrote <=> (Lambda!Statuses # {})
    BY <1>2 DEF AsDone
  <2> QED
    BY <1>4, <2>1, <2>2
<1>7. rec'.code = Lambda!FirstCode'
  <2>1. rec.wrote <=> (Lambda!Statuses # {})
    BY <1>2 DEF AsDone
  <2>2. CASE rec.wrote \/ code = "processing"
    <3>1. Lambda!Statuses # {} \/ Lambda!Statuses' = Lambda!Statuses
      BY <1>1, <1>2, <2>1, <2>2, Grown
    <3>2. Lambda!FirstCode' = Lambda!FirstCode
      BY <1>1, <1>2, <3>1, FirstStays
    <3> QED
      BY <1>2, <1>4, <2>2, <3>2 DEF AsDone
  <2>3. CASE ~rec.wrote /\ code # "processing"
    <3>1. Lambda!FirstCode' = Lambda!CodeOf(d)
      BY <1>1, <1>2, <2>1, <2>3, FirstComes
    <3> QED
      BY <1>4, <2>3, <3>1 DEF Lambda!CodeOf
  <2> QED
    BY <2>2, <2>3
<1>8. AsDone'
  BY <1>2, <1>4, <1>5, <1>6, <1>7 DEF AsDone
<1> QED
  BY <1>2, <1>3, <1>4, <1>8 DEF Adapted

LEMMA WriteKeeps ==
  ASSUME Adapted, NEW b \in {"text", "binary"}, Lambda!Write(b)
  PROVE  Adapted'
<1> DEFINE d == [kind |-> "write", of |-> "none", what |-> b]
           r == Lambda!Coded(rec, "ok")
<1>1. d \in Deed /\ Lambda!Do("write", "none", b)
  BY DEF Deed, Lambda!Write
<1>2. /\ stage = "handler" /\ sent.decodable /\ AsDone /\ deeds \in Seq(Deed) /\ rec \in Lambda!Recorder
      /\ deeds' = Append(deeds, d) /\ deeds' \in Seq(Deed) /\ Lambda!Panics' = {}
  BY <1>1, Deeds
<1>3. rec' = [r EXCEPT !.body = Append(r.body, b)] /\ UNCHANGED <<front, sent, stage>>
  BY DEF Lambda!Write, Lambda!Recorded
<1>4. /\ r \in Lambda!Recorder /\ r.header = rec.header /\ r.cookies = rec.cookies /\ r.body = rec.body
      /\ rec.wrote => r.wrote = rec.wrote /\ r.code = rec.code
      /\ ~rec.wrote => r.wrote /\ r.code = "ok"
  BY <1>2, CodedAs
<1> HIDE DEF r
<1>5. /\ rec' \in Lambda!Recorder /\ rec'.header = rec.header /\ rec'.cookies = rec.cookies
      /\ rec'.body = Append(rec.body, b) /\ rec'.wrote = r.wrote /\ rec'.code = r.code
  <2>1. Append(r.body, b) \in Seq({"text", "binary"})
    BY <1>4 DEF Lambda!Recorder
  <2>2. /\ rec' \in Lambda!Recorder /\ rec'.body = Append(r.body, b)
        /\ rec'.header = r.header /\ rec'.cookies = r.cookies /\ rec'.code = r.code /\ rec'.wrote = r.wrote
    <3> DEFINE x == Append(r.body, b)
    <3> HIDE DEF x
    <3>1. x \in Seq({"text", "binary"}) /\ rec' = [r EXCEPT !.body = x] /\ r \in Lambda!Recorder
      BY <1>3, <1>4, <2>1 DEF x
    <3>2. /\ rec' \in Lambda!Recorder /\ rec'.body = x
          /\ rec'.header = r.header /\ rec'.cookies = r.cookies /\ rec'.code = r.code /\ rec'.wrote = r.wrote
      BY <3>1, RecorderWith
    <3> QED
      BY <3>2 DEF x
  <2> QED
    BY <1>4, <2>2, Zenon
<1>6. \A n : Lambda!InOrder(deeds, Lambda!Adds(n))' = Lambda!InOrder(deeds, Lambda!Adds(n))
  BY <1>1, <1>2, ListsStay
<1>7. Lambda!InOrder(deeds, Lambda!Writes)' = Append(rec.body, b)
  <2>1. rec.body \in Seq({"text", "binary"}) /\ rec.body = Lambda!InOrder(deeds, Lambda!Writes)
    BY <1>2 DEF Lambda!Recorder, AsDone
  <2>2. d.kind = "write" /\ d.what = b
    OBVIOUS
  <2> HIDE DEF d
  <2> QED
    BY <1>1, <1>2, <2>1, <2>2, ListGrows
<1>8. (Lambda!Statuses # {})'
  BY <1>1, <1>2, Grown
<1>9. rec'.wrote /\ rec'.code = Lambda!FirstCode'
  <2>1. rec.wrote <=> (Lambda!Statuses # {})
    BY <1>2 DEF AsDone
  <2>2. CASE rec.wrote
    <3>1. Lambda!FirstCode' = Lambda!FirstCode
      BY <1>1, <1>2, <2>1, <2>2, FirstStays
    <3> QED
      BY <1>2, <1>4, <1>5, <2>2, <3>1 DEF AsDone
  <2>3. CASE ~rec.wrote
    <3>1. Lambda!FirstCode' = Lambda!CodeOf(d)
      BY <1>1, <1>2, <2>1, <2>3, FirstComes
    <3> QED
      BY <1>4, <1>5, <2>3, <3>1 DEF Lambda!CodeOf
  <2> QED
    BY <2>2, <2>3
<1>10. AsDone'
  BY <1>2, <1>5, <1>6, <1>7, <1>8, <1>9 DEF AsDone
<1> QED
  BY <1>2, <1>3, <1>5, <1>10 DEF Adapted

(* No deed, no change in what was done. *)
LEMMA DoneStays ==
  ASSUME deeds' = deeds
  PROVE  /\ \A n : Lambda!InOrder(deeds, Lambda!Adds(n))' = Lambda!InOrder(deeds, Lambda!Adds(n))
         /\ Lambda!InOrder(deeds, Lambda!Writes)' = Lambda!InOrder(deeds, Lambda!Writes)
         /\ Lambda!Statuses' = Lambda!Statuses /\ Lambda!Panics' = Lambda!Panics
         /\ Lambda!FirstCode' = Lambda!FirstCode
<1>1. ASSUME NEW n
      PROVE  Lambda!InOrder(deeds, Lambda!Adds(n))' = Lambda!InOrder(deeds, Lambda!Adds(n))
  <2>1. Lambda!Adds(n)' = Lambda!Adds(n)
    BY DEF Lambda!Adds
  <2>2. Lambda!InOrder(deeds, Lambda!Adds(n))' = Lambda!InOrder(deeds', Lambda!Adds(n)')
    BY Zenon DEF Lambda!InOrder
  <2> QED
    BY <2>1, <2>2, Zenon
<1>2. Lambda!InOrder(deeds, Lambda!Writes)' = Lambda!InOrder(deeds, Lambda!Writes)
  <2>1. Lambda!Writes' = Lambda!Writes
    BY DEF Lambda!Writes
  <2>2. Lambda!InOrder(deeds, Lambda!Writes)' = Lambda!InOrder(deeds', Lambda!Writes')
    BY Zenon DEF Lambda!InOrder
  <2> QED
    BY <2>1, <2>2, Zenon
<1>3. Lambda!Statuses' = Lambda!Statuses /\ Lambda!Panics' = Lambda!Panics
  BY DEF Lambda!Statuses, Lambda!Writes, Lambda!Panics
<1>4. Lambda!FirstCode' = Lambda!FirstCode
  <2>1. Lambda!FirstCode'
          = IF Lambda!Statuses' = {} THEN "ok" ELSE Lambda!CodeOf(deeds'[Lambda!Min(Lambda!Statuses')])
    BY Zenon DEF Lambda!FirstCode, Lambda!CodeOf, Lambda!Min
  <2> QED
    BY <1>3, <2>1, Zenon DEF Lambda!FirstCode
<1> QED
  BY <1>1, <1>2, <1>3, <1>4

LEMMA AsDoneStays ==
  ASSUME rec' = rec, deeds' = deeds
  PROVE  AsDone <=> AsDone'
BY DoneStays DEF AsDone

(* What was meant depends on the request and the deeds only. *)
LEMMA MeantStays ==
  ASSUME UNCHANGED <<sent, deeds>>
  PROVE  Lambda!Meant' = Lambda!Meant
<1>1. [n \in Header |-> Lambda!InOrder(deeds, Lambda!Adds(n))]'
        = [n \in Header |-> Lambda!InOrder(deeds, Lambda!Adds(n))]
  BY DoneStays
<1> QED
  BY <1>1, DoneStays, Zenon DEF Lambda!Meant, Lambda!Bare, Lambda!BodyAllowed

(* A recorder that holds a status and nothing else. *)
LEMMA StatusOnly ==
  ASSUME NEW code \in {"badRequest", "internal"}
  PROVE  LET r == Lambda!statusOnlyRecorder(code)
         IN  /\ r \in Lambda!Recorder /\ r.code = code /\ r.header = [n \in Header |-> <<>>]
             /\ r.cookies = <<>> /\ r.body = <<>>
<1> DEFINE none == [n \in Header |-> <<>>]
           A == [Header -> Seq(Value)]
           B == Seq(Cookie)
           C == Lambda!Status \cup {"ok", "badRequest", "internal"}
           D == Seq({"text", "binary"})
<1>1. Lambda!Recorder = [header : A, cookies : B, code : C, wrote : BOOLEAN, body : D]
  BY DEF Lambda!Recorder
<1>2. none \in A /\ <<>> \in B /\ code \in C /\ <<>> \in D
  <2>1. <<>> \in B /\ <<>> \in D /\ <<>> \in Seq(Value)
    OBVIOUS
  <2>2. none \in A
    BY <2>1
  <2>3. code \in C
    OBVIOUS
  <2> QED
    BY <2>1, <2>2, <2>3
<1>3. Lambda!statusOnlyRecorder(code)
        = [header |-> none, cookies |-> <<>>, code |-> code, wrote |-> TRUE, body |-> <<>>]
  <2>1. Lambda!statusOnlyRecorder(code)
          = [[header |-> none, cookies |-> <<>>, code |-> "ok", wrote |-> FALSE, body |-> <<>>]
               EXCEPT !.code = code, !.wrote = TRUE]
    BY Zenon DEF Lambda!statusOnlyRecorder, Lambda!newResponseRecorder
  <2> HIDE DEF none
  <2> QED
    BY <2>1
<1> HIDE DEF none, A, B, C, D
<1>4. /\ Lambda!statusOnlyRecorder(code) \in Lambda!Recorder /\ Lambda!statusOnlyRecorder(code).code = code
      /\ Lambda!statusOnlyRecorder(code).header = none /\ Lambda!statusOnlyRecorder(code).cookies = <<>>
      /\ Lambda!statusOnlyRecorder(code).body = <<>>
  BY <1>1, <1>2, <1>3
<1> QED
  BY <1>4 DEF none

LEMMA NothingDone ==
  ASSUME deeds = <<>>
  PROVE  /\ \A n : Lambda!InOrder(deeds, Lambda!Adds(n)) = <<>>
         /\ Lambda!InOrder(deeds, Lambda!Writes) = <<>>
         /\ Lambda!Statuses = {} /\ Lambda!Panics = {} /\ Lambda!FirstCode = "ok"
<1>1. /\ \A n : Lambda!Adds(n) = {}
      /\ Lambda!Writes = {} /\ Lambda!Statuses = {} /\ Lambda!Panics = {}
  BY DEF Lambda!Adds, Lambda!Writes, Lambda!Statuses, Lambda!Panics
<1>2. Lambda!InOrder(deeds, {}) = <<>>
  <2> DEFINE f == Lambda!InOrder(deeds, {})
  <2>1. Listed(f, {})
    BY Order, 0 \in Nat, {} \in SUBSET (1..0)
  <2>2. Cardinality({}) = 0
    BY FS_EmptySet
  <2> HIDE DEF f
  <2>3. f = [j \in 1..0 |-> f[j]]
    BY <2>1, <2>2 DEF Listed
  <2>4. f = <<>>
    BY <2>3
  <2> QED
    BY <2>4 DEF f
<1> QED
  BY <1>1, <1>2 DEF Lambda!FirstCode

LEMMA RequestKeeps ==
  ASSUME Adapted, Lambda!NewRequest
  PROVE  Adapted'
<1>1. /\ stage = "event" /\ UNCHANGED <<front, sent, deeds>>
      /\ deeds = <<>> /\ rec = Lambda!newResponseRecorder
  BY DEF Adapted, Lambda!NewRequest
<1>2. CASE sent.decodable
  <2>1. stage' = "handler" /\ rec' = rec
    BY <1>2 DEF Lambda!NewRequest
  <2>2. deeds' = <<>>
    BY <1>1
  <2>3. Lambda!Panics' = {} /\ AsDone
    BY <1>1, NothingDone DEF AsDone, Lambda!newResponseRecorder, Lambda!Panics
  <2>4. AsDone'
    BY <1>1, <2>1, <2>3, AsDoneStays
  <2> QED
    BY <1>1, <1>2, <2>1, <2>3, <2>4 DEF Adapted
<1>3. CASE ~sent.decodable
  <2>1. stage' = "returned" /\ rec' = Lambda!statusOnlyRecorder("badRequest")
    BY <1>3 DEF Lambda!NewRequest
  <2>2. Lambda!Meant = Lambda!Bare("badRequest")
    BY <1>3 DEF Lambda!Meant
  <2>3. Lambda!Meant' = Lambda!Meant
    BY <1>1, MeantStays
  <2>4. /\ rec' \in Lambda!Recorder /\ rec'.code = "badRequest" /\ rec'.header = [n \in Header |-> <<>>]
        /\ rec'.cookies = <<>> /\ rec'.body = <<>>
    BY <2>1, StatusOnly
  <2>5. AsMeant'
    BY <2>2, <2>3, <2>4 DEF AsMeant, Lambda!Bare
  <2> QED
    BY <1>1, <2>1, <2>4, <2>5 DEF Adapted
<1> QED
  BY <1>2, <1>3

(* What is dropped is the body, where there may be none. *)
LEMMA Dropped ==
  ASSUME NEW r \in Lambda!Recorder
  PROVE  /\ Lambda!dropForbiddenBody(r) \in Lambda!Recorder
         /\ Lambda!dropForbiddenBody(r).code = r.code /\ Lambda!dropForbiddenBody(r).header = r.header
         /\ Lambda!dropForbiddenBody(r).cookies = r.cookies
         /\ Lambda!dropForbiddenBody(r).body = IF Lambda!BodyAllowed(sent.method, r.code) THEN r.body ELSE <<>>
<1>1. <<>> \in Seq({"text", "binary"})
  OBVIOUS
<1>2. CASE Lambda!BodyAllowed(sent.method, r.code)
  BY <1>2 DEF Lambda!dropForbiddenBody
<1>3. CASE ~Lambda!BodyAllowed(sent.method, r.code)
  <2> DEFINE q == [r EXCEPT !.body = <<>>]
  <2>1. /\ q \in Lambda!Recorder /\ q.body = <<>> /\ q.cookies = r.cookies /\ q.code = r.code
        /\ q.header = r.header
    BY <1>1, RecorderWith
  <2>2. Lambda!dropForbiddenBody(r) = q
    BY <1>3 DEF Lambda!dropForbiddenBody
  <2> HIDE DEF q
  <2> QED
    BY <1>3, <2>1, <2>2
<1> QED
  BY <1>2, <1>3

LEMMA ReturnKeeps ==
  ASSUME Adapted, Lambda!Return
  PROVE  Adapted'
<1>1. /\ stage = "handler" /\ stage' = "returned" /\ rec' = Lambda!dropForbiddenBody(rec)
      /\ UNCHANGED <<front, sent, deeds>>
  BY DEF Lambda!Return
<1>2. sent.decodable /\ Lambda!Panics = {} /\ AsDone /\ rec \in Lambda!Recorder
  BY <1>1 DEF Adapted
<1>3. /\ rec' \in Lambda!Recorder /\ rec'.code = rec.code /\ rec'.header = rec.header /\ rec'.cookies = rec.cookies
      /\ rec'.body = IF Lambda!BodyAllowed(sent.method, rec.code) THEN rec.body ELSE <<>>
  BY <1>1, <1>2, Dropped
<1>4. /\ Lambda!Meant.code = Lambda!FirstCode
      /\ Lambda!Meant.header = [n \in Header |-> Lambda!InOrder(deeds, Lambda!Adds(n))]
      /\ Lambda!Meant.cookies = Lambda!InOrder(deeds, Lambda!Adds("Set-Cookie"))
      /\ Lambda!Meant.body = IF Lambda!BodyAllowed(sent.method, Lambda!FirstCode)
                               THEN Lambda!InOrder(deeds, Lambda!Writes) ELSE <<>>
  BY <1>2 DEF Lambda!Meant
<1>5. Lambda!Meant' = Lambda!Meant
  BY <1>1, MeantStays
<1>6. rec.header = [n \in Header |-> Lambda!InOrder(deeds, Lambda!Adds(n))]
  BY <1>2 DEF AsDone, Lambda!Recorder
<1>7. AsMeant'
  BY <1>2, <1>3, <1>4, <1>5, <1>6 DEF AsMeant, AsDone
<1> QED
  BY <1>1, <1>3, <1>7 DEF Adapted

LEMMA PanicKeeps ==
  ASSUME Adapted, Lambda!Panic
  PROVE  Adapted'
<1> DEFINE d == [kind |-> "panic", of |-> "none", what |-> "none"]
<1>1. d \in Deed /\ Lambda!Do("panic", "none", "none")
  BY DEF Deed, Lambda!Panic
<1>2. /\ stage' = "returned" /\ rec' = Lambda!dropForbiddenBody(Lambda!Reset(rec)) /\ UNCHANGED <<front, sent>>
  BY DEF Lambda!Panic
<1>3. /\ sent.decodable /\ deeds \in Seq(Deed)
      /\ deeds' = Append(deeds, d) /\ deeds' \in Seq(Deed)
  BY <1>1, Deeds
<1>4. Lambda!Panics' # {}
  BY <1>1, <1>3, Grown
<1>5. Lambda!Meant' = Lambda!Bare("internal")
  BY <1>2, <1>3, <1>4 DEF Lambda!Meant, Lambda!Bare
<1> DEFINE r == Lambda!Reset(rec)
<1>6. /\ r \in Lambda!Recorder /\ r.code = "internal" /\ r.header = [n \in Header |-> <<>>]
      /\ r.cookies = <<>> /\ r.body = <<>>
  BY StatusOnly DEF Lambda!Reset
<1> HIDE DEF r
<1>7. /\ rec' \in Lambda!Recorder /\ rec'.code = r.code /\ rec'.header = r.header /\ rec'.cookies = r.cookies
      /\ rec'.body = <<>>
  <2>1. rec' = Lambda!dropForbiddenBody(r)
    BY <1>2 DEF r
  <2> QED
    BY <1>6, <2>1, Dropped
<1>8. AsMeant'
  BY <1>5, <1>6, <1>7 DEF AsMeant, Lambda!Bare
<1> QED
  BY <1>2, <1>3, <1>7, <1>8 DEF Adapted

LEMMA AdaptedInit == Lambda!Init => Adapted
BY DEF Lambda!Init, Adapted, Lambda!newResponseRecorder, Lambda!Recorder

LEMMA AdaptedStep ==
  Adapted /\ Lambda!splitsSetCookie /\ [Lambda!Next]_(Lambda!vars) => Adapted'
<1> SUFFICES ASSUME Adapted, Lambda!splitsSetCookie, [Lambda!Next]_(Lambda!vars)
             PROVE  Adapted'
  OBVIOUS
<1>1. CASE Lambda!NewRequest
  BY <1>1, RequestKeeps
<1>2. CASE Lambda!Return
  BY <1>2, ReturnKeeps
<1>3. CASE Lambda!Panic
  BY <1>3, PanicKeeps
<1>4. CASE Lambda!Answer
  BY <1>4 DEF Adapted, Lambda!Answer
<1>5. CASE \E c \in Cookie : Lambda!SetCookie(c)
  BY <1>5, CookieKeeps
<1>6. CASE \E n \in Header, v \in Value : Lambda!AddHeader(n, v)
  BY <1>6, HeaderKeeps
<1>7. CASE \E code \in Lambda!Status : Lambda!WriteHeader(code)
  BY <1>7, StatusKeeps
<1>8. CASE \E b \in {"text", "binary"} : Lambda!Write(b)
  BY <1>8, WriteKeeps
<1>9. CASE UNCHANGED Lambda!vars
  <2>1. UNCHANGED <<front, sent, stage, req, rec, reply, deeds>>
    BY <1>9 DEF Lambda!vars
  <2>2. Lambda!Meant' = Lambda!Meant
    BY <2>1, MeantStays
  <2>3. AsMeant => AsMeant'
    BY <2>1, <2>2 DEF AsMeant
  <2>4. Lambda!Panics' = Lambda!Panics
    BY <2>1, DoneStays
  <2>5. AsDone => AsDone'
    BY <2>1, AsDoneStays
  <2> QED
    BY <2>1, <2>3, <2>4, <2>5 DEF Adapted
<1> QED
  BY <1>1, <1>2, <1>3, <1>4, <1>5, <1>6, <1>7, <1>8, <1>9 DEF Lambda!Next

(* The lines of a header that come through: all of them, or the last where *)
(* a load balancer has one value for it.                                   *)
Left(where, lines) == IF where = "albSingle" /\ lines # <<>> THEN <<Lambda!Last(lines)>> ELSE lines

(* Of the lines that come through, the handler sees every cookie. *)
LEMMA CookiesArrive ==
  ASSUME front \in Lambda!FrontEnd, sent \in Lambda!Requests
  PROVE  Lambda!FlattenSeq(Lambda!addCookieHeader(Lambda!Event))
           = Lambda!FlattenSeq(Left(front, sent.cookies))
<1> DEFINE lines == sent.cookies
           event == Lambda!Event
<1>1. CASE front = "v2"
  <2>1. event.array = Lambda!FlattenSeq(lines) /\ event.cookies = <<>>
    BY <1>1 DEF Lambda!Event
  <2>2. CASE lines = <<>>
    <3>1. event.array = <<>>
      BY <2>1, <2>2, FlattenNone
    <3> QED
      BY <1>1, <2>1, <2>2, <3>1 DEF Lambda!addCookieHeader, Left
  <2>3. CASE lines # <<>>
    <3>1. Lambda!FlattenSeq(lines) \in Seq(Cookie) /\ Lambda!FlattenSeq(lines) # <<>>
      <4>1. lines \in Lambda!CookieLines
        BY DEF Lambda!Requests
      <4>2. CASE \E c \in Cookie : lines = <<<<c>>>>
        <5>1. PICK c \in Cookie : lines = <<<<c>>>>
          BY <4>2
        <5>2. Lambda!FlattenSeq(lines) = <<c>>
          BY <5>1, FlattenOne
        <5> QED
          BY <5>2
      <4>3. CASE \E c \in Cookie, d \in Cookie : lines = <<<<c>>, <<d>>>>
        <5>1. PICK c \in Cookie, d \in Cookie : lines = <<<<c>>, <<d>>>>
          BY <4>3
        <5>2. Lambda!FlattenSeq(lines) = <<c>> \o <<d>>
          BY <5>1, FlattenTwo
        <5> QED
          BY <5>2
      <4> QED
        BY <2>3, <4>1, <4>2, <4>3 DEF Lambda!CookieLines
    <3>2. Lambda!addCookieHeader(event) = <<<<>> \o Lambda!FlattenSeq(lines)>>
      BY <2>1, <3>1, FlattenNone DEF Lambda!addCookieHeader
    <3>3. <<>> \o Lambda!FlattenSeq(lines) = Lambda!FlattenSeq(lines)
      BY <3>1
    <3>4. Lambda!FlattenSeq(<<Lambda!FlattenSeq(lines)>>) = Lambda!FlattenSeq(lines)
      BY FlattenOne, Zenon
    <3> QED
      BY <1>1, <3>2, <3>3, <3>4 DEF Left
  <2> QED
    BY <2>2, <2>3
<1>2. CASE front # "v2"
  <2>1. event.array = <<>> /\ event.cookies = Lambda!Lines(lines)
    BY <1>2 DEF Lambda!Event
  <2>2. Lambda!Lines(lines) = Left(front, lines)
    BY <1>2 DEF Lambda!Lines, Lambda!FrontEnd, Left
  <2> QED
    BY <2>1, <2>2 DEF Lambda!addCookieHeader
<1> QED
  BY <1>1, <1>2

(* The first scheme the handler sees is the client's. *)
LEMMA SchemeArrives ==
  ASSUME front \in Lambda!FrontEnd, sent \in Lambda!Requests
  PROVE  Head(Lambda!appendHeaderValue(Lambda!Event.schemes))
           = <<Head(Head(Left(front, sent.schemes)))>>
<1> DEFINE lines == sent.schemes
           kept == Left(front, lines)
           all == Lambda!FlattenSeq(Lambda!Event.schemes)
<1>1. \/ lines = <<<<"https">>>> \/ lines = <<<<"https", "http">>>> \/ lines = <<<<"https">>, <<"http">>>>
  BY DEF Lambda!Requests, Lambda!SchemeLines
<1>2. /\ Lambda!FlattenSeq(<<<<"https">>>>) = <<"https">>
      /\ Lambda!FlattenSeq(<<<<"https", "http">>>>) = <<"https", "http">>
      /\ Lambda!FlattenSeq(<<<<"https">>, <<"http">>>>) = <<"https", "http">>
  BY FlattenOne, FlattenTwo
<1>3. /\ Lambda!Event.schemes = Lambda!Lines(lines) /\ lines # <<>>
      /\ front = "v2" => Lambda!Lines(lines) = <<Lambda!FlattenSeq(lines)>>
      /\ front \in {"rest", "albMulti"} => Lambda!Lines(lines) = lines
      /\ front = "albSingle" => Lambda!Lines(lines) = <<Lambda!Last(lines)>>
  <2>1. lines # <<>>
    BY <1>1
  <2>2. Lambda!Event.schemes = Lambda!Lines(lines)
    BY DEF Lambda!Event
  <2> HIDE DEF lines
  <2>3. /\ front = "v2" => Lambda!Lines(lines) = <<Lambda!FlattenSeq(lines)>>
        /\ front \in {"rest", "albMulti"} => Lambda!Lines(lines) = lines
        /\ front = "albSingle" => Lambda!Lines(lines) = <<Lambda!Last(lines)>>
    BY <2>1 DEF Lambda!Lines
  <2> QED
    BY <2>1, <2>2, <2>3
<1>4. all \in {<<"https">>, <<"http">>, <<"https", "http">>} /\ Head(all) = Head(Head(kept))
  <2>1. CASE front = "v2"
    BY <1>1, <1>2, <1>3, <2>1, FlattenOne DEF Left
  <2>2. CASE front \in {"rest", "albMulti"}
    BY <1>1, <1>2, <1>3, <2>2 DEF Left
  <2>3. CASE front = "albSingle"
    BY <1>1, <1>3, <2>3, FlattenOne DEF Lambda!Last, Left
  <2> QED
    BY <2>1, <2>2, <2>3 DEF Lambda!FrontEnd
<1>5. Lambda!appendHeaderValue(Lambda!Event.schemes) = [i \in DOMAIN all |-> <<all[i]>>]
  BY DEF Lambda!appendHeaderValue
<1> HIDE DEF all, kept
<1>6. Head([i \in DOMAIN all |-> <<all[i]>>]) = <<Head(all)>>
  BY <1>4
<1>7. Head(Lambda!appendHeaderValue(Lambda!Event.schemes)) = <<Head(Head(kept))>>
  BY <1>4, <1>5, <1>6
<1> QED
  BY <1>7 DEF kept

LEMMA SeenStep ==
  Adapted /\ Lambda!RequestIsSeen /\ [Lambda!Next]_(Lambda!vars) => Lambda!RequestIsSeen'
<1> SUFFICES ASSUME Adapted, Lambda!RequestIsSeen, [Lambda!Next]_(Lambda!vars), stage' = "handler"
             PROVE  Lambda!RequestIsSeen'
  BY DEF Lambda!RequestIsSeen
<1>1. CASE Lambda!NewRequest
  <2>1. /\ req' = [cookies |-> Lambda!FlattenSeq(Lambda!addCookieHeader(Lambda!Event)),
                   schemes |-> Lambda!appendHeaderValue(Lambda!Event.schemes)]
        /\ front' = front /\ sent' = sent
    BY <1>1 DEF Lambda!NewRequest
  <2>2. /\ req'.cookies = Lambda!FlattenSeq(Lambda!addCookieHeader(Lambda!Event))
        /\ req'.schemes = Lambda!appendHeaderValue(Lambda!Event.schemes)
    BY <2>1
  <2>3. front \in Lambda!FrontEnd /\ sent \in Lambda!Requests
    BY DEF Adapted
  <2>4. /\ req'.cookies = Lambda!FlattenSeq(Left(front, sent.cookies))
        /\ Head(req'.schemes) = <<Head(Head(Left(front, sent.schemes)))>>
    BY <2>2, <2>3, CookiesArrive, SchemeArrives, Zenon
  <2>5. /\ req'.cookies = Lambda!FlattenSeq(Left(front', sent'.cookies))
        /\ Head(req'.schemes) = <<Head(Head(Left(front', sent'.schemes)))>>
    BY <2>1, <2>4, Zenon
  <2> QED
    BY <2>5, Zenon DEF Left, Lambda!RequestIsSeen, Lambda!FlattenSeq, Lambda!Last
<1>2. CASE UNCHANGED <<front, sent, stage, req>>
  BY <1>2, Zenon DEF Lambda!RequestIsSeen, Lambda!FlattenSeq, Lambda!Last
<1>3. Lambda!NewRequest \/ UNCHANGED <<front, sent, stage, req>>
  BY DEF Lambda!Next, Lambda!vars, Lambda!Return, Lambda!Panic, Lambda!Answer, Lambda!SetCookie,
         Lambda!AddHeader, Lambda!WriteHeader, Lambda!Write, Lambda!Recorded
<1> QED
  BY <1>1, <1>2, <1>3

(* What is rendered, read back. *)
LEMMA ReadBack ==
  ASSUME NEW single, NEW multi, NEW cookies, reply' = Lambda!Rendered(single, multi, cookies)
  PROVE  /\ reply'.code = rec.code /\ reply'.single = single /\ reply'.multi = multi
         /\ reply'.cookies = cookies /\ reply'.body = rec.body
         /\ reply'.base64 <=> Lambda!Contains(rec.body, "binary")
BY DEF Lambda!Rendered, Lambda!Contains

(* What the client gets of a reply, as a function of it. *)
Got(where, what) ==
  [code |-> what.code,
   header |-> [n \in Header |-> CASE where \in {"v2", "albSingle"} -> what.single[n]
                                  [] where = "rest" -> what.single[n] \o what.multi[n]
                                  [] where = "albMulti" -> what.multi[n]],
   cookies |-> CASE where = "v2" -> what.cookies
                 [] where \in {"rest", "albMulti"} -> what.multi["Set-Cookie"]
                 [] where = "albSingle" -> what.single["Set-Cookie"],
   body |-> IF what.base64 \/ ~Lambda!Contains(what.body, "binary") THEN what.body ELSE <<"garbled">>]

LEMMA ReceivedIs ==
  Lambda!Received = Got(front, reply) /\ Lambda!Received' = Got(front', reply')
BY Zenon DEF Got, Lambda!Received, Lambda!Contains

LEMMA AnswerArrives ==
  ASSUME Adapted, Lambda!splitsSetCookie, Lambda!Answer, stage' = "answered"
  PROVE  Lambda!Received' = Lambda!Meant'
<1> DEFINE all == Lambda!Headers(rec.header, rec.cookies)
<1>1. AsMeant /\ rec \in Lambda!Recorder /\ UNCHANGED <<front, sent, rec, deeds>> /\ front \in Lambda!FrontEnd
  BY DEF Adapted, Lambda!Answer
<1>2. Lambda!Meant' = Lambda!Meant
  BY <1>1, MeantStays
<1>3. Lambda!Meant = [code |-> rec.code, header |-> rec.header, cookies |-> rec.cookies, body |-> rec.body]
  <2>1. Lambda!Meant = [code |-> Lambda!Meant.code, header |-> Lambda!Meant.header,
                        cookies |-> Lambda!Meant.cookies, body |-> Lambda!Meant.body]
    BY DEF Lambda!Meant, Lambda!Bare
  <2> QED
    BY <1>1, <2>1 DEF AsMeant
<1>4. /\ \A n \in Header : n # "Set-Cookie" /\ n \in Lambda!Names /\ all[n] = rec.header[n]
      /\ all["Set-Cookie"] = rec.cookies /\ "Set-Cookie" \in Lambda!Names
  BY DEF Lambda!splitsSetCookie, Lambda!Names, Lambda!Headers
<1>5. rec.header = [n \in Header |-> rec.header[n]] /\ \A n \in Header : rec.header[n] \in Seq(Value)
  BY <1>1 DEF Lambda!Recorder
<1>6. ASSUME NEW header, NEW cookies, NEW single, NEW multi, NEW own,
             reply' = Lambda!Rendered(single, multi, own),
             \A n \in Header : header[n] = CASE front \in {"v2", "albSingle"} -> single[n]
                                             [] front = "rest" -> single[n] \o multi[n]
                                             [] front = "albMulti" -> multi[n],
             cookies = CASE front = "v2" -> own
                         [] front \in {"rest", "albMulti"} -> multi["Set-Cookie"]
                         [] front = "albSingle" -> single["Set-Cookie"],
             header = [n \in Header |-> header[n]]
      PROVE  Lambda!Received' = [code |-> rec.code, header |-> header, cookies |-> cookies, body |-> rec.body]
  <2>1. /\ reply'.code = rec.code /\ reply'.single = single /\ reply'.multi = multi
        /\ reply'.cookies = own /\ reply'.body = rec.body
        /\ reply'.base64 <=> Lambda!Contains(rec.body, "binary")
    BY <1>6, ReadBack
  <2>2. (IF reply'.base64 \/ ~Lambda!Contains(reply'.body, "binary") THEN reply'.body ELSE <<"garbled">>) = rec.body
    BY <2>1
  <2>3. [n \in Header |-> CASE front' \in {"v2", "albSingle"} -> reply'.single[n]
                             [] front' = "rest" -> reply'.single[n] \o reply'.multi[n]
                             [] front' = "albMulti" -> reply'.multi[n]] = header
    BY <1>1, <1>6, <2>1
  <2>4. (CASE front' = "v2" -> reply'.cookies
           [] front' \in {"rest", "albMulti"} -> reply'.multi["Set-Cookie"]
           [] front' = "albSingle" -> reply'.single["Set-Cookie"]) = cookies
    BY <1>1, <1>6, <2>1
  <2> QED
    BY <2>1, <2>2, <2>3, <2>4, ReceivedIs, Zenon DEF Got
<1>7. CASE front = "v2"
  <2>1. reply' = Lambda!Rendered(Lambda!Headers(rec.header, <<>>), Lambda!None, rec.cookies)
    BY <1>7 DEF Lambda!Answer, Lambda!V2Reply
  <2>2. \A n \in Header : rec.header[n] = Lambda!Headers(rec.header, <<>>)[n]
    BY <1>4 DEF Lambda!Headers
  <2> QED
    BY <1>2, <1>3, <1>5, <1>6, <1>7, <2>1, <2>2
<1>8. CASE front = "rest"
  <2> DEFINE single == [n \in Lambda!Names |-> IF n # "Set-Cookie" /\ Len(all[n]) = 1 THEN all[n] ELSE <<>>]
             multi == [n \in Lambda!Names |-> IF ~(n # "Set-Cookie" /\ Len(all[n]) = 1) THEN all[n] ELSE <<>>]
  <2>1. reply' = Lambda!Rendered(single, multi, <<>>)
    BY <1>8 DEF Lambda!Answer, Lambda!RESTReply, Lambda!Only
  <2>2. ASSUME NEW n \in Header PROVE rec.header[n] = single[n] \o multi[n]
    <3>1. rec.header[n] \in Seq(Value) /\ all[n] = rec.header[n] /\ n \in Lambda!Names /\ n # "Set-Cookie"
      BY <1>4, <1>5
    <3> HIDE DEF all
    <3>2. rec.header[n] = <<>> \o rec.header[n] /\ rec.header[n] = rec.header[n] \o <<>>
      BY <3>1
    <3>3. CASE Len(all[n]) = 1
      <4>1. single[n] = rec.header[n] /\ multi[n] = <<>>
        BY <3>1, <3>3
      <4> QED
        BY <3>2, <4>1
    <3>4. CASE Len(all[n]) # 1
      <4>1. single[n] = <<>> /\ multi[n] = rec.header[n]
        BY <3>1, <3>4
      <4> QED
        BY <3>2, <4>1
    <3> QED
      BY <3>3, <3>4
  <2>3. multi["Set-Cookie"] = rec.cookies
    BY <1>4
  <2> HIDE DEF single, multi, all
  <2>4. /\ reply'.code = rec.code /\ reply'.single = single /\ reply'.multi = multi
        /\ reply'.body = rec.body
        /\ reply'.base64 <=> Lambda!Contains(rec.body, "binary")
    BY <2>1, ReadBack
  <2>5. Got("rest", reply').code = rec.code /\ Got("rest", reply').cookies = rec.cookies
    BY <2>3, <2>4 DEF Got
  <2>6. Got("rest", reply').body = rec.body
    BY <2>4 DEF Got
  <2>7. Got("rest", reply').header = rec.header
    <3>1. Got("rest", reply').header = [n \in Header |-> single[n] \o multi[n]]
      BY <2>4 DEF Got
    <3> QED
      BY <1>5, <2>2, <3>1
  <2>8. Got("rest", reply') = [code |-> Got("rest", reply').code, header |-> Got("rest", reply').header,
                               cookies |-> Got("rest", reply').cookies, body |-> Got("rest", reply').body]
    BY DEF Got
  <2>9. front' = "rest"
    BY <1>1, <1>8
  <2> QED
    BY <1>2, <1>3, <2>5, <2>6, <2>7, <2>8, <2>9, ReceivedIs
<1>9. CASE front = "albMulti"
  <2>1. reply' = Lambda!Rendered(Lambda!None, all, <<>>)
    BY <1>9 DEF Lambda!Answer, Lambda!ALBMultiReply, Lambda!MultiValueHeaderMap
  <2> HIDE DEF all
  <2> QED
    BY <1>2, <1>3, <1>4, <1>5, <1>6, <1>9, <2>1
<1>10. CASE front = "albSingle"
  <2>1. reply' = Lambda!Rendered(all, Lambda!None, <<>>)
    BY <1>10 DEF Lambda!Answer, Lambda!ALBSingleReply
  <2> HIDE DEF all
  <2> QED
    BY <1>2, <1>3, <1>4, <1>5, <1>6, <1>10, <2>1
<1> QED
  BY <1>1, <1>7, <1>8, <1>9, <1>10 DEF Lambda!FrontEnd

LEMMA ArrivesStep ==
  Adapted /\ Lambda!splitsSetCookie /\ Lambda!ArrivesWholeOrNotAtAll /\ [Lambda!Next]_(Lambda!vars)
    => Lambda!ArrivesWholeOrNotAtAll'
<1> SUFFICES ASSUME Adapted, Lambda!splitsSetCookie, Lambda!ArrivesWholeOrNotAtAll, [Lambda!Next]_(Lambda!vars)
             PROVE  Lambda!ArrivesWholeOrNotAtAll'
  OBVIOUS
<1>1. CASE Lambda!Answer
  <2>1. stage' = "answered" => Lambda!Received' = Lambda!Meant'
    BY <1>1, AnswerArrives
  <2>2. stage' = "failed" => front' = "albSingle" /\ Lambda!Repeated(Lambda!Meant.header, Lambda!Meant.cookies)'
    <3> SUFFICES ASSUME stage' = "failed"
                 PROVE  front' = "albSingle" /\ Lambda!Repeated(Lambda!Meant.header, Lambda!Meant.cookies)'
      OBVIOUS
    <3>1. front = "albSingle" /\ Lambda!Repeated(rec.header, rec.cookies) /\ UNCHANGED <<front, sent, deeds>>
      BY <1>1 DEF Lambda!Answer
    <3>2. AsMeant
      BY <1>1 DEF Adapted, Lambda!Answer
    <3>3. Lambda!Meant' = Lambda!Meant
      BY <3>1, MeantStays
    <3>4. Lambda!Repeated(Lambda!Meant'.header, Lambda!Meant'.cookies)
      BY <3>1, <3>2, <3>3 DEF AsMeant
    <3> QED
      BY <3>1, <3>4 DEF Lambda!Repeated
  <2> QED
    BY <2>1, <2>2 DEF Lambda!ArrivesWholeOrNotAtAll
<1>2. CASE UNCHANGED Lambda!vars
  <2>1. UNCHANGED <<front, sent, stage, req, rec, reply, deeds>>
    BY <1>2 DEF Lambda!vars
  <2>2. Lambda!Meant' = Lambda!Meant
    BY <2>1, MeantStays
  <2>3. Lambda!Received' = Lambda!Received
    BY <2>1, ReceivedIs
  <2>4. Lambda!Repeated(Lambda!Meant.header, Lambda!Meant.cookies)'
          <=> Lambda!Repeated(Lambda!Meant.header, Lambda!Meant.cookies)
    BY <2>2 DEF Lambda!Repeated
  <2> QED
    BY <2>1, <2>2, <2>3, <2>4 DEF Lambda!ArrivesWholeOrNotAtAll
<1>3. CASE Lambda!Next /\ ~Lambda!Answer
  <2>1. stage' # "answered" /\ stage' # "failed"
    BY <1>3 DEF Lambda!Next, Lambda!NewRequest, Lambda!Return, Lambda!Panic, Lambda!SetCookie, Lambda!AddHeader,
                Lambda!WriteHeader, Lambda!Write, Lambda!Recorded, Lambda!Do
  <2> QED
    BY <2>1 DEF Lambda!ArrivesWholeOrNotAtAll
<1> QED
  BY <1>1, <1>2, <1>3

(* Whatever stands in front of the function, and whatever the handler does *)
(* and in which order: it sees every cookie and the scheme the client sent, *)
(* and the client gets all it meant or none of it (lambdahttp.go,          *)
(* request.go, response.go), for any cookies, headers and values and any   *)
(* number of deeds.                                                        *)
THEOREM FrontIsCrossed == Lambda!Spec => []CrossesTheFront
<1>1. Lambda!splitsSetCookie
  BY AdapterAssumption
<1>2. Lambda!Init => Lambda!RequestIsSeen /\ Lambda!ArrivesWholeOrNotAtAll
  BY DEF Lambda!Init, Lambda!RequestIsSeen, Lambda!ArrivesWholeOrNotAtAll
<1>3. Adapted /\ [Lambda!Next]_(Lambda!vars) => Adapted'
  BY <1>1, AdaptedStep
<1>4. /\ Adapted /\ Lambda!RequestIsSeen /\ Lambda!ArrivesWholeOrNotAtAll /\ [Lambda!Next]_(Lambda!vars)
      => Lambda!RequestIsSeen' /\ Lambda!ArrivesWholeOrNotAtAll'
  BY <1>1, SeenStep, ArrivesStep
<1>5. Lambda!RequestIsSeen /\ Lambda!ArrivesWholeOrNotAtAll => CrossesTheFront
  BY DEF CrossesTheFront
<1> QED
  BY <1>2, <1>3, <1>4, <1>5, AdaptedInit, PTL DEF Lambda!Spec
=============================================================================

----------------------- MODULE SingleUseTokensProofs ------------------------
(***************************************************************************)
(* Proofs about SingleUseTokens and OneTimeItems, for every set of users,  *)
(* hashes, keys, lifetimes and requests: type correctness, that each issue *)
(* of a token or an item is redeemed at most once, that both implement the *)
(* one-time secret of OneTime, what links promise (an old one never        *)
(* resolves, a live one always does), and that nobody is refused an item   *)
(* without a reason.                                                       *)
(*                                                                         *)
(* The argument: of the three things a step can do to the hash a profile   *)
(* holds (set it, take it for a caller that presented it, drop it), only   *)
(* the first counts an issue and only the second a redemption, and the     *)
(* second takes away what the first put there.                             *)
(***************************************************************************)
EXTENDS MCSingleUseTokens, TLAPS

-----------------------------------------------------------------------------
(* The operators the actions are made of. *)

(* Counted adds one to one entry of a two-dimensional count. *)
LEMMA CountedValue ==
  ASSUME NEW count \in [User -> [Hash -> Nat]], NEW u \in User, NEW h \in Hash
  PROVE  /\ Counted(count, u, h) \in [User -> [Hash -> Nat]]
         /\ \A v \in User, x \in Hash :
              Counted(count, u, h)[v][x] =
                IF v = u /\ x = h THEN count[v][x] + 1 ELSE count[v][x]
<1>1. count[u] \in [Hash -> Nat]
  OBVIOUS
<1>2. [count[u] EXCEPT ![h] = count[u][h] + 1] \in [Hash -> Nat]
  BY <1>1
<1>3. \A x \in Hash : [count[u] EXCEPT ![h] = count[u][h] + 1][x] =
                        IF x = h THEN count[u][x] + 1 ELSE count[u][x]
  BY <1>1
<1>4. Counted(count, u, h) = [count EXCEPT ![u] = [count[u] EXCEPT ![h] = count[u][h] + 1]]
  BY DEF Counted
<1> QED
  BY <1>2, <1>3, <1>4

(* Holding keeps the profiles well typed. *)
LEMMA HoldingSound ==
  ASSUME profile \in [User -> ProfileItem],
         NEW u \in User, NEW h \in Hash \cup {NoHash}, NEW exp \in Nat
  PROVE  Holding(u, h, exp) \in [User -> ProfileItem]
<1>1. profile[u] \in ProfileItem
  OBVIOUS
<1>2. [profile[u] EXCEPT !.hash = h, !.exp = exp] \in ProfileItem
  BY <1>1 DEF ProfileItem
<1>3. Holding(u, h, exp) = [profile EXCEPT ![u] = [profile[u] EXCEPT !.hash = h, !.exp = exp]]
  BY DEF Holding
<1> QED
  BY <1>2, <1>3

(* Become keeps the requests well typed. *)
LEMMA BecomeSound ==
  ASSUME req \in [Request -> RequestState],
         NEW r \in Request, NEW state \in RequestState, Become(r, state)
  PROVE  req' \in [Request -> RequestState]
BY DEF Become

(* So does Answer. *)
LEMMA AnswerSound ==
  ASSUME req \in [Request -> RequestState],
         NEW r \in Request, NEW a \in Answers, Answer(r, a)
  PROVE  req' \in [Request -> RequestState]
<1>1. req[r] \in RequestState
  OBVIOUS
<1>2. [req[r] EXCEPT !.pc = "done", !.answer = a] \in RequestState
  BY <1>1 DEF RequestState, Steps, Answers
<1>3. Become(r, [req[r] EXCEPT !.pc = "done", !.answer = a])
  BY DEF Answer
<1> QED
  BY <1>2, <1>3, BecomeSound

-----------------------------------------------------------------------------
(* Type correctness.  A request past its lookup knows its user and hash.   *)

Located ==
  \A r \in Request :
    /\ req[r].pc \in {"pointer", "consume", "mutate", "clear"} => req[r].hash \in Hash
    /\ req[r].pc \in {"consume", "mutate", "clear"} => req[r].user \in User

TypeInv == TypeOK /\ Located

LEMMA TypeInit == Init => TypeInv
BY FamilyAssumption, BoundsAssumption
   DEF Init, TypeInv, TypeOK, Located, ProfileItem, PointerItem, NoPointer,
       RequestState, Steps, Answers

(* Types: one step per action, under it what the action assigns. *)
LEMMA TypeStep == TypeInv /\ [Next]_vars => TypeInv'
<1> SUFFICES ASSUME TypeInv, [Next]_vars PROVE TypeInv'
  OBVIOUS
<1>a. /\ profile \in [User -> ProfileItem]
      /\ pointer \in [Hash -> PointerItem]
      /\ now \in Nat
      /\ req \in [Request -> RequestState]
      /\ sweeping \subseteq User \X (Hash \cup {NoHash})
      /\ issued \in [User -> [Hash -> Nat]]
      /\ redeemed \in [User -> [Hash -> Nat]]
      /\ latest \in [User -> Hash \cup {NoHash}]
      /\ Located
  BY DEF TypeInv, TypeOK
<1>b. NoHash \in Hash \cup {NoHash} /\ 0 \in Nat /\ now + Life \in Nat /\ now + 1 \in Nat
  BY <1>a, BoundsAssumption
(* A step that changes one request and nothing typed otherwise. *)
<1>c. ASSUME NEW r \in Request, NEW a \in Answers, Answer(r, a)
      PROVE  req' \in [Request -> RequestState] /\ Located'
  <2>1. req' \in [Request -> RequestState]
    BY <1>a, <1>c, AnswerSound
  <2>2. req[r] \in RequestState
    BY <1>a
  <2>3. req' = [req EXCEPT ![r] = [req[r] EXCEPT !.pc = "done", !.answer = a]]
    BY <1>c DEF Answer, Become
  <2>4. [req[r] EXCEPT !.pc = "done", !.answer = a].pc = "done"
    BY <2>2 DEF RequestState
  <2> QED
    BY <1>a, <2>1, <2>3, <2>4 DEF Located
<1>1. ASSUME NEW u \in User, NEW h \in Hash, issueSingleUseToken(u, h) PROVE TypeInv'
  <2>1. profile' \in [User -> ProfileItem]
    BY <1>1, <1>a, <1>b, HoldingSound DEF issueSingleUseToken
  <2>2. issued' \in [User -> [Hash -> Nat]]
    BY <1>1, <1>a, CountedValue DEF issueSingleUseToken
  <2>3. pointerTo(u, now + Life) \in PointerItem
    BY <1>b DEF pointerTo, PointerItem
  <2>4. pointer' \in [Hash -> PointerItem]
    BY <1>1, <1>a, <2>3 DEF issueSingleUseToken
  <2>5. latest' \in [User -> Hash \cup {NoHash}]
    BY <1>1, <1>a DEF issueSingleUseToken
  <2> QED
    BY <1>1, <1>a, <2>1, <2>2, <2>4, <2>5 DEF issueSingleUseToken, TypeInv, TypeOK, Located
<1>2. ASSUME NEW u \in User, NEW h \in Hash, NEW r \in Request, Present(r, u, h)
               PROVE TypeInv'
  <2> DEFINE state == [pc |-> IF HasPointer THEN "pointer" ELSE "consume",
                       user |-> IF HasPointer THEN NoUser ELSE u,
                       hash |-> h, answer |-> "none",
                       age |-> IF profile[u].hash = h THEN "current" ELSE "superseded"]
  <2>1. state \in RequestState
    BY DEF RequestState, Steps, Answers
  <2>2. state.hash = h /\ (state.pc # "pointer" => state.user = u)
    OBVIOUS
  <2>3. req' = [req EXCEPT ![r] = state]
    BY <1>2 DEF Present, Become
  <2> HIDE DEF state
  <2>4. state.pc \in {"consume", "mutate", "clear"} => state.user \in User
    BY <2>2
  <2>5. req' \in [Request -> RequestState] /\ Located'
    BY <1>a, <2>1, <2>2, <2>3, <2>4 DEF Located
  <2> QED
    BY <1>2, <1>a, <2>5 DEF Present, TypeInv, TypeOK
<1>3. ASSUME NEW r \in Request, ReadPointer(r) PROVE TypeInv'
  <2> DEFINE u == pointer[req[r].hash].user
             state == [req[r] EXCEPT !.pc = "consume", !.user = u]
  <2>1. req[r] \in RequestState /\ req[r].hash \in Hash
    BY <1>a, <1>3 DEF ReadPointer, Located
  <2>2. pointer[req[r].hash] \in PointerItem
    BY <1>a, <2>1
  <2>3. CASE u = NoUser
    <3>1. Answer(r, "invalid")
      BY <1>3, <2>3 DEF ReadPointer
    <3> QED
      BY <1>c, <1>3, <1>a, <3>1 DEF ReadPointer, TypeInv, TypeOK, Answers
  <2>4. CASE u # NoUser
    <3>1. u \in User
      BY <2>2, <2>4 DEF PointerItem
    <3>2. state \in RequestState /\ state.hash \in Hash /\ state.user \in User
      BY <2>1, <3>1 DEF RequestState, Steps
    <3>3. req' = [req EXCEPT ![r] = state]
      BY <1>3, <2>4 DEF ReadPointer, Become
    <3> HIDE DEF state
    <3>4. req' \in [Request -> RequestState] /\ Located'
      BY <1>a, <3>2, <3>3 DEF Located
    <3> QED
      BY <1>3, <1>a, <3>4 DEF ReadPointer, TypeInv, TypeOK
  <2> QED
    BY <2>3, <2>4
(* The winning lookup, common to both forms of it. *)
<1>d. ASSUME NEW r \in Request, req[r].pc = "consume",
             Become(r, [req[r] EXCEPT !.pc = "mutate", !.answer = "won"])
      PROVE  req' \in [Request -> RequestState] /\ Located'
  <2> DEFINE state == [req[r] EXCEPT !.pc = "mutate", !.answer = "won"]
  <2>1. req[r] \in RequestState /\ req[r].hash \in Hash /\ req[r].user \in User
    BY <1>a, <1>d DEF Located
  <2>2. state \in RequestState /\ state.hash \in Hash /\ state.user \in User
    BY <2>1 DEF RequestState, Steps, Answers
  <2>3. req' = [req EXCEPT ![r] = state]
    BY <1>d DEF Become
  <2> HIDE DEF state
  <2> QED
    BY <1>a, <2>2, <2>3 DEF Located
<1>4. ASSUME NEW r \in Request, consumeSingleUseToken(r) PROVE TypeInv'
  <2>1. req[r].hash \in Hash /\ req[r].user \in User
    BY <1>a, <1>4 DEF consumeSingleUseToken, Located
  <2>2. CASE Redeemable(req[r].user, req[r].hash)
    <3>1. profile' = Holding(req[r].user, NoHash, 0) /\ Won(r)
      BY <1>4, <2>2 DEF consumeSingleUseToken
    <3>2. profile' \in [User -> ProfileItem]
      BY <1>a, <1>b, <2>1, <3>1, HoldingSound
    <3>3. redeemed' \in [User -> [Hash -> Nat]]
      BY <1>a, <2>1, <3>1, CountedValue DEF Won
    <3>4. req' \in [Request -> RequestState] /\ Located'
      BY <1>d, <1>4, <3>1 DEF Won, consumeSingleUseToken
    <3> QED
      BY <1>4, <1>a, <3>1, <3>2, <3>3, <3>4 DEF consumeSingleUseToken, TypeInv, TypeOK
  <2>3. CASE ~Redeemable(req[r].user, req[r].hash)
    <3>1. Answer(r, "invalid")
      BY <1>4, <2>3 DEF consumeSingleUseToken
    <3> QED
      BY <1>c, <1>4, <1>a, <2>3, <3>1 DEF consumeSingleUseToken, TypeInv, TypeOK, Answers
  <2> QED
    BY <2>2, <2>3
<1>5. ASSUME NEW r \in Request, userByTokenNonAtomic(r) PROVE TypeInv'
  <2>1. CASE Matches(req[r].user, req[r].hash)
    <3>1. /\ req[r].pc = "consume"
          /\ Become(r, [req[r] EXCEPT !.pc = "mutate", !.answer = "won"])
      BY <1>5, <2>1 DEF userByTokenNonAtomic
    <3>2. req' \in [Request -> RequestState] /\ Located'
      BY <1>d, <3>1
    <3> QED
      BY <1>5, <1>a, <3>2 DEF userByTokenNonAtomic, TypeInv, TypeOK
  <2>2. CASE ~Matches(req[r].user, req[r].hash)
    BY <1>c, <1>5, <1>a, <2>2 DEF userByTokenNonAtomic, TypeInv, TypeOK, Answers
  <2> QED
    BY <2>1, <2>2
<1>6. ASSUME NEW r \in Request, Mutate(r) PROVE TypeInv'
  <2> DEFINE state == [req[r] EXCEPT !.pc = "clear"]
  <2>1. req[r] \in RequestState /\ req[r].hash \in Hash /\ req[r].user \in User
    BY <1>a, <1>6 DEF Mutate, Located
  <2>2. CASE Exists(req[r].user)
    <3>1. state \in RequestState /\ state.hash \in Hash /\ state.user \in User
      BY <2>1 DEF RequestState, Steps
    <3>2. req' = [req EXCEPT ![r] = state]
      BY <1>6, <2>2 DEF Mutate, Become
    <3> HIDE DEF state
    <3>3. req' \in [Request -> RequestState] /\ Located'
      BY <1>a, <3>1, <3>2 DEF Located
    <3> QED
      BY <1>6, <1>a, <3>3 DEF Mutate, TypeInv, TypeOK
  <2>3. CASE ~Exists(req[r].user)
    BY <1>c, <1>6, <1>a, <2>3 DEF Mutate, TypeInv, TypeOK, Answers
  <2> QED
    BY <2>2, <2>3
<1>7. ASSUME NEW r \in Request, clearSingleUseToken(r) PROVE TypeInv'
  <2>1. req[r] \in RequestState /\ req[r].user \in User
    BY <1>a, <1>7 DEF clearSingleUseToken, Located
  <2>2. req[r].answer \in Answers /\ "notFound" \in Answers
    BY <2>1 DEF RequestState, Answers
  <2>3. profile' \in [User -> ProfileItem]
    <3>1. Holding(req[r].user, NoHash, 0) \in [User -> ProfileItem]
      BY <1>a, <1>b, <2>1, HoldingSound
    <3> QED
      BY <1>7, <1>a, <3>1 DEF clearSingleUseToken
  <2>4. Answer(r, req[r].answer) \/ Answer(r, "notFound")
    BY <1>7 DEF clearSingleUseToken
  <2>5. req' \in [Request -> RequestState] /\ Located'
    BY <1>c, <2>2, <2>4
  <2> QED
    BY <1>7, <1>a, <2>3, <2>5 DEF clearSingleUseToken, TypeInv, TypeOK
<1>13. ASSUME NEW r \in Request, consumeUnheard(r) PROVE TypeInv'
  <2>1. req[r].user \in User
    BY <1>a, <1>13 DEF consumeUnheard, Located
  <2>2. Holding(req[r].user, NoHash, 0) \in [User -> ProfileItem]
    BY <1>a, <1>b, <2>1, HoldingSound
  <2> QED
    BY <1>13, <1>a, <2>2 DEF consumeUnheard, TypeInv, TypeOK, Located
<1>8. ASSUME NEW r \in Request, Abandon(r) PROVE TypeInv'
  <2>1. req[r].answer \in Answers
    BY <1>a DEF RequestState
  <2> QED
    BY <1>8, <1>a, <1>c, <2>1 DEF Abandon, TypeInv, TypeOK
<1>9. ASSUME NEW u \in User, DeleteUser(u) \/ SweepProfile(u) PROVE TypeInv'
  <2>1. profile[u] \in ProfileItem /\ NoProfile \in ProfileItem
    BY <1>a, <1>b DEF ProfileItem, NoProfile
  <2>2. profile[u].hash \in Hash \cup {NoHash}
    BY <2>1 DEF ProfileItem
  <2>3. CASE DeleteUser(u)
    <3>1. sweeping' \subseteq User \X (Hash \cup {NoHash})
      BY <2>3, <1>a, <2>2 DEF DeleteUser
    <3> QED
      BY <2>3, <1>a, <3>1 DEF DeleteUser, TypeInv, TypeOK, Located
  <2>4. CASE SweepProfile(u)
    <3>1. profile' \in [User -> ProfileItem]
      BY <2>4, <1>a, <2>1 DEF SweepProfile
    <3> QED
      BY <2>4, <1>a, <3>1 DEF SweepProfile, TypeInv, TypeOK, Located
  <2> QED
    BY <1>9, <2>3, <2>4
<1>10. ASSUME NEW h \in Hash, SweepPointer(h) \/ ReapPointer(h) PROVE TypeInv'
  <2>1. NoPointer \in PointerItem
    BY DEF NoPointer, PointerItem
  <2> QED
    BY <1>10, <1>a, <2>1 DEF SweepPointer, ReapPointer, TypeInv, TypeOK, Located
<1>11. ASSUME Tick PROVE TypeInv'
  BY <1>11, <1>a, <1>b DEF Tick, TypeInv, TypeOK, Located
<1>12. ASSUME UNCHANGED vars PROVE TypeInv'
  BY <1>12, <1>a DEF vars, TypeInv, TypeOK, Located
<1> QED
  BY <1>1, <1>2, <1>3, <1>4, <1>5, <1>6, <1>7, <1>8, <1>9, <1>10, <1>11, <1>12,
     <1>13 DEF Next

LEMMA TypeInvariant == Spec => []TypeInv
BY TypeInit, TypeStep, PTL DEF Spec

(* Every reachable state is well typed (tokens.go's items and requests). *)
THEOREM TypeCorrect == Spec => []TypeOK
<1>1. TypeInv => TypeOK
  BY DEF TypeInv
<1> QED
  BY <1>1, TypeInvariant, PTL

-----------------------------------------------------------------------------
(* The three things a step does to what a profile holds. *)

Outstanding == [u \in User |-> profile[u].hash]

Replace(u, h) ==
  /\ Outstanding' = [Outstanding EXCEPT ![u] = h]
  /\ issued' = Counted(issued, u, h)
  /\ redeemed' = redeemed

Take(u, h) ==
  /\ Outstanding[u] = h
  /\ Outstanding' = [Outstanding EXCEPT ![u] = NoHash]
  /\ redeemed' = Counted(redeemed, u, h)
  /\ issued' = issued

Drop(u) ==
  /\ Outstanding' = [Outstanding EXCEPT ![u] = NoHash]
  /\ issued' = issued
  /\ redeemed' = redeemed

Keep ==
  /\ Outstanding' = Outstanding
  /\ issued' = issued
  /\ redeemed' = redeemed

(* Holding, seen through Outstanding. *)
LEMMA HoldingOutstanding ==
  ASSUME TypeOK, NEW u \in User, NEW h \in Hash \cup {NoHash}, NEW exp \in Nat,
         profile' = Holding(u, h, exp)
  PROVE  Outstanding' = [Outstanding EXCEPT ![u] = h]
<1> DEFINE new == [profile[u] EXCEPT !.hash = h, !.exp = exp]
<1>1. profile \in [User -> ProfileItem]
  BY DEF TypeOK
<1>2. profile[u] \in ProfileItem
  BY <1>1
<1>3. new.hash = h
  BY <1>2 DEF ProfileItem
<1>4. profile' = [profile EXCEPT ![u] = new]
  BY DEF Holding
<1> HIDE DEF new
<1>5. \A v \in User : profile'[v].hash = IF v = u THEN h ELSE profile[v].hash
  BY <1>1, <1>3, <1>4
<1>6. [v \in User |-> profile'[v].hash] =
        [[v \in User |-> profile[v].hash] EXCEPT ![u] = h]
  BY <1>5
<1> QED
  BY <1>6 DEF Outstanding

(* Every step is one of the four. *)
LEMMA StepKinds ==
  ASSUME TypeInv, [Next]_vars
  PROVE  \/ \E u \in User, h \in Hash : Replace(u, h) \/ Take(u, h)
         \/ \E u \in User : Drop(u)
         \/ Keep
<1> DEFINE Goal == \/ \E u \in User, h \in Hash : Replace(u, h) \/ Take(u, h)
                   \/ \E u \in User : Drop(u)
                   \/ Keep
<1>a. TypeOK /\ Located /\ now + Life \in Nat /\ 0 \in Nat
  BY BoundsAssumption DEF TypeInv, TypeOK
<1>1. ASSUME NEW u \in User, NEW h \in Hash, issueSingleUseToken(u, h) PROVE Goal
  <2>1. Replace(u, h)
    BY <1>1, <1>a, HoldingOutstanding DEF issueSingleUseToken, Replace
  <2> QED
    BY <2>1
<1>2. ASSUME NEW r \in Request, consumeSingleUseToken(r) PROVE Goal
  <2>1. req[r].hash \in Hash /\ req[r].user \in User
    BY <1>a, <1>2 DEF consumeSingleUseToken, Located
  <2>2. CASE Redeemable(req[r].user, req[r].hash)
    <3>1. Take(req[r].user, req[r].hash)
      BY <1>2, <1>a, <2>1, <2>2, HoldingOutstanding
         DEF consumeSingleUseToken, Won, Redeemable, Take, Outstanding
    <3> QED
      BY <2>1, <3>1
  <2>3. CASE ~Redeemable(req[r].user, req[r].hash)
    BY <1>2, <2>3 DEF consumeSingleUseToken, Keep, Outstanding
  <2> QED
    BY <2>2, <2>3
<1>3. ASSUME NEW r \in Request, clearSingleUseToken(r) PROVE Goal
  <2>1. req[r].user \in User
    BY <1>a, <1>3 DEF clearSingleUseToken, Located
  <2>2. CASE Exists(req[r].user)
    <3>1. Drop(req[r].user)
      BY <1>3, <1>a, <2>1, <2>2, HoldingOutstanding DEF clearSingleUseToken, Drop
    <3> QED
      BY <2>1, <3>1
  <2>3. CASE ~Exists(req[r].user)
    BY <1>3, <2>3 DEF clearSingleUseToken, Keep, Outstanding
  <2> QED
    BY <2>2, <2>3
<1>7. ASSUME NEW r \in Request, consumeUnheard(r) PROVE Goal
  <2>1. req[r].user \in User
    BY <1>a, <1>7 DEF consumeUnheard, Located
  <2>2. Drop(req[r].user)
    BY <1>7, <1>a, <2>1, HoldingOutstanding DEF consumeUnheard, Drop
  <2> QED
    BY <2>1, <2>2
<1>4. ASSUME NEW u \in User, SweepProfile(u) PROVE Goal
  <2>1. Outstanding' = [Outstanding EXCEPT ![u] = NoHash]
    BY <1>4, <1>a DEF SweepProfile, Outstanding, TypeOK, NoProfile
  <2>2. Drop(u)
    BY <1>4, <2>1 DEF SweepProfile, Drop
  <2> QED
    BY <2>2
<1>5. ASSUME \/ \E u \in User, h \in Hash, r \in Request : Present(r, u, h)
             \/ \E r \in Request : \/ ReadPointer(r) \/ userByTokenNonAtomic(r)
                                  \/ Mutate(r) \/ Abandon(r)
             \/ \E u \in User : DeleteUser(u)
             \/ \E h \in Hash : SweepPointer(h) \/ ReapPointer(h)
             \/ Tick
             \/ UNCHANGED vars
      PROVE  Goal
  <2>1. profile' = profile /\ issued' = issued /\ redeemed' = redeemed
    BY <1>5 DEF Present, ReadPointer, userByTokenNonAtomic, Mutate, Abandon, DeleteUser,
                  SweepPointer,
                ReapPointer, Tick, vars
  <2> QED
    BY <2>1 DEF Keep, Outstanding
<1> HIDE DEF Goal
<1>6. Goal
  BY <1>1, <1>2, <1>3, <1>4, <1>5, <1>7 DEF Next
<1> QED
  BY <1>6 DEF Goal

-----------------------------------------------------------------------------
(* What is still outstanding has not been redeemed. *)
Accounted ==
  \A u \in User, h \in Hash :
    redeemed[u][h] + (IF Outstanding[u] = h THEN 1 ELSE 0) <= issued[u][h]

LEMMA AccountedInit == Init => Accounted
BY FamilyAssumption DEF Init, Accounted, Outstanding

LEMMA AccountedStep ==
  ASSUME TypeInv, Accounted, [Next]_vars
  PROVE  Accounted'
<1>a. /\ issued \in [User -> [Hash -> Nat]]
      /\ redeemed \in [User -> [Hash -> Nat]]
  BY DEF TypeInv, TypeOK
<1>b. \A v \in User, x \in Hash : issued[v][x] \in Nat /\ redeemed[v][x] \in Nat
  BY <1>a
<1>c. Outstanding = [v \in User |-> Outstanding[v]]
  BY DEF Outstanding
<1>1. ASSUME NEW u \in User, NEW h \in Hash, Replace(u, h) PROVE Accounted'
  <2>1. \A v \in User, x \in Hash :
          issued'[v][x] = IF v = u /\ x = h THEN issued[v][x] + 1 ELSE issued[v][x]
    <3>1. issued' = Counted(issued, u, h)
      BY <1>1 DEF Replace
    <3>2. \A v \in User, x \in Hash :
            Counted(issued, u, h)[v][x] =
              IF v = u /\ x = h THEN issued[v][x] + 1 ELSE issued[v][x]
      <4>1. issued \in [User -> [Hash -> Nat]]
        BY <1>a
      <4> QED
        BY <4>1, CountedValue
    <3> QED
      BY <3>1, <3>2
  <2>2. \A v \in User : Outstanding'[v] = IF v = u THEN h ELSE Outstanding[v]
    BY <1>1, <1>c DEF Replace
  <2>3. redeemed' = redeemed
    BY <1>1 DEF Replace
  <2> QED
    BY <1>b, <2>1, <2>2, <2>3 DEF Accounted
<1>2. ASSUME NEW u \in User, NEW h \in Hash, Take(u, h) PROVE Accounted'
  <2>1. \A v \in User, x \in Hash :
          redeemed'[v][x] = IF v = u /\ x = h THEN redeemed[v][x] + 1 ELSE redeemed[v][x]
    <3>1. redeemed' = Counted(redeemed, u, h)
      BY <1>2 DEF Take
    <3>2. \A v \in User, x \in Hash :
            Counted(redeemed, u, h)[v][x] =
              IF v = u /\ x = h THEN redeemed[v][x] + 1 ELSE redeemed[v][x]
      <4>1. redeemed \in [User -> [Hash -> Nat]]
        BY <1>a
      <4> QED
        BY <4>1, CountedValue
    <3> QED
      BY <3>1, <3>2
  <2>2. \A v \in User : Outstanding'[v] = IF v = u THEN NoHash ELSE Outstanding[v]
    BY <1>2, <1>c DEF Take
  <2>3. issued' = issued /\ Outstanding[u] = h
    BY <1>2 DEF Take
  <2> QED
    BY <1>b, <2>1, <2>2, <2>3, FamilyAssumption DEF Accounted
<1>3. ASSUME NEW u \in User, Drop(u) PROVE Accounted'
  <2>1. \A v \in User : Outstanding'[v] = IF v = u THEN NoHash ELSE Outstanding[v]
    BY <1>3, <1>c DEF Drop
  <2>2. issued' = issued /\ redeemed' = redeemed
    BY <1>3 DEF Drop
  <2> QED
    BY <1>b, <2>1, <2>2, FamilyAssumption DEF Accounted
<1>4. ASSUME Keep PROVE Accounted'
  BY <1>4 DEF Keep, Accounted
<1> QED
  BY <1>1, <1>2, <1>3, <1>4, StepKinds

(* Consuming lookups answer each issue of a token with its user at most    *)
(* once, however many run at once (consumeSingleUseToken).                 *)
THEOREM TokenIsSingleUse == Spec => []RedeemedAtMostOnce
<1>1. TypeInv /\ Accounted => RedeemedAtMostOnce
  <2> SUFFICES ASSUME TypeInv, Accounted, NEW u \in User, NEW h \in Hash
               PROVE  redeemed[u][h] <= issued[u][h]
    BY DEF RedeemedAtMostOnce
  <2>1. redeemed[u][h] \in Nat /\ issued[u][h] \in Nat
    BY DEF TypeInv, TypeOK
  <2> QED
    BY <2>1 DEF Accounted
<1>2. TypeInv /\ Accounted /\ [Next]_vars => Accounted'
  BY AccountedStep
<1> QED
  BY <1>1, <1>2, AccountedInit, TypeInvariant, PTL DEF Spec

(* The family implements the one-time secret of OneTime: initial states    *)
(* map to initial states and each step to a step or a stutter.             *)
THEOREM Refinement == Spec => ImplementsOneTime
<1>1. Init => Tokens!Init
  BY DEF Init, Tokens!Init
<1>2. TypeInv /\ [Next]_vars => [Tokens!Next]_Tokens!vars
  <2> SUFFICES ASSUME TypeInv, [Next]_vars PROVE [Tokens!Next]_Tokens!vars
    OBVIOUS
  <2>1. ASSUME NEW u \in User, NEW h \in Hash, Replace(u, h) PROVE Tokens!Next
    <3>1. Tokens!Issue(u, h)
      BY <2>1 DEF Replace, Outstanding, Counted, Tokens!Issue
    <3> QED
      BY <3>1 DEF Tokens!Next
  <2>2. ASSUME NEW u \in User, NEW h \in Hash, Take(u, h) PROVE Tokens!Next
    <3>1. Tokens!Redeem(u, h)
      BY <2>2 DEF Take, Outstanding, Counted, Tokens!Redeem
    <3> QED
      BY <3>1 DEF Tokens!Next
  <2>3. ASSUME NEW u \in User, Drop(u) PROVE [Tokens!Next]_Tokens!vars
    <3>1. CASE Outstanding[u] = NoHash
      <4>1. Outstanding' = Outstanding
        BY <2>3, <3>1 DEF Drop, Outstanding
      <4> QED
        BY <2>3, <4>1 DEF Drop, Outstanding, Tokens!vars
    <3>2. CASE Outstanding[u] # NoHash
      <4>1. Tokens!Void(u)
        BY <2>3, <3>2 DEF Drop, Outstanding, Tokens!Void
      <4> QED
        BY <4>1 DEF Tokens!Next
    <3> QED
      BY <3>1, <3>2
  <2>4. ASSUME Keep PROVE UNCHANGED Tokens!vars
    BY <2>4 DEF Keep, Outstanding, Tokens!vars
  <2> QED
    BY <2>1, <2>2, <2>3, <2>4, StepKinds
<1> QED
  BY <1>1, <1>2, TypeInvariant, PTL DEF Spec, ImplementsOneTime, Tokens!Spec

-----------------------------------------------------------------------------
(* Links.  A link's token is issued once, to one user, so that what was    *)
(* replaced or spent stays so; and pointer and profile are dated from one  *)
(* expiry.                                                                 *)

OneOwner ==
  \A u, v \in User, h \in Hash : issued[u][h] > 0 /\ issued[v][h] > 0 => u = v

(* What a profile holds, and what a DeleteUser sets out to delete, was     *)
(* issued to that user.                                                    *)
HeldIsIssued == \A u \in User, h \in Hash : profile[u].hash = h => issued[u][h] > 0

SweptIsIssued == \A u \in User, h \in Hash : <<u, h>> \in sweeping => issued[u][h] > 0

(* A live token has its pointer, as long lived as itself.                  *)
LiveIsFound ==
  \A u \in User, h \in Hash :
    profile[u].hash = h /\ profile[u].exp > now /\ <<u, h>> \notin sweeping
      => pointer[h] = pointerTo(u, profile[u].exp)

(* What was superseded when it was opened is in no profile any more.       *)
StaleStays ==
  \A r \in Request :
    req[r].age = "superseded"
      => /\ req[r].hash \in Hash /\ req[r].answer # "won"
         /\ \E u \in User : issued[u][req[r].hash] > 0
         /\ \A u \in User : profile[u].hash # req[r].hash

LinkInv == OneOwner /\ HeldIsIssued /\ SweptIsIssued /\ LiveIsFound /\ StaleStays

LEMMA LinkInit == Init => LinkInv
BY FamilyAssumption
   DEF Init, LinkInv, OneOwner, HeldIsIssued, SweptIsIssued, LiveIsFound, StaleStays

(* What a request does in a step: nothing; or it opens a link; or it goes  *)
(* on with the one it has, and wins only with a token that is held.        *)
Opens(r) ==
  \E u \in User, h \in Hash :
    /\ issued[u][h] > 0
    /\ req'[r].hash = h /\ req'[r].answer = "none"
    /\ req'[r].age = "superseded" => profile[u].hash # h

GoesOn(r) ==
  /\ req'[r].hash = req[r].hash /\ req'[r].age = req[r].age
  /\ req'[r].answer = "won"
       => req[r].answer = "won" \/ \E u \in User : profile[u].hash = req[r].hash

(* An answer ends a request as it is. *)
LEMMA AnswerGoesOn ==
  ASSUME TypeInv, NEW s \in Request, NEW a \in Answers, Answer(s, a),
         a = "won" => req[s].answer = "won"
  PROVE  \A r \in Request : GoesOn(r)
<1> DEFINE state == [req[s] EXCEPT !.pc = "done", !.answer = a]
<1>1. req \in [Request -> RequestState] /\ req[s] \in RequestState
  BY DEF TypeInv, TypeOK
<1>2. state.hash = req[s].hash /\ state.age = req[s].age /\ state.answer = a
  BY <1>1 DEF RequestState
<1>3. req' = [req EXCEPT ![s] = state]
  BY DEF Answer, Become
<1> HIDE DEF state
<1> QED
  BY <1>1, <1>2, <1>3 DEF GoesOn

(* A lookup wins with a token that is held. *)
LEMMA WinGoesOn ==
  ASSUME TypeInv, NEW s \in Request,
         Become(s, [req[s] EXCEPT !.pc = "mutate", !.answer = "won"]),
         req[s].user \in User, profile[req[s].user].hash = req[s].hash
  PROVE  \A r \in Request : GoesOn(r)
<1> DEFINE state == [req[s] EXCEPT !.pc = "mutate", !.answer = "won"]
<1>1. req \in [Request -> RequestState] /\ req[s] \in RequestState
  BY DEF TypeInv, TypeOK
<1>2. state.hash = req[s].hash /\ state.age = req[s].age
  BY <1>1 DEF RequestState
<1>3. req' = [req EXCEPT ![s] = state]
  BY DEF Become
<1> HIDE DEF state
<1> QED
  BY <1>1, <1>2, <1>3 DEF GoesOn

LEMMA RequestMoves ==
  ASSUME HasPointer, TypeInv, [Next]_vars, NEW r \in Request
  PROVE  Opens(r) \/ GoesOn(r)
<1>a. req \in [Request -> RequestState] /\ Located
  BY DEF TypeInv, TypeOK
<1>b. \A s \in Request : req[s].answer \in Answers
  BY <1>a DEF RequestState
<1>1. ASSUME NEW u \in User, NEW h \in Hash, NEW s \in Request, Present(s, u, h)
      PROVE  Opens(r) \/ GoesOn(r)
  <2> DEFINE state == [pc |-> IF HasPointer THEN "pointer" ELSE "consume",
                       user |-> IF HasPointer THEN NoUser ELSE u,
                       hash |-> h, answer |-> "none",
                       age |-> IF profile[u].hash = h THEN "current" ELSE "superseded"]
  <2>1. /\ state.hash = h /\ state.answer = "none"
        /\ state.age = "superseded" => profile[u].hash # h
    OBVIOUS
  <2>2. req' = [req EXCEPT ![s] = state] /\ issued[u][h] > 0
    BY <1>1 DEF Present, Become
  <2> HIDE DEF state
  <2>3. CASE r = s
    BY <1>a, <2>1, <2>2, <2>3 DEF Opens
  <2>4. CASE r # s
    BY <1>a, <2>2, <2>4 DEF GoesOn
  <2> QED
    BY <2>3, <2>4
<1>2. ASSUME NEW s \in Request, ReadPointer(s) PROVE GoesOn(r)
  <2> DEFINE u == pointer[req[s].hash].user
             state == [req[s] EXCEPT !.pc = "consume", !.user = u]
  <2>1. CASE u = NoUser
    BY <1>2, <2>1, AnswerGoesOn DEF ReadPointer, Answers
  <2>2. CASE u # NoUser
    <3>1. /\ state.hash = req[s].hash /\ state.age = req[s].age
          /\ state.answer = req[s].answer
      BY <1>a DEF RequestState
    <3>2. req' = [req EXCEPT ![s] = state]
      BY <1>2, <2>2 DEF ReadPointer, Become
    <3> HIDE DEF state
    <3> QED
      BY <1>a, <3>1, <3>2 DEF GoesOn
  <2> QED
    BY <2>1, <2>2
<1>3. ASSUME NEW s \in Request, consumeSingleUseToken(s) PROVE GoesOn(r)
  <2>1. req[s].user \in User
    BY <1>a, <1>3 DEF consumeSingleUseToken, Located
  <2>2. CASE Redeemable(req[s].user, req[s].hash)
    <3>1. Become(s, [req[s] EXCEPT !.pc = "mutate", !.answer = "won"])
      BY <1>3, <2>2 DEF consumeSingleUseToken, Won
    <3> QED
      BY <2>1, <2>2, <3>1, WinGoesOn DEF Redeemable
  <2>3. CASE ~Redeemable(req[s].user, req[s].hash)
    <3>1. Answer(s, "invalid")
      BY <1>3, <2>3 DEF consumeSingleUseToken
    <3> QED
      BY <3>1, AnswerGoesOn DEF Answers
  <2> QED
    BY <2>2, <2>3
<1>4. ASSUME NEW s \in Request, userByTokenNonAtomic(s) PROVE GoesOn(r)
  <2>1. req[s].user \in User
    BY <1>a, <1>4 DEF userByTokenNonAtomic, Located
  <2>2. CASE Matches(req[s].user, req[s].hash)
    <3>1. Become(s, [req[s] EXCEPT !.pc = "mutate", !.answer = "won"])
      BY <1>4, <2>2 DEF userByTokenNonAtomic
    <3> QED
      BY <2>1, <2>2, <3>1, WinGoesOn DEF Matches
  <2>3. CASE ~Matches(req[s].user, req[s].hash)
    <3>1. Answer(s, "invalid")
      BY <1>4, <2>3 DEF userByTokenNonAtomic
    <3> QED
      BY <3>1, AnswerGoesOn DEF Answers
  <2> QED
    BY <2>2, <2>3
<1>5. ASSUME NEW s \in Request, Mutate(s) PROVE GoesOn(r)
  <2> DEFINE state == [req[s] EXCEPT !.pc = "clear"]
  <2>1. CASE Exists(req[s].user)
    <3>1. /\ state.hash = req[s].hash /\ state.age = req[s].age
          /\ state.answer = req[s].answer
      BY <1>a DEF RequestState
    <3>2. req' = [req EXCEPT ![s] = state]
      BY <1>5, <2>1 DEF Mutate, Become
    <3> HIDE DEF state
    <3> QED
      BY <1>a, <3>1, <3>2 DEF GoesOn
  <2>2. CASE ~Exists(req[s].user)
    <3>1. Answer(s, "notFound")
      BY <1>5, <2>2 DEF Mutate
    <3> QED
      BY <3>1, AnswerGoesOn DEF Answers
  <2> QED
    BY <2>1, <2>2
<1>6. ASSUME NEW s \in Request, clearSingleUseToken(s) \/ Abandon(s) PROVE GoesOn(r)
  <2>1. Answer(s, req[s].answer) \/ Answer(s, "notFound")
    BY <1>6 DEF clearSingleUseToken, Abandon
  <2>2. "notFound" \in Answers /\ req[s].answer \in Answers
    BY <1>b DEF Answers
  <2>3. CASE Answer(s, req[s].answer)
    BY <2>2, <2>3, AnswerGoesOn
  <2>4. CASE Answer(s, "notFound")
    BY <2>2, <2>4, AnswerGoesOn
  <2> QED
    BY <2>1, <2>3, <2>4
<1>7. ASSUME UNCHANGED req PROVE GoesOn(r)
  BY <1>7 DEF GoesOn
<1>8. ASSUME \/ \E u \in User, h \in Hash : issueSingleUseToken(u, h)
             \/ \E s \in Request : consumeUnheard(s)
             \/ \E u \in User : DeleteUser(u) \/ SweepProfile(u)
             \/ \E h \in Hash : SweepPointer(h) \/ ReapPointer(h)
             \/ Tick
             \/ UNCHANGED vars
      PROVE  UNCHANGED req
  BY <1>8 DEF issueSingleUseToken, consumeUnheard, DeleteUser, SweepProfile, SweepPointer,
              ReapPointer, Tick, vars
<1> QED
  BY <1>1, <1>2, <1>3, <1>4, <1>5, <1>6, <1>7, <1>8 DEF Next

(* No step but an issue puts a hash into a profile. *)
OnlyLoses ==
  \A u \in User : profile'[u] = profile[u] \/ profile'[u].hash = NoHash

LEMMA HoldingNone ==
  ASSUME TypeInv, NEW u \in User, profile' = Holding(u, NoHash, 0)
  PROVE  OnlyLoses
<1> DEFINE new == [profile[u] EXCEPT !.hash = NoHash, !.exp = 0]
<1>1. profile \in [User -> ProfileItem] /\ profile[u] \in ProfileItem
  BY DEF TypeInv, TypeOK
<1>2. new.hash = NoHash
  BY <1>1 DEF ProfileItem
<1>3. profile' = [profile EXCEPT ![u] = new]
  BY DEF Holding
<1> HIDE DEF new
<1> QED
  BY <1>1, <1>2, <1>3 DEF OnlyLoses

(* A step that issues nothing, and takes the pointer of no live token that *)
(* is not being deleted, keeps what links rely on.                         *)
LEMMA NoIssueKeepsLinks ==
  ASSUME HasPointer, TypeInv, LinkInv, [Next]_vars,
         issued' = issued, OnlyLoses, now' \in Nat, now <= now',
         \A u \in User, h \in Hash :
           <<u, h>> \in sweeping' => <<u, h>> \in sweeping \/ profile[u].hash = h,
         sweeping \subseteq sweeping',
         \A h \in Hash : \/ pointer'[h] = pointer[h]
                         \/ now > pointer[h].ttl
                         \/ \E u \in User : <<u, h>> \in sweeping
  PROVE  LinkInv'
<1>a. /\ OneOwner /\ HeldIsIssued /\ SweptIsIssued /\ LiveIsFound /\ StaleStays
      /\ profile \in [User -> ProfileItem] /\ now \in Nat
      /\ NoHash \notin Hash
  BY FamilyAssumption DEF LinkInv, TypeInv, TypeOK
<1>1. OneOwner'
  BY <1>a DEF OneOwner
<1>2. HeldIsIssued'
  BY <1>a DEF HeldIsIssued, OnlyLoses
<1>3. SweptIsIssued'
  BY <1>a DEF SweptIsIssued, HeldIsIssued
<1>4. LiveIsFound'
  <2> SUFFICES ASSUME NEW u \in User, NEW h \in Hash,
                      profile'[u].hash
                        = h, profile'[u].exp > now', <<u, h>> \notin sweeping'
               PROVE  pointer'[h] = pointerTo(u, profile'[u].exp)
    BY DEF LiveIsFound, pointerTo
  <2>1. profile'[u] = profile[u] /\ <<u, h>> \notin sweeping
    BY <1>a DEF OnlyLoses
  <2>2. profile[u].exp \in Nat
    BY <1>a DEF ProfileItem
  <2>3. profile[u].exp > now
    BY <1>a, <2>1, <2>2
  <2>4. pointer[h] = pointerTo(u, profile[u].exp)
    BY <1>a, <2>1, <2>3 DEF LiveIsFound
  <2>5. ~(now > pointer[h].ttl)
    BY <1>a, <2>2, <2>3, <2>4 DEF pointerTo
  <2>6. ASSUME NEW v \in User, <<v, h>> \in sweeping PROVE FALSE
    <3>1. issued[v][h] > 0 /\ issued[u][h] > 0
      BY <1>a, <2>1, <2>6 DEF SweptIsIssued, HeldIsIssued
    <3>2. v = u
      BY <1>a, <3>1 DEF OneOwner
    <3> QED
      BY <2>1, <2>6, <3>2
  <2> QED
    BY <2>1, <2>4, <2>5, <2>6
<1>5. StaleStays'
  <2> SUFFICES ASSUME NEW r \in Request, req'[r].age = "superseded"
               PROVE  /\ req'[r].hash \in Hash /\ req'[r].answer # "won"
                      /\ \E u \in User : issued'[u][req'[r].hash] > 0
                      /\ \A u \in User : profile'[u].hash # req'[r].hash
    BY DEF StaleStays
  <2>1. CASE Opens(r)
    <3>1. PICK u \in User, h \in Hash :
             /\ issued[u][h] > 0 /\ profile[u].hash # h
             /\ req'[r].hash = h /\ req'[r].answer = "none"
      BY <2>1 DEF Opens
    <3>2. \A v \in User : profile[v].hash # h
      BY <1>a, <3>1 DEF HeldIsIssued, OneOwner
    <3>3. \A v \in User : profile'[v].hash # h
      BY <1>a, <3>2 DEF OnlyLoses
    <3> QED
      BY <3>1, <3>3
  <2>2. CASE GoesOn(r)
    <3>1. /\ req[r].hash \in Hash /\ req[r].answer # "won"
          /\ \E u \in User : issued[u][req[r].hash] > 0
          /\ \A u \in User : profile[u].hash # req[r].hash
      BY <1>a, <2>2 DEF GoesOn, StaleStays
    <3>2. req'[r].hash = req[r].hash /\ req'[r].answer # "won"
      BY <2>2, <3>1 DEF GoesOn
    <3> QED
      BY <1>a, <3>1, <3>2 DEF OnlyLoses
  <2> QED
    BY <2>1, <2>2, RequestMoves
<1> QED
  BY <1>1, <1>2, <1>3, <1>4, <1>5 DEF LinkInv

(* An issue of a link, whose token is new. *)
LEMMA IssueKeepsLinks ==
  ASSUME HasPointer, TypeInv, LinkInv,
         NEW u \in User, NEW h \in Hash, issueSingleUseToken(u, h)
  PROVE  LinkInv'
<1> DEFINE new == [profile[u] EXCEPT !.hash = h, !.exp = now + Life]
<1>a. /\ OneOwner /\ HeldIsIssued /\ SweptIsIssued /\ LiveIsFound /\ StaleStays
      /\ profile \in [User -> ProfileItem] /\ pointer \in [Hash -> PointerItem]
      /\ issued \in [User -> [Hash -> Nat]]
      /\ profile[u] \in ProfileItem
  BY DEF LinkInv, TypeInv, TypeOK
<1>b. \A v \in User : ~(issued[v][h] > 0)
  BY <1>a DEF issueSingleUseToken, Fresh
<1>c. UNCHANGED <<now, req, sweeping>>
  BY DEF issueSingleUseToken
<1>1. new.hash = h /\ new.exp = now + Life
  BY <1>a DEF ProfileItem
<1>2. profile' = [profile EXCEPT ![u] = new]
  BY DEF issueSingleUseToken, Holding
<1>3. pointer' = [pointer EXCEPT ![h] = pointerTo(u, now + Life)]
  BY DEF issueSingleUseToken
<1>4. \A v \in User, x \in Hash : /\ issued[v][x] \in Nat
                                  /\ issued'[v][x] = IF v = u /\ x = h
                                                     THEN issued[v][x] + 1 ELSE issued[v][x]
  <2>1. issued' = Counted(issued, u, h)
    BY DEF issueSingleUseToken
  <2> QED
    BY <1>a, <2>1, CountedValue
<1> HIDE DEF new
<1>5. \A v \in User : profile'[v] = IF v = u THEN new ELSE profile[v]
  BY <1>a, <1>2
<1>6. OneOwner'
  <2> SUFFICES ASSUME NEW v \in User, NEW w \in User, NEW x \in Hash,
                      issued'[v][x] > 0, issued'[w][x] > 0
               PROVE  v = w
    BY DEF OneOwner
  <2>1. CASE x = h
    BY <1>b, <1>4, <2>1
  <2>2. CASE x # h
    BY <1>a, <1>4, <2>2 DEF OneOwner
  <2> QED
    BY <2>1, <2>2
<1>7. HeldIsIssued'
  <2> SUFFICES ASSUME NEW v \in User, NEW x \in Hash, profile'[v].hash = x
               PROVE  issued'[v][x] > 0
    BY DEF HeldIsIssued
  <2>1. CASE v = u
    BY <1>1, <1>4, <1>5, <2>1
  <2>2. CASE v # u
    BY <1>a, <1>4, <1>5, <2>2 DEF HeldIsIssued
  <2> QED
    BY <2>1, <2>2
<1>8. SweptIsIssued'
  <2> SUFFICES ASSUME NEW v \in User, NEW x \in Hash, <<v, x>> \in sweeping
               PROVE  issued'[v][x] > 0
    BY <1>c DEF SweptIsIssued
  <2>1. issued[v][x] > 0
    BY <1>a DEF SweptIsIssued
  <2> QED
    BY <1>4, <2>1
<1>9. LiveIsFound'
  <2> SUFFICES ASSUME NEW v \in User, NEW x \in Hash,
                      profile'[v].hash
                        = x, profile'[v].exp > now', <<v, x>> \notin sweeping'
               PROVE  pointer'[x] = pointerTo(v, profile'[v].exp)
    BY DEF LiveIsFound, pointerTo
  <2>1. CASE v = u
    BY <1>a, <1>1, <1>3, <1>5, <2>1
  <2>2. CASE v # u
    <3>1. profile'[v] = profile[v]
      BY <1>5, <2>2
    <3>2. x # h
      BY <1>a, <1>b, <3>1 DEF HeldIsIssued
    <3>3. pointer[x] = pointerTo(v, profile[v].exp)
      BY <1>a, <1>c, <3>1 DEF LiveIsFound
    <3> QED
      BY <1>a, <1>3, <3>1, <3>2, <3>3
  <2> QED
    BY <2>1, <2>2
<1>10. StaleStays'
  <2> SUFFICES ASSUME NEW r \in Request, req[r].age = "superseded"
               PROVE  /\ req[r].hash \in Hash /\ req[r].answer # "won"
                      /\ \E v \in User : issued'[v][req[r].hash] > 0
                      /\ \A v \in User : profile'[v].hash # req[r].hash
    BY <1>c DEF StaleStays
  <2>1. /\ req[r].hash \in Hash /\ req[r].answer # "won"
        /\ \E v \in User : issued[v][req[r].hash] > 0
        /\ \A v \in User : profile[v].hash # req[r].hash
    BY <1>a DEF StaleStays
  <2>2. req[r].hash # h
    BY <1>b, <2>1
  <2>3. PICK v \in User : issued[v][req[r].hash] > 0
    BY <2>1
  <2>4. issued'[v][req[r].hash] > 0
    BY <1>4, <2>1, <2>2, <2>3
  <2> QED
    BY <1>1, <1>5, <2>1, <2>2, <2>4
<1> QED
  BY <1>6, <1>7, <1>8, <1>9, <1>10 DEF LinkInv

LEMMA LinkStep ==
  ASSUME HasPointer, TypeInv, LinkInv, [Next]_vars
  PROVE  LinkInv'
<1>a. now \in Nat /\ now + 1 \in Nat /\ now <= now /\ now <= now + 1
      /\ profile \in [User -> ProfileItem] /\ pointer \in [Hash -> PointerItem]
  BY DEF TypeInv, TypeOK
<1>1. ASSUME NEW u \in User, NEW h \in Hash, issueSingleUseToken(u, h) PROVE LinkInv'
  BY <1>1, IssueKeepsLinks
(* Requests touch a profile at most. *)
<1>2. ASSUME UNCHANGED <<issued, now, sweeping, pointer>>, OnlyLoses PROVE LinkInv'
  BY <1>2, <1>a, NoIssueKeepsLinks
<1>3. ASSUME UNCHANGED profile PROVE OnlyLoses
  BY <1>3 DEF OnlyLoses
<1>4. ASSUME NEW r \in Request, consumeSingleUseToken(r) \/ clearSingleUseToken(r)
                                \/ consumeUnheard(r)
      PROVE  LinkInv'
  <2>1. req[r].user \in User
    BY <1>4 DEF TypeInv, Located, consumeSingleUseToken, clearSingleUseToken,
             consumeUnheard
  <2>2. profile' = Holding(req[r].user, NoHash, 0) \/ UNCHANGED profile
    BY <1>4 DEF consumeSingleUseToken, clearSingleUseToken,
             consumeUnheard
  <2>3. OnlyLoses
    BY <1>3, <2>1, <2>2, HoldingNone
  <2> QED
    BY <1>2, <1>4, <2>3 DEF consumeSingleUseToken, clearSingleUseToken,
             consumeUnheard
<1>5. ASSUME \/ \E u \in User, h \in Hash, r \in Request : Present(r, u, h)
             \/ \E r \in Request : \/ ReadPointer(r) \/ userByTokenNonAtomic(r)
                                   \/ Mutate(r) \/ Abandon(r)
             \/ UNCHANGED vars
      PROVE  LinkInv'
  <2>1. UNCHANGED <<issued, now, sweeping, pointer, profile>>
    BY <1>5 DEF Present, ReadPointer, userByTokenNonAtomic, Mutate, Abandon, vars
  <2> QED
    BY <1>2, <1>3, <2>1
<1>6. ASSUME NEW u \in User, DeleteUser(u) PROVE LinkInv'
  <2>1. UNCHANGED <<issued, now, pointer, profile>>
        /\ sweeping' = sweeping \cup {<<u, profile[u].hash>>}
    BY <1>6 DEF DeleteUser
  <2> QED
    BY <1>a, <1>3, <2>1, NoIssueKeepsLinks
<1>7. ASSUME NEW u \in User, SweepProfile(u) PROVE LinkInv'
  <2>1. UNCHANGED <<issued, now, pointer, sweeping>>
        /\ profile' = [profile EXCEPT ![u] = NoProfile]
    BY <1>7 DEF SweepProfile
  <2>2. OnlyLoses
    BY <1>a, <2>1 DEF OnlyLoses, NoProfile
  <2> QED
    BY <1>2, <2>1, <2>2
<1>8. ASSUME NEW h \in Hash, SweepPointer(h) \/ ReapPointer(h) PROVE LinkInv'
  <2>1. UNCHANGED <<issued, now, profile, sweeping>>
        /\ pointer' = [pointer EXCEPT ![h] = NoPointer]
        /\ (now > pointer[h].ttl \/ \E u \in User : <<u, h>> \in sweeping)
    BY <1>8 DEF SweepPointer, ReapPointer
  <2>2. \A x \in Hash : \/ pointer'[x] = pointer[x]
                        \/ now > pointer[x].ttl
                        \/ \E u \in User : <<u, x>> \in sweeping
    BY <1>a, <2>1
  <2> QED
    BY <1>a, <1>3, <2>1, <2>2, NoIssueKeepsLinks
<1>9. CASE Tick
  <2>1. UNCHANGED <<issued, pointer, profile, sweeping>> /\ now' = now + 1
    BY <1>9 DEF Tick
  <2> QED
    BY <1>a, <1>3, <2>1, NoIssueKeepsLinks
<1> QED
  BY <1>1, <1>4, <1>5, <1>6, <1>7, <1>8, <1>9 DEF Next

LEMMA LinkInvariant == Spec => [](TypeInv /\ (HasPointer => LinkInv))
<1>1. /\ TypeInv /\ (HasPointer => LinkInv) /\ [Next]_vars
      => (TypeInv /\ (HasPointer => LinkInv))'
  BY TypeStep, LinkStep
<1> QED
  BY <1>1, TypeInit, LinkInit, PTL DEF Spec

(* A link that had been replaced or spent when it was opened never         *)
(* resolves, whether lookups consume or not (userBySingleUseToken leaves   *)
(* the pointers of old links to TTL).                                      *)
THEOREM StaleLinksLose == Spec => [](SupersededNeverWins /\ StaleLinksNeverWin)
<1>1. (HasPointer => LinkInv) => SupersededNeverWins /\ StaleLinksNeverWin
  BY DEF LinkInv, StaleStays, SupersededNeverWins, StaleLinksNeverWin
<1> QED
  BY <1>1, LinkInvariant, PTL

(* The link a user was last sent is found through its pointer for as long  *)
(* as it can be redeemed, deletions aside: the pointer is dated from the   *)
(* same expiry and TTL takes it only after that (issueSingleUseToken).     *)
THEOREM LiveLinksResolve == Spec => [](OutstandingResolves /\ LinksResolve)
<1>1. TypeInv /\ (HasPointer => LinkInv) => OutstandingResolves /\ LinksResolve
  <2> SUFFICES ASSUME HasPointer, LinkInv, NEW u \in User, NEW h \in Hash,
                      Redeemable(u, h), <<u, h>> \notin sweeping
               PROVE  pointer[h].user = u
    BY DEF OutstandingResolves, LinksResolve
  <2>1. pointer[h] = pointerTo(u, profile[u].exp)
    BY DEF LinkInv, LiveIsFound, Redeemable
  <2> QED
    BY <2>1 DEF pointerTo
<1> QED
  BY <1>1, LinkInvariant, PTL
-----------------------------------------------------------------------------
(* Credentials that are items of their own.                                *)

(* The first argument is an account: what has been served of a credential  *)
(* and what is still there never exceed what was saved, because the only   *)
(* step that serves one takes the item away.  The second is that an entry  *)
(* that was there stays there until something excuses its going.           *)
ItemAnswers == {"none", "notFound", "expired", "served"}

(* A request past its start names a key. *)
ItemLocated == \A r \in Request : asks[r].pc # "idle" => asks[r].key \in Key

ItemTypeInv == Own!TypeOK /\ ItemLocated

-----------------------------------------------------------------------------
(* Answering keeps the requests well typed, and the key. *)
LEMMA ItemAnswerSound ==
  ASSUME ItemTypeInv, NEW r \in Request, NEW a \in ItemAnswers, Own!Answer(r, a),
         asks[r].pc # "idle"
  PROVE  asks' \in [Request -> Own!RequestState] /\ ItemLocated'
<1>1. asks[r] \in Own!RequestState /\ asks \in [Request -> Own!RequestState]
  BY DEF ItemTypeInv, Own!TypeOK
<1> DEFINE new == [asks[r] EXCEPT !.pc = "done", !.answer = a]
<1>2. new \in Own!RequestState
  BY <1>1 DEF Own!RequestState, ItemAnswers
<1>3. new.key = asks[r].key
  BY <1>1 DEF Own!RequestState
<1>4. asks' = [asks EXCEPT ![r] = new]
  BY DEF Own!Answer, Own!Become
<1> HIDE DEF new
<1> QED
  BY <1>1, <1>2, <1>3, <1>4 DEF ItemTypeInv, ItemLocated

(* So does serving. *)
LEMMA ServedSound ==
  ASSUME ItemTypeInv, NEW r \in Request, Own!Served(r), asks[r].pc = "get"
  PROVE  /\ asks' \in [Request -> Own!RequestState] /\ ItemLocated'
         /\ served' \in [Key -> Nat]
<1>1. /\ asks[r] \in Own!RequestState /\ asks \in [Request -> Own!RequestState]
      /\ served \in [Key -> Nat]
  BY DEF ItemTypeInv, Own!TypeOK
<1> DEFINE new == [asks[r] EXCEPT !.answer = "served",
                     !.pc = IF Kind[asks[r].key] = "code" THEN "done" ELSE "act"]
<1>2. new \in Own!RequestState
  BY <1>1 DEF Own!RequestState
<1>3. new.key = asks[r].key /\ asks[r].key \in Key
  BY <1>1 DEF Own!RequestState, ItemTypeInv, ItemLocated
<1>4. asks' = [asks EXCEPT ![r] = new]
  BY DEF Own!Served, Own!Become
<1> HIDE DEF new
<1>5. asks' \in [Request -> Own!RequestState] /\ ItemLocated'
  BY <1>1, <1>2, <1>3, <1>4 DEF ItemTypeInv, ItemLocated
<1>6. served' \in [Key -> Nat]
  BY <1>1, <1>3 DEF Own!Served
<1> QED
  BY <1>5, <1>6

LEMMA RefusedSound ==
  ASSUME NEW k \in Key PROVE Own!Refused(k) \in ItemAnswers
BY DEF Own!Refused, ItemAnswers

LEMMA ItemTypeInit == Own!Init => ItemTypeInv
BY DEF Own!Init, ItemTypeInv, Own!TypeOK, ItemLocated, Own!Item, Own!NoItem, Own!RequestState

(* Types: one step per action. *)
LEMMA ItemTypeStep == ItemTypeInv /\ [Own!Next]_(Own!vars) => ItemTypeInv'
<1> SUFFICES ASSUME ItemTypeInv, [Own!Next]_(Own!vars) PROVE ItemTypeInv'
  OBVIOUS
<1>a. /\ item \in [Key -> Own!Item]
      /\ clock \in Nat
      /\ asks \in [Request -> Own!RequestState]
      /\ saves \in [Key -> Nat]
      /\ served \in [Key -> Nat]
      /\ dropped \subseteq Key /\ spent \subseteq Key
      /\ ItemLocated
  BY DEF ItemTypeInv, Own!TypeOK
<1>b. Own!NoItem \in Own!Item
  BY DEF Own!NoItem, Own!Item
<1>c. \A k \in Key : [item EXCEPT ![k] = Own!NoItem] \in [Key -> Own!Item]
  BY <1>a, <1>b
<1>1. ASSUME NEW k \in Key, NEW life \in Lifetimes, Own!Save(k, life) PROVE ItemTypeInv'
  <2>1. [state |-> "present", exp |-> IF life = 0 THEN 0 ELSE clock + life] \in Own!Item
    BY <1>a, ItemsAssumption DEF Own!keysHaveAKind, Own!Item
  <2>2. item' \in [Key -> Own!Item]
    BY <1>1, <1>a, <2>1 DEF Own!Save
  <2>3. saves' \in [Key -> Nat]
    BY <1>1, <1>a DEF Own!Save
  <2> QED
    BY <1>1, <1>a, <2>2, <2>3 DEF Own!Save, ItemTypeInv, Own!TypeOK, ItemLocated
<1>2. ASSUME NEW k \in Key, NEW r \in Request, Own!Lookup(r, k) PROVE ItemTypeInv'
  <2> DEFINE new == [pc |-> "get", key |-> k, answer |-> "none",
                     known |-> IF Own!Present(k) THEN "there" ELSE "absent",
                     deadline |-> item[k].exp]
  <2>1. item[k].exp \in Nat
    BY <1>a DEF Own!Item
  <2>2. new \in Own!RequestState
    BY <2>1 DEF Own!RequestState
  <2>3. new.key = k
    OBVIOUS
  <2>4. asks' = [asks EXCEPT ![r] = new]
    BY <1>2 DEF Own!Lookup, Own!Become
  <2> HIDE DEF new
  <2>5. asks' \in [Request -> Own!RequestState] /\ ItemLocated'
    BY <1>a, <2>2, <2>3, <2>4 DEF ItemLocated
  <2> QED
    BY <1>2, <1>a, <2>5 DEF Own!Lookup, ItemTypeInv, Own!TypeOK
<1>3. ASSUME NEW k \in Key, Own!Reap(k) PROVE ItemTypeInv'
  BY <1>3, <1>a, <1>c DEF Own!Reap, ItemTypeInv, Own!TypeOK, ItemLocated
<1>4. ASSUME NEW r \in Request, Own!consumeItemOnce(r) PROVE ItemTypeInv'
  <2>1. asks[r].pc = "get" /\ asks[r].key \in Key
    BY <1>4, <1>a DEF Own!consumeItemOnce, ItemLocated
  <2>2. CASE Own!Served(r) /\ item' = [item EXCEPT ![asks[r].key] = Own!NoItem]
    BY <1>4, <1>a, <1>c, <2>1, <2>2, ServedSound DEF Own!consumeItemOnce, ItemTypeInv, Own!TypeOK
  <2>3. CASE Own!Answer(r, Own!Refused(asks[r].key)) /\ UNCHANGED <<item, served>>
    <3>1. asks' \in [Request -> Own!RequestState] /\ ItemLocated'
      BY <2>1, <2>3, RefusedSound, ItemAnswerSound
    <3> QED
      BY <1>4, <1>a, <2>3, <3>1 DEF Own!consumeItemOnce, ItemTypeInv, Own!TypeOK
  <2> QED
    BY <1>4, <2>2, <2>3 DEF Own!consumeItemOnce
<1>11. ASSUME NEW r \in Request, Own!consumeUnheard(r) PROVE ItemTypeInv'
  <2>1. asks[r].key \in Key
    BY <1>11, <1>a DEF Own!consumeUnheard, ItemLocated
  <2>2. item' \in [Key -> Own!Item] /\ spent' \subseteq Key
    BY <1>11, <1>a, <1>c, <2>1 DEF Own!consumeUnheard
  <2> QED
    BY <1>11, <1>a, <2>2 DEF Own!consumeUnheard, ItemTypeInv, Own!TypeOK, ItemLocated
<1>5. ASSUME NEW r \in Request, Own!read(r) PROVE ItemTypeInv'
  <2>1. asks[r].pc = "get" /\ asks[r].key \in Key
    BY <1>5, <1>a DEF Own!read, ItemLocated
  <2>2. CASE Own!Served(r)
    BY <1>5, <1>a, <2>1, <2>2, ServedSound DEF Own!read, ItemTypeInv, Own!TypeOK
  <2>3. CASE Own!Answer(r, Own!Refused(asks[r].key)) /\ UNCHANGED served
    <3>1. asks' \in [Request -> Own!RequestState] /\ ItemLocated'
      BY <2>1, <2>3, RefusedSound, ItemAnswerSound
    <3> QED
      BY <1>5, <1>a, <2>3, <3>1 DEF Own!read, ItemTypeInv, Own!TypeOK
  <2> QED
    BY <1>5, <2>2, <2>3 DEF Own!read
<1>6. ASSUME NEW r \in Request, Own!Act(r) PROVE ItemTypeInv'
  <2>1. asks[r] \in Own!RequestState /\ asks[r].pc = "act" /\ asks[r].answer \in ItemAnswers
    BY <1>6, <1>a DEF Own!Act, Own!RequestState, ItemAnswers
  <2>2. CASE Own!Become(r, [asks[r] EXCEPT !.pc = "delete"])
    <3> DEFINE new == [asks[r] EXCEPT !.pc = "delete"]
    <3>1. new \in Own!RequestState /\ new.key = asks[r].key
      BY <2>1 DEF Own!RequestState
    <3>2. asks' = [asks EXCEPT ![r] = new]
      BY <2>2 DEF Own!Become
    <3> HIDE DEF new
    <3>3. asks' \in [Request -> Own!RequestState] /\ ItemLocated'
      BY <1>a, <2>1, <3>1, <3>2 DEF ItemLocated
    <3> QED
      BY <1>6, <1>a, <3>3 DEF Own!Act, ItemTypeInv, Own!TypeOK
  <2>3. CASE Own!Answer(r, asks[r].answer)
    <3>1. asks' \in [Request -> Own!RequestState] /\ ItemLocated'
      BY <2>1, <2>3, ItemAnswerSound
    <3> QED
      BY <1>6, <1>a, <3>1 DEF Own!Act, ItemTypeInv, Own!TypeOK
  <2> QED
    BY <1>6, <2>2, <2>3 DEF Own!Act
<1>7. ASSUME NEW r \in Request, Own!Delete(r) PROVE ItemTypeInv'
  <2>1. asks[r] \in Own!RequestState /\ asks[r].pc = "delete" /\ asks[r].answer \in ItemAnswers
    BY <1>7, <1>a DEF Own!Delete, Own!RequestState, ItemAnswers
  <2>2. asks' \in [Request -> Own!RequestState] /\ ItemLocated'
    BY <1>7, <2>1, ItemAnswerSound DEF Own!Delete
  <2>3. asks[r].key \in Key
    BY <1>a, <2>1 DEF ItemLocated
  <2>4. dropped' \subseteq Key
    BY <1>7, <1>a, <2>3 DEF Own!Delete
  <2> QED
    BY <1>7, <1>a, <1>c, <2>2, <2>3, <2>4 DEF Own!Delete, ItemTypeInv, Own!TypeOK
<1>8. ASSUME NEW r \in Request, Own!Abandon(r) PROVE ItemTypeInv'
  <2>1. asks[r] \in Own!RequestState /\ asks[r].pc # "idle" /\ asks[r].answer \in ItemAnswers
    BY <1>8, <1>a DEF Own!Abandon, Own!RequestState, ItemAnswers
  <2>2. asks' \in [Request -> Own!RequestState] /\ ItemLocated'
    BY <1>8, <2>1, ItemAnswerSound DEF Own!Abandon
  <2> QED
    BY <1>8, <1>a, <2>2 DEF Own!Abandon, ItemTypeInv, Own!TypeOK
<1>9. CASE Own!Tick
  BY <1>9, <1>a DEF Own!Tick, ItemTypeInv, Own!TypeOK, ItemLocated
<1>10. CASE UNCHANGED Own!vars
  BY <1>10, <1>a DEF Own!vars, ItemTypeInv, Own!TypeOK, ItemLocated
<1> QED
  BY <1>1, <1>2, <1>3, <1>4, <1>5, <1>6, <1>7, <1>8, <1>9, <1>10,
     <1>11 DEF Own!Next

(* A run of the whole is one of the items.                                 *)
LEMMA OwnRun == MCSpec => Own!Spec
<1>1. MCInit => Own!Init
  BY DEF MCInit
<1>2. [MCNext]_<<vars, itemVars, shape>> => [Own!Next]_(Own!vars)
  BY DEF MCNext, itemVars, Own!vars
<1> QED
  BY <1>1, <1>2, PTL DEF MCSpec, Own!Spec

LEMMA ItemsTypeInvariant == Own!Spec => []ItemTypeInv
BY ItemTypeInit, ItemTypeStep, PTL DEF Own!Spec

(* Every reachable state is well typed. *)
THEOREM ItemsTypeCorrect == MCSpec => []Own!TypeOK
<1>1. ItemTypeInv => Own!TypeOK
  BY DEF ItemTypeInv
<1> QED
  BY <1>1, OwnRun, ItemsTypeInvariant, PTL

-----------------------------------------------------------------------------
(* What is left of a credential to be served: the item, while it is there. *)
ItemLeft(k) == IF Own!Present(k) THEN 1 ELSE 0

ItemAccounted == \A k \in Credentials : served[k] + ItemLeft(k) <= saves[k]

LEMMA ItemAccountedInit == Own!Init => ItemAccounted
<1> SUFFICES ASSUME Own!Init, NEW k \in Credentials
             PROVE  served[k] + ItemLeft(k) <= saves[k]
  BY DEF ItemAccounted
<1>1. k \in Key
  BY DEF Credentials, Own!Credentials
<1>2. served[k] = 0 /\ saves[k] = 0
  BY <1>1 DEF Own!Init
<1>3. item[k].state = "absent"
  BY <1>1 DEF Own!Init, Own!NoItem
<1>4. ItemLeft(k) = 0
  BY <1>3 DEF ItemLeft, Own!Present
<1> QED
  BY <1>2, <1>4

(* A lookup that serves without taking the item is not of a credential. *)
LEMMA ItemAccountedStep == ItemTypeInv /\ ItemAccounted /\ [Own!Next]_(Own!vars) => ItemAccounted'
<1> SUFFICES ASSUME ItemTypeInv, ItemAccounted, [Own!Next]_(Own!vars), NEW k \in Credentials
             PROVE  served'[k] + ItemLeft(k)' <= saves'[k]
  BY DEF ItemAccounted, Credentials, Own!Credentials
<1>a. /\ item \in [Key -> Own!Item]
      /\ saves \in [Key -> Nat]
      /\ served \in [Key -> Nat]
      /\ k \in Key
      /\ saves[k] \in Nat /\ served[k] \in Nat
      /\ served[k] + ItemLeft(k) <= saves[k]
  BY DEF ItemTypeInv, Own!TypeOK, Credentials, Own!Credentials, ItemAccounted
<1>b. Own!SingleUse(k)
  BY DEF Credentials, Own!Credentials, Own!SingleUse
<1>c. Own!NoItem.state = "absent" /\ ItemLeft(k) \in {0, 1}
  BY DEF Own!NoItem, ItemLeft
<1>1. ASSUME NEW j \in Key, NEW life \in Lifetimes, Own!Save(j, life)
      PROVE  served'[k] + ItemLeft(k)' <= saves'[k]
  <2>1. CASE j = k
    <3>1. saves'[k] = saves[k] + 1 /\ served' = served
      BY <1>1, <1>a, <2>1 DEF Own!Save
    <3>2. served[k] <= saves[k]
      BY <1>a, <1>c
    <3>3. ItemLeft(k)' \in {0, 1}
      BY DEF ItemLeft
    <3> QED
      BY <1>a, <3>1, <3>2, <3>3
  <2>2. CASE j # k
    <3>1. saves'[k] = saves[k] /\ served' = served /\ item'[k] = item[k]
      BY <1>1, <1>a, <2>2 DEF Own!Save
    <3>2. ItemLeft(k)' = ItemLeft(k)
      BY <3>1 DEF ItemLeft, Own!Present
    <3> QED
      BY <1>a, <3>1, <3>2
  <2> QED
    BY <2>1, <2>2
(* Taking an item away leaves no more than there was. *)
<1>d. ASSUME NEW j \in Key, item' = [item EXCEPT ![j] = Own!NoItem]
      PROVE  ItemLeft(k)' \in {0, 1} /\ ItemLeft(k)' <= ItemLeft(k) /\ (j = k => ItemLeft(k)' = 0)
  BY <1>d, <1>a, <1>c DEF ItemLeft, Own!Present
<1>2. ASSUME NEW j \in Key, Own!Reap(j)
      PROVE  served'[k] + ItemLeft(k)' <= saves'[k]
  <2>1. item' = [item EXCEPT ![j] = Own!NoItem] /\ served' = served /\ saves' = saves
    BY <1>2 DEF Own!Reap
  <2>2. ItemLeft(k)' \in {0, 1} /\ ItemLeft(k)' <= ItemLeft(k)
    BY <1>d, <2>1
  <2>3. served'[k] = served[k] /\ saves'[k] = saves[k]
    BY <2>1
  <2> QED
    BY <1>a, <1>c, <2>2, <2>3
<1>3. ASSUME NEW r \in Request, Own!Delete(r) \/ Own!consumeUnheard(r)
      PROVE  served'[k] + ItemLeft(k)' <= saves'[k]
  <2>1. asks[r].key \in Key
    BY <1>3 DEF Own!Delete, Own!consumeUnheard, ItemTypeInv, ItemLocated
  <2>2. item' = [item EXCEPT ![asks[r].key] = Own!NoItem]
        /\ served' = served /\ saves' = saves
    BY <1>3 DEF Own!Delete, Own!consumeUnheard
  <2>3. ItemLeft(k)' \in {0, 1} /\ ItemLeft(k)' <= ItemLeft(k)
    BY <1>d, <2>1, <2>2
  <2>4. served'[k] = served[k] /\ saves'[k] = saves[k]
    BY <2>2
  <2> QED
    BY <1>a, <1>c, <2>3, <2>4
<1>4. ASSUME NEW r \in Request, Own!consumeItemOnce(r)
      PROVE  served'[k] + ItemLeft(k)' <= saves'[k]
  <2>1. asks[r].key \in Key /\ saves' = saves
    BY <1>4 DEF Own!consumeItemOnce, ItemTypeInv, ItemLocated
  <2>2. CASE /\ Own!Present(asks[r].key) /\ Own!Served(r)
             /\ item' = [item EXCEPT ![asks[r].key] = Own!NoItem]
    <3>1. served' = [served EXCEPT ![asks[r].key] = @ + 1]
      BY <2>2 DEF Own!Served
    <3>2. CASE asks[r].key = k
      <4>1. served'[k] = served[k] + 1
        BY <1>a, <3>1, <3>2
      <4>2. ItemLeft(k)' = 0
        BY <1>d, <2>1, <2>2, <3>2
      <4>3. ItemLeft(k) = 1
        BY <2>2, <3>2 DEF ItemLeft
      <4> QED
        BY <1>a, <2>1, <4>1, <4>2, <4>3
    <3>3. CASE asks[r].key # k
      <4>1. served'[k] = served[k]
        BY <1>a, <3>1, <3>3
      <4>2. ItemLeft(k)' \in {0, 1} /\ ItemLeft(k)' <= ItemLeft(k)
        BY <1>d, <2>1, <2>2
      <4> QED
        BY <1>a, <1>c, <2>1, <4>1, <4>2
    <3> QED
      BY <3>2, <3>3
  <2>3. CASE UNCHANGED <<item, served>>
    <3>1. ItemLeft(k)' = ItemLeft(k)
      BY <2>3 DEF ItemLeft, Own!Present
    <3> QED
      BY <1>a, <2>1, <2>3, <3>1
  <2> QED
    BY <1>4, <2>2, <2>3 DEF Own!consumeItemOnce
<1>5. ASSUME NEW r \in Request, Own!read(r)
      PROVE  served'[k] + ItemLeft(k)' <= saves'[k]
  <2>1. asks[r].key \in Key /\ asks[r].key # k
    BY <1>5, <1>b DEF Own!read, ItemTypeInv, ItemLocated
  <2>2. served'[k] = served[k]
    BY <1>5, <1>a, <2>1 DEF Own!read, Own!Served
  <2>3. item' = item /\ saves' = saves
    BY <1>5 DEF Own!read
  <2>4. ItemLeft(k)' = ItemLeft(k)
    BY <2>3 DEF ItemLeft, Own!Present
  <2> QED
    BY <1>a, <2>2, <2>3, <2>4
<1>6. ASSUME UNCHANGED <<item, saves, served>>
      PROVE  served'[k] + ItemLeft(k)' <= saves'[k]
  <2>1. ItemLeft(k)' = ItemLeft(k)
    BY <1>6 DEF ItemLeft, Own!Present
  <2> QED
    BY <1>6, <1>a, <2>1
<1>7. ASSUME NEW r \in Request, NEW j \in Key, Own!Lookup(r, j)
      PROVE  UNCHANGED <<item, saves, served>>
  BY <1>7 DEF Own!Lookup
<1>8. ASSUME NEW r \in Request, Own!Act(r) \/ Own!Abandon(r)
      PROVE  UNCHANGED <<item, saves, served>>
  BY <1>8 DEF Own!Act, Own!Abandon
<1>9. ASSUME Own!Tick \/ UNCHANGED Own!vars PROVE UNCHANGED <<item, saves, served>>
  BY <1>9 DEF Own!Tick, Own!vars
<1> QED
  BY <1>1, <1>2, <1>3, <1>4, <1>5, <1>6, <1>7, <1>8, <1>9 DEF Own!Next

(* A credential is served at most once for each save of it, for any number *)
(* of concurrent lookups (consumeItemOnce).                                *)
THEOREM CredentialIsSingleUse == MCSpec => []ServedOnce
<1>1. ItemTypeInv /\ ItemAccounted => ServedOnce
  <2> SUFFICES ASSUME ItemTypeInv, ItemAccounted, NEW k \in Key,
                      Kind[k] = "code" \/ (Kind[k] = "credential" /\ ConsumeOnRead)
               PROVE  served[k] <= saves[k]
    BY DEF ServedOnce, Own!ServedAtMostOnce
  <2>1. k \in Credentials /\ served[k] \in Nat /\ saves[k] \in Nat
    BY DEF Credentials, Own!Credentials, ItemTypeInv, Own!TypeOK
  <2>2. served[k] + ItemLeft(k) <= saves[k] /\ ItemLeft(k) \in {0, 1}
    BY <2>1 DEF ItemAccounted, ItemLeft
  <2> QED
    BY <2>1, <2>2
<1> QED
  BY <1>1, OwnRun, ItemAccountedInit, ItemAccountedStep, ItemsTypeInvariant, PTL DEF Own!Spec
-----------------------------------------------------------------------------
(* What explains that an entry is not served any more: another took it, it *)
(* was deleted, it is past the deadline d, it was saved again, or the call *)
(* that consumed it was answered into the void.                            *)
Excused(k, d) ==
  \/ Kind[k] # "stash" /\ served[k] > 0
  \/ k \in dropped \cup spent
  \/ d # 0 /\ clock >= d
  \/ saves[k] > 1

StillThere(k, d) == Own!Present(k) /\ item[k].exp = d

(* An entry that was there when a request presented its key is there, or   *)
(* there is an excuse; for a request that was refused there is an excuse.  *)
Explained ==
  /\ \A k \in Key : Own!Present(k) => saves[k] > 0
  /\ \A r \in Request :
       asks[r].known = "there" =>
         /\ asks[r].pc # "idle"
         /\ saves[asks[r].key] > 0
         /\ \/ Excused(asks[r].key, asks[r].deadline)
            \/ /\ StillThere(asks[r].key, asks[r].deadline)
               /\ asks[r].answer \notin {"notFound", "expired"}

(* A step leaves the excuses there are.  *)
LEMMA ExcusesStand ==
  ASSUME ItemTypeInv, [Own!Next]_(Own!vars),
         NEW k \in Key, NEW d \in Nat, saves[k] > 0, Excused(k, d)
  PROVE  Excused(k, d)'
<1>a. /\ saves \in [Key -> Nat] /\ served \in [Key -> Nat]
      /\ clock \in Nat /\ saves[k] \in Nat /\ served[k] \in Nat
  BY DEF ItemTypeInv, Own!TypeOK
<1>1. ASSUME NEW j \in Key, NEW life \in Lifetimes, Own!Save(j, life) PROVE Excused(k, d)'
  <2>1. CASE j = k
    <3>1. saves'[k] = saves[k] + 1
      BY <1>1, <1>a, <2>1 DEF Own!Save
    <3>2. saves'[k] > 1
      BY <3>1, <1>a
    <3> QED
      BY <3>2 DEF Excused
  <2>2. CASE j # k
    <3>1. /\ saves'[k] = saves[k] /\ served' = served /\ clock' = clock
          /\ (k \in dropped => k \in dropped') /\ spent' = spent
      BY <1>1, <1>a, <2>2 DEF Own!Save
    <3> QED
      BY <3>1 DEF Excused
  <2> QED BY <2>1, <2>2
<1>2. ASSUME NEW r \in Request, Own!Served(r), asks[r].key \in Key,
             saves' = saves, clock' = clock, dropped' = dropped, spent' = spent
      PROVE  Excused(k, d)'
  <2>1. served'[k] = served[k] \/ served'[k] = served[k] + 1
    BY <1>2, <1>a DEF Own!Served
  <2>2. served[k] > 0 => served'[k] > 0
    BY <2>1, <1>a
  <2> QED BY <1>2, <2>2 DEF Excused
<1>3. ASSUME saves' = saves, served' = served, clock' = clock, dropped \subseteq dropped',
             spent \subseteq spent'
      PROVE  Excused(k, d)'
  BY <1>3 DEF Excused
<1>4. ASSUME Own!Tick PROVE Excused(k, d)'
  <2>1. clock' = clock + 1 /\ saves' = saves /\ served' = served /\ dropped' = dropped
        /\ spent' = spent
    BY <1>4 DEF Own!Tick
  <2>2. clock >= d => clock' >= d
    BY <2>1, <1>a
  <2> QED BY <2>1, <2>2 DEF Excused
<1>5. ASSUME NEW r \in Request, Own!consumeItemOnce(r) \/ Own!read(r) PROVE Excused(k, d)'
  <2>1. asks[r].key \in Key
    BY <1>5 DEF ItemTypeInv, ItemLocated, Own!consumeItemOnce, Own!read
  <2>2. saves' = saves /\ clock' = clock /\ dropped' = dropped /\ spent' = spent
    BY <1>5 DEF Own!consumeItemOnce, Own!read
  <2>3. Own!Served(r) \/ served' = served
    BY <1>5 DEF Own!consumeItemOnce, Own!read
  <2> QED BY <1>2, <1>3, <2>1, <2>2, <2>3
<1>6. ASSUME NEW r \in Request, Own!Delete(r) PROVE Excused(k, d)'
  BY <1>3, <1>6 DEF Own!Delete
<1>11. ASSUME NEW r \in Request, Own!consumeUnheard(r) PROVE Excused(k, d)'
  BY <1>3, <1>11 DEF Own!consumeUnheard
<1>7. ASSUME NEW r \in Request, Own!Act(r) \/ Own!Abandon(r) PROVE Excused(k, d)'
  BY <1>3, <1>7 DEF Own!Act, Own!Abandon
<1>8. ASSUME NEW j \in Key, NEW r \in Request, Own!Lookup(r, j) PROVE Excused(k, d)'
  BY <1>3, <1>8 DEF Own!Lookup
<1>9. ASSUME NEW j \in Key, Own!Reap(j) PROVE Excused(k, d)'
  BY <1>3, <1>9 DEF Own!Reap
<1>10. ASSUME UNCHANGED Own!vars PROVE Excused(k, d)'
  BY <1>3, <1>10 DEF Own!vars
<1> QED
  BY <1>1, <1>4, <1>5, <1>6, <1>7, <1>8, <1>9, <1>10, <1>11 DEF Own!Next

(* An entry goes only for a reason.  *)
LEMMA GoneForAReason ==
  ASSUME ItemTypeInv, [Own!Next]_(Own!vars),
         NEW k \in Key, NEW d \in Nat, saves[k] > 0, StillThere(k, d)
  PROVE  Excused(k, d)' \/ StillThere(k, d)'
<1>a. /\ saves \in [Key -> Nat] /\ served \in [Key -> Nat] /\ item \in [Key -> Own!Item]
      /\ clock \in Nat /\ saves[k] \in Nat /\ served[k] \in Nat
  BY DEF ItemTypeInv, Own!TypeOK
<1>1. ASSUME NEW j \in Key, NEW life \in Lifetimes, Own!Save(j, life)
      PROVE  Excused(k, d)' \/ StillThere(k, d)'
  <2>1. CASE j = k
    <3>1. saves'[k] = saves[k] + 1
      BY <1>1, <1>a, <2>1 DEF Own!Save
    <3>2. saves'[k] > 1
      BY <3>1, <1>a
    <3> QED
      BY <3>2 DEF Excused
  <2>2. CASE j # k
    <3>1. item'[k] = item[k]
      BY <1>1, <1>a, <2>2 DEF Own!Save
    <3> QED
      BY <3>1 DEF StillThere, Own!Present
  <2> QED BY <2>1, <2>2
<1>2. ASSUME item' = item PROVE StillThere(k, d)'
  BY <1>2 DEF StillThere, Own!Present
<1>3. ASSUME NEW j \in Key, j # k, item' = [item EXCEPT ![j] = Own!NoItem]
      PROVE  StillThere(k, d)'
  <2>1. item'[k] = item[k]
    BY <1>3, <1>a
  <2> QED BY <2>1 DEF StillThere, Own!Present
<1>4. ASSUME NEW j \in Key, Own!Reap(j) PROVE Excused(k, d)' \/ StillThere(k, d)'
  <2>1. CASE j = k
    <3>1. item[k].exp = d /\ d # 0 /\ ~(d > clock) /\ clock' = clock
      BY <1>4, <2>1 DEF Own!Reap, Own!InTime, StillThere
    <3>2. d # 0 /\ clock' >= d
      BY <3>1, <1>a
    <3> QED
      BY <3>2 DEF Excused
  <2>2. CASE j # k
    BY <1>3, <1>4, <2>2 DEF Own!Reap
  <2> QED BY <2>1, <2>2
<1>5. ASSUME NEW r \in Request, Own!Delete(r) PROVE Excused(k, d)' \/ StillThere(k, d)'
  <2>1. asks[r].key \in Key
    BY <1>5 DEF ItemTypeInv, ItemLocated, Own!Delete
  <2>2. CASE asks[r].key = k
    <3>1. k \in dropped'
      BY <1>5, <2>2 DEF Own!Delete, StillThere
    <3> QED
      BY <3>1 DEF Excused
  <2>3. CASE asks[r].key # k
    BY <1>3, <1>5, <2>1, <2>3 DEF Own!Delete
  <2> QED BY <2>2, <2>3
<1>6. ASSUME NEW r \in Request, Own!consumeItemOnce(r) PROVE Excused(k, d)' \/ StillThere(k, d)'
  <2>1. asks[r].key \in Key /\ Own!SingleUse(asks[r].key)
    BY <1>6 DEF ItemTypeInv, ItemLocated, Own!consumeItemOnce
  <2>2. CASE Own!Served(r) /\ item' = [item EXCEPT ![asks[r].key] = Own!NoItem]
    <3>1. CASE asks[r].key = k
      <4>1. served'[k] = served[k] + 1
        BY <1>a, <2>2, <3>1 DEF Own!Served
      <4>2. served'[k] > 0
        BY <4>1, <1>a
      <4>3. Kind[k] # "stash"
        BY <2>1, <3>1 DEF Own!SingleUse
      <4> QED
        BY <4>2, <4>3 DEF Excused
    <3>2. CASE asks[r].key # k
      BY <1>3, <2>1, <2>2, <3>2
    <3> QED BY <3>1, <3>2
  <2>3. CASE item' = item
    BY <1>2, <2>3
  <2> QED
    BY <1>6, <2>2, <2>3 DEF Own!consumeItemOnce
<1>8. ASSUME NEW r \in Request, Own!consumeUnheard(r) PROVE Excused(k, d)' \/ StillThere(k, d)'
  <2>1. asks[r].key \in Key
    BY <1>8 DEF ItemTypeInv, ItemLocated, Own!consumeUnheard
  <2>2. CASE asks[r].key = k
    <3>1. k \in spent'
      BY <1>8, <2>2 DEF Own!consumeUnheard
    <3> QED
      BY <3>1 DEF Excused
  <2>3. CASE asks[r].key # k
    BY <1>3, <1>8, <2>1, <2>3 DEF Own!consumeUnheard
  <2> QED BY <2>2, <2>3
<1>7. ASSUME \/ \E r \in Request, j \in Key : Own!Lookup(r, j)
             \/ \E r \in Request : Own!read(r) \/ Own!Act(r) \/ Own!Abandon(r)
             \/ Own!Tick
             \/ UNCHANGED Own!vars
      PROVE  StillThere(k, d)'
  <2>1. item' = item
    BY <1>7 DEF Own!Lookup, Own!read, Own!Act, Own!Abandon, Own!Tick, Own!vars
  <2> QED BY <1>2, <2>1
<1> QED
  BY <1>1, <1>4, <1>5, <1>6, <1>7, <1>8 DEF Own!Next
(* What a step makes of a request: it is presented with a key, it is       *)
(* refused over an entry that is gone or past its deadline, or it keeps    *)
(* what it knows, and is not refused.                                      *)
Presented(r) ==
  \E k \in Key :
    /\ asks'[r].pc = "get" /\ asks'[r].key = k /\ asks'[r].answer = "none"
    /\ asks'[r].deadline = item[k].exp
    /\ asks'[r].known = "there" => Own!Present(k)
    /\ UNCHANGED <<item, clock, saves, served, dropped, spent>>

ItemKept(r) ==
  /\ asks'[r].key = asks[r].key /\ asks'[r].known = asks[r].known
  /\ asks'[r].deadline = asks[r].deadline
  /\ asks[r].pc # "idle" => asks'[r].pc # "idle"

Turned(r) ==
  /\ ItemKept(r)
  /\ ~(Own!Present(asks[r].key) /\ Own!InTime(asks[r].key))
  /\ UNCHANGED <<item, clock, saves, served, dropped, spent>>

LEMMA RequestSteps ==
  ASSUME ItemTypeInv, [Own!Next]_(Own!vars), NEW r \in Request
  PROVE  \/ Presented(r) \/ Turned(r)
         \/ ItemKept(r) /\ (asks'[r].answer \in {asks[r].answer, "served"})
<1>a. asks \in [Request -> Own!RequestState] /\ asks[r] \in Own!RequestState
  BY DEF ItemTypeInv, Own!TypeOK
<1> DEFINE Same == ItemKept(r) /\ (asks'[r].answer \in {asks[r].answer, "served"})
<1>1. ASSUME asks'[r] = asks[r] PROVE Same
  BY <1>1 DEF ItemKept
<1>2. ASSUME NEW q \in Request, q # r, NEW state, Own!Become(q, state) PROVE Same
  <2>1. asks'[r] = asks[r]
    BY <1>2, <1>a DEF Own!Become
  <2> QED BY <1>1, <2>1
<1>3. ASSUME NEW q \in Request, NEW k \in Key, Own!Lookup(q, k) PROVE Presented(r) \/ Same
  <2> DEFINE new == [pc |-> "get", key |-> k, answer |-> "none",
                     known |-> IF Own!Present(k) THEN "there" ELSE "absent",
                     deadline |-> item[k].exp]
  <2>1. Own!Become(q, new)
    BY <1>3 DEF Own!Lookup
  <2>2. CASE q = r
    <3>1. asks'[r] = new
      BY <1>a, <2>1, <2>2 DEF Own!Become
    <3>2. UNCHANGED <<item, clock, saves, served, dropped, spent>>
      BY <1>3 DEF Own!Lookup
    <3>3. /\ asks'[r].pc = "get" /\ asks'[r].key = k /\ asks'[r].answer = "none"
          /\ asks'[r].deadline = item[k].exp
          /\ asks'[r].known = "there" => Own!Present(k)
      BY <3>1
    <3> QED
      BY <3>2, <3>3 DEF Presented
  <2> HIDE DEF new
  <2>3. CASE q # r
    BY <1>2, <2>1, <2>3
  <2> QED BY <2>2, <2>3
<1>4. ASSUME NEW q \in Request, NEW a, Own!Answer(q, a), asks[q].pc # "idle"
      PROVE  ItemKept(r) /\ (q = r => asks'[r].answer = a) /\ (q # r => Same)
  <2> DEFINE new == [asks[q] EXCEPT !.pc = "done", !.answer = a]
  <2>1. Own!Become(q, new)
    BY <1>4 DEF Own!Answer
  <2>2. CASE q = r
    <3>1. asks'[r] = new
      BY <1>a, <2>1, <2>2 DEF Own!Become
    <3>2. /\ asks'[r].key = asks[r].key /\ asks'[r].known = asks[r].known
          /\ asks'[r].deadline = asks[r].deadline
          /\ asks'[r].pc = "done" /\ asks'[r].answer = a
      BY <1>a, <2>2, <3>1 DEF Own!RequestState
    <3> QED
      BY <2>2, <3>2 DEF ItemKept
  <2> HIDE DEF new
  <2>3. CASE q # r
    <3>1. Same
      BY <1>2, <2>1, <2>3
    <3> QED BY <2>3, <3>1
  <2> QED BY <2>2, <2>3
<1>5. ASSUME NEW q \in Request, Own!Served(q), asks[q].pc = "get" PROVE Same
  <2> DEFINE new == [asks[q] EXCEPT !.answer = "served",
                       !.pc = IF Kind[asks[q].key] = "code" THEN "done" ELSE "act"]
  <2>1. Own!Become(q, new)
    BY <1>5 DEF Own!Served
  <2>2. CASE q = r
    <3>1. asks'[r] = new
      BY <1>a, <2>1, <2>2 DEF Own!Become
    <3>2. /\ asks'[r].key = asks[r].key /\ asks'[r].known = asks[r].known
          /\ asks'[r].deadline = asks[r].deadline
          /\ asks'[r].pc \in {"done", "act"} /\ asks'[r].answer = "served"
      BY <1>a, <2>2, <3>1 DEF Own!RequestState
    <3> QED
      BY <3>2 DEF ItemKept
  <2> HIDE DEF new
  <2>3. CASE q # r
    BY <1>2, <2>1, <2>3
  <2> QED BY <2>2, <2>3
<1>6. ASSUME NEW q \in Request, Own!consumeItemOnce(q) \/ Own!read(q) PROVE Turned(r) \/ Same
  <2>1. asks[q].pc = "get"
    BY <1>6 DEF Own!consumeItemOnce, Own!read
  <2>2. CASE Own!Served(q)
    BY <1>5, <2>1, <2>2
  <2>3. CASE /\ Own!Answer(q, Own!Refused(asks[q].key))
             /\ ~(Own!Present(asks[q].key) /\ Own!InTime(asks[q].key))
             /\ UNCHANGED <<item, clock, saves, served, dropped, spent>>
    <3>1. ItemKept(r) /\ (q # r => Same)
      BY <1>4, <2>1, <2>3
    <3> QED
      BY <2>3, <3>1 DEF Turned
  <2> QED
    BY <1>6, <2>2, <2>3 DEF Own!consumeItemOnce, Own!read
<1>7. ASSUME NEW q \in Request, Own!Act(q) PROVE Same
  <2>1. asks[q].pc = "act"
    BY <1>7 DEF Own!Act
  <2>2. CASE Own!Become(q, [asks[q] EXCEPT !.pc = "delete"])
    <3> DEFINE new == [asks[q] EXCEPT !.pc = "delete"]
    <3>1. CASE q = r
      <4>1. asks'[r] = new
        BY <1>a, <2>2, <3>1 DEF Own!Become
      <4>2. /\ asks'[r].key = asks[r].key /\ asks'[r].known = asks[r].known
            /\ asks'[r].deadline = asks[r].deadline
            /\ asks'[r].pc = "delete" /\ asks'[r].answer = asks[r].answer
        BY <1>a, <3>1, <4>1 DEF Own!RequestState
      <4> QED
        BY <4>2 DEF ItemKept
    <3>2. CASE q # r
      BY <1>2, <2>2, <3>2
    <3> QED BY <3>1, <3>2
  <2>3. CASE Own!Answer(q, asks[q].answer)
    <3>1. ItemKept(r) /\ (q = r => asks'[r].answer = asks[q].answer) /\ (q # r => Same)
      BY <1>4, <2>1, <2>3
    <3> QED BY <3>1
  <2> QED
    BY <1>7, <2>2, <2>3 DEF Own!Act
<1>8. ASSUME NEW q \in Request, Own!Delete(q) \/ Own!Abandon(q) PROVE Same
  <2>1. asks[q].pc # "idle" /\ Own!Answer(q, asks[q].answer)
    BY <1>8 DEF Own!Delete, Own!Abandon
  <2>2. ItemKept(r) /\ (q = r => asks'[r].answer = asks[q].answer) /\ (q # r => Same)
    BY <1>4, <2>1
  <2> QED BY <2>2
<1>9. ASSUME \/ \E k \in Key : Own!Reap(k) \/ \E life \in Lifetimes : Own!Save(k, life)
             \/ \E q \in Request : Own!consumeUnheard(q)
             \/ Own!Tick
             \/ UNCHANGED Own!vars
      PROVE  Same
  <2>1. asks' = asks
    BY <1>9 DEF Own!Reap, Own!Save, Own!consumeUnheard, Own!Tick, Own!vars
  <2> QED BY <1>1, <2>1
<1> HIDE DEF Same
<1>10. Presented(r) \/ Turned(r) \/ Same
  BY <1>3, <1>6, <1>7, <1>8, <1>9 DEF Own!Next
<1> QED BY <1>10 DEF Same

(* No step forgets a save, or finds an entry nobody saved.  *)
LEMMA SavesStand ==
  ASSUME ItemTypeInv, [Own!Next]_(Own!vars), NEW k \in Key
  PROVE  /\ saves[k] > 0 => saves'[k] > 0
         /\ (Own!Present(k) => saves[k] > 0) => (Own!Present(k)' => saves'[k] > 0)
<1>a. saves \in [Key -> Nat] /\ item \in [Key -> Own!Item] /\ saves[k] \in Nat
  BY DEF ItemTypeInv, Own!TypeOK
<1>1. ASSUME NEW j \in Key, NEW life \in Lifetimes, Own!Save(j, life)
      PROVE  /\ saves[k] > 0 => saves'[k] > 0
             /\ (Own!Present(k) => saves[k] > 0) => (Own!Present(k)' => saves'[k] > 0)
  <2>1. CASE j = k
    <3>1. saves'[k] = saves[k] + 1
      BY <1>1, <1>a, <2>1 DEF Own!Save
    <3>2. saves'[k] > 0
      BY <3>1, <1>a
    <3> QED BY <3>2
  <2>2. CASE j # k
    <3>1. saves'[k] = saves[k] /\ item'[k] = item[k]
      BY <1>1, <1>a, <2>2 DEF Own!Save
    <3> QED BY <3>1 DEF Own!Present
  <2> QED BY <2>1, <2>2
<1>2. ASSUME saves' = saves,
             item' = item \/ \E j \in Key : item' = [item EXCEPT ![j] = Own!NoItem]
      PROVE  /\ saves[k] > 0 => saves'[k] > 0
             /\ (Own!Present(k) => saves[k] > 0) => (Own!Present(k)' => saves'[k] > 0)
  <2>1. Own!Present(k)' => Own!Present(k)
    BY <1>2, <1>a DEF Own!Present, Own!NoItem
  <2> QED BY <1>2, <2>1
<1>3. ASSUME NEW r \in Request, Own!Delete(r) \/ Own!consumeItemOnce(r)
                                \/ Own!consumeUnheard(r)
      PROVE  /\ saves' = saves
             /\ item' = item \/ \E j \in Key : item' = [item EXCEPT ![j] = Own!NoItem]
  <2>1. asks[r].key \in Key
    BY <1>3 DEF ItemTypeInv, ItemLocated, Own!Delete, Own!consumeItemOnce,
           Own!consumeUnheard
  <2> QED BY <1>3, <2>1 DEF Own!Delete, Own!consumeItemOnce,
           Own!consumeUnheard
<1>4. ASSUME \/ \E j \in Key : Own!Reap(j) \/ \E r \in Request : Own!Lookup(r, j)
             \/ \E r \in Request : Own!read(r) \/ Own!Act(r) \/ Own!Abandon(r)
             \/ Own!Tick
             \/ UNCHANGED Own!vars
      PROVE  /\ saves' = saves
             /\ item' = item \/ \E j \in Key : item' = [item EXCEPT ![j] = Own!NoItem]
  BY <1>4 DEF Own!Reap, Own!Lookup, Own!read, Own!Act, Own!Abandon, Own!Tick, Own!vars
<1> QED
  BY <1>1, <1>2, <1>3, <1>4 DEF Own!Next

LEMMA ExplainedInit == Own!Init => Explained
BY DEF Own!Init, Explained, Own!Present, Own!NoItem

LEMMA ExplainedStep ==
  ASSUME ItemTypeInv, Explained, [Own!Next]_(Own!vars)
  PROVE  Explained'
<1>1. ASSUME NEW k \in Key PROVE Own!Present(k)' => saves'[k] > 0
  BY <1>1, SavesStand DEF Explained
<1>2. ASSUME NEW r \in Request, asks'[r].known = "there"
      PROVE  /\ asks'[r].pc # "idle"
             /\ saves'[asks'[r].key] > 0
             /\ \/ Excused(asks[r].key, asks[r].deadline)'
                \/ /\ StillThere(asks[r].key, asks[r].deadline)'
                   /\ asks'[r].answer \notin {"notFound", "expired"}
  <2>1. CASE Presented(r)
    <3>1. PICK k \in Key :
            /\ asks'[r].pc = "get" /\ asks'[r].key = k /\ asks'[r].answer = "none"
            /\ asks'[r].deadline = item[k].exp
            /\ asks'[r].known = "there" => Own!Present(k)
            /\ UNCHANGED <<item, clock, saves, served, dropped, spent>>
      BY <2>1 DEF Presented
    <3>2. Own!Present(k) /\ saves[k] > 0
      BY <1>2, <3>1 DEF Explained
    <3>3. StillThere(asks[r].key, asks[r].deadline)'
      BY <3>1, <3>2 DEF StillThere, Own!Present
    <3> QED BY <3>1, <3>2, <3>3
  <2>b. PICK k, d : k = asks[r].key /\ d = asks[r].deadline
    OBVIOUS
  <2>a. ASSUME ItemKept(r)
        PROVE  /\ asks'[r].key = k /\ asks'[r].deadline = d /\ asks'[r].pc # "idle"
               /\ k \in Key /\ d \in Nat /\ saves[k] > 0 /\ saves'[k] > 0
               /\ \/ Excused(k, d)
                  \/ StillThere(k, d) /\ asks[r].answer \notin {"notFound", "expired"}
    <3>1. asks[r].known = "there" /\ asks'[r].key = k /\ asks'[r].deadline = d
      BY <1>2, <2>a, <2>b DEF ItemKept
    <3>2. /\ asks[r].pc # "idle" /\ saves[k] > 0
          /\ \/ Excused(k, d)
             \/ StillThere(k, d) /\ asks[r].answer \notin {"notFound", "expired"}
      BY <2>b, <3>1 DEF Explained
    <3>3. k \in Key /\ d \in Nat
      BY <2>b, <3>2 DEF ItemTypeInv, Own!TypeOK, ItemLocated, Own!RequestState
    <3>4. saves'[k] > 0 /\ asks'[r].pc # "idle"
      BY <2>a, <3>2, <3>3, SavesStand DEF ItemKept
    <3> QED BY <3>1, <3>2, <3>3, <3>4
  <2>2. CASE Turned(r)
    <3>1. ItemKept(r) /\ UNCHANGED <<item, clock, saves, served, dropped, spent>>
      BY <2>2 DEF Turned
    <3>2. CASE Excused(k, d)
      <4>1. Excused(k, d)'
        BY <3>1, <3>2 DEF Excused
      <4> QED BY <2>a, <3>1, <4>1
    <3>3. CASE StillThere(k, d)
      <4>1. item[k].exp # 0 /\ ~(item[k].exp > clock)
        BY <2>2, <2>b, <3>3 DEF Turned, StillThere, Own!InTime
      <4>2. d # 0 /\ clock' >= d
        <5>1. d \in Nat /\ clock \in Nat /\ clock' = clock
          BY <2>a, <3>1 DEF ItemTypeInv, Own!TypeOK
        <5> QED BY <3>3, <4>1, <5>1 DEF StillThere
      <4>3. Excused(k, d)'
        BY <4>2 DEF Excused
      <4> QED BY <2>a, <3>1, <4>3
    <3> QED BY <2>a, <3>1, <3>2, <3>3
  <2>3. CASE ItemKept(r) /\ asks'[r].answer \in {asks[r].answer, "served"}
    <3>1. CASE Excused(k, d)
      <4>1. Excused(k, d)'
        BY <2>a, <2>3, <3>1, ExcusesStand
      <4> QED BY <2>a, <2>3, <4>1
    <3>2. CASE StillThere(k, d) /\ asks[r].answer \notin {"notFound", "expired"}
      <4>1. Excused(k, d)' \/ StillThere(k, d)'
        BY <2>a, <2>3, <3>2, GoneForAReason
      <4>2. asks'[r].answer \notin {"notFound", "expired"}
        BY <2>3, <3>2
      <4> QED BY <2>a, <2>3, <4>1, <4>2
    <3> QED BY <2>a, <2>3, <3>1, <3>2
  <2> QED BY <2>1, <2>2, <2>3, RequestSteps
<1> QED BY <1>1, <1>2 DEF Explained

(* Nobody loses to nobody: whoever is refused an entry that was there when *)
(* its key was presented has another request, a deletion, the deadline, a  *)
(* later save or a call whose answer was lost to blame, for any requests   *)
(* at once and in either mode.                                             *)
THEOREM LossIsExplained == MCSpec => []LosersHaveAWinner
<1>1. Explained => LosersHaveAWinner
  BY DEF Explained, Excused, LosersHaveAWinner, Own!LosersHaveAWinner
<1>2. ItemTypeInv /\ Explained /\ [Own!Next]_(Own!vars) => Explained'
  BY ExplainedStep
<1> QED
  BY <1>1, <1>2, OwnRun, ExplainedInit, ItemsTypeInvariant, PTL DEF Own!Spec
-----------------------------------------------------------------------------
(* What the abstract secrets are made of.  *)
Out == [k \in Credentials |-> IF Own!Present(k) THEN "entry" ELSE "none"]
Tally(f) == [k \in Credentials |-> [x \in {"entry"} |-> f[k]]]

LEMMA CountUp ==
  ASSUME NEW f \in [Key -> Nat], NEW k \in Credentials
  PROVE  Tally([f EXCEPT ![k] = @ + 1]) = [Tally(f) EXCEPT ![k]["entry"] = @ + 1]
<1> DEFINE g == [f EXCEPT ![k] = @ + 1]
           Inner(j) == [x \in {"entry"} |-> g[j]]
<1>1. k \in Key /\ Credentials \subseteq Key
  BY DEF Credentials, Own!Credentials
<1>2. \A j \in Credentials : g[j] = IF j = k THEN f[j] + 1 ELSE f[j]
  BY <1>1
<1>3. [[x \in {"entry"} |-> f[k]] EXCEPT !["entry"] = @ + 1] = [x \in {"entry"} |-> f[k] + 1]
  OBVIOUS
<1> HIDE DEF g
<1>4. \A j \in Credentials :
        [x \in {"entry"} |-> g[j]] =
          IF j = k THEN [[x \in {"entry"} |-> f[k]] EXCEPT !["entry"] = @ + 1]
                   ELSE [x \in {"entry"} |-> f[j]]
  BY <1>2, <1>3
<1>5. Tally(g) = [Tally(f) EXCEPT ![k]["entry"] = @ + 1]
  BY <1>4 DEF Tally
<1> QED BY <1>5 DEF g

LEMMA CountElsewhere ==
  ASSUME NEW f \in [Key -> Nat], NEW k \in Key, k \notin Credentials
  PROVE  Tally([f EXCEPT ![k] = @ + 1]) = Tally(f)
<1>1. Credentials \subseteq Key
  BY DEF Credentials, Own!Credentials
<1>2. \A j \in Credentials : [f EXCEPT ![k] = @ + 1][j] = f[j]
  BY <1>1
<1> QED BY <1>2 DEF Tally

(* An item that is put, or removed, as the secret that stands for it.  *)
LEMMA OutAfter ==
  ASSUME ItemTypeInv, NEW k \in Key, NEW new, item' = [item EXCEPT ![k] = new]
  PROVE  /\ k \notin Credentials => Out' = Out
         /\ k \in Credentials =>
              Out' = [Out EXCEPT ![k] = IF new.state = "present" THEN "entry" ELSE "none"]
<1>1. item \in [Key -> Own!Item] /\ Credentials \subseteq Key
  BY DEF ItemTypeInv, Own!TypeOK, Credentials, Own!Credentials
<1>2. Credentials' = Credentials
  BY DEF Credentials, Own!Credentials
<1>3. \A j \in Credentials :
        Own!Present(j)' <=> IF j = k THEN new.state = "present" ELSE Own!Present(j)
  BY <1>1 DEF Own!Present
<1>4. Out' = [j \in Credentials |-> IF Own!Present(j)' THEN "entry" ELSE "none"]
  BY <1>2 DEF Out
<1> QED BY <1>3, <1>4 DEF Out

(* The kinds of step of the abstract secrets: one is issued, redeemed or   *)
(* voided, or none is touched.                                             *)
Issued(k) ==
  /\ Out' = [Out EXCEPT ![k] = "entry"]
  /\ Tally(saves)' = [Tally(saves) EXCEPT ![k]["entry"] = @ + 1]
  /\ Tally(served)' = Tally(served)

Redeemed(k) ==
  /\ Out[k] = "entry"
  /\ Out' = [Out EXCEPT ![k] = "none"]
  /\ Tally(served)' = [Tally(served) EXCEPT ![k]["entry"] = @ + 1]
  /\ Tally(saves)' = Tally(saves)

Voided(k) ==
  /\ Out' = [Out EXCEPT ![k] = "none"]
  /\ Tally(saves)' = Tally(saves) /\ Tally(served)' = Tally(served)

Untouched == Out' = Out /\ Tally(saves)' = Tally(saves) /\ Tally(served)' = Tally(served)

LEMMA ItemStepKinds ==
  ASSUME ItemTypeInv, [Own!Next]_(Own!vars)
  PROVE  \/ \E k \in Credentials : Issued(k) \/ Redeemed(k) \/ Voided(k)
         \/ Untouched
<1> DEFINE Goal == (\E k \in Credentials : Issued(k) \/ Redeemed(k) \/ Voided(k)) \/ Untouched
<1>a. saves \in [Key -> Nat] /\ served \in [Key -> Nat]
  BY DEF ItemTypeInv, Own!TypeOK
<1>b. ASSUME NEW f, f' = f PROVE Tally(f)' = Tally(f)
  BY <1>b DEF Tally, Credentials, Own!Credentials
<1>c. ASSUME item' = item PROVE Out' = Out
  BY <1>c DEF Out, Own!Present, Credentials, Own!Credentials
<1>1. ASSUME NEW k \in Key, NEW life \in Lifetimes, Own!Save(k, life) PROVE Goal
  <2> DEFINE new == [state |-> "present", exp |-> IF life = 0 THEN 0 ELSE clock + life]
  <2>1. item' = [item EXCEPT ![k] = new] /\ new.state = "present"
    BY <1>1 DEF Own!Save
  <2>2. saves' = [saves EXCEPT ![k] = @ + 1] /\ Tally(served)' = Tally(served)
    BY <1>1 DEF Own!Save, Tally, Credentials, Own!Credentials
  <2>3. Tally(saves)' = Tally([saves EXCEPT ![k] = @ + 1])
    BY <2>2 DEF Tally, Credentials, Own!Credentials
  <2> HIDE DEF new
  <2>4. CASE k \in Credentials
    <3>1. Out' = [Out EXCEPT ![k] = "entry"]
      BY <2>1, <2>4, OutAfter
    <3>2. Tally(saves)' = [Tally(saves) EXCEPT ![k]["entry"] = @ + 1]
      BY <1>a, <2>3, <2>4, CountUp
    <3> QED BY <2>2, <2>4, <3>1, <3>2 DEF Issued
  <2>5. CASE k \notin Credentials
    <3>1. Out' = Out
      BY <2>1, <2>5, OutAfter
    <3>2. Tally(saves)' = Tally(saves)
      BY <1>a, <2>3, <2>5, CountElsewhere
    <3> QED BY <2>2, <3>1, <3>2 DEF Untouched
  <2> QED BY <2>4, <2>5
<1>2. ASSUME NEW k \in Key, item' = [item EXCEPT ![k] = Own!NoItem],
             saves' = saves, served' = served
      PROVE  Goal
  <2>1. Own!NoItem.state # "present"
    BY DEF Own!NoItem
  <2>2. Tally(saves)' = Tally(saves) /\ Tally(served)' = Tally(served)
    BY <1>2 DEF Tally, Credentials, Own!Credentials
  <2>3. CASE k \in Credentials
    <3>1. Out' = [Out EXCEPT ![k] = "none"]
      BY <1>2, <2>1, <2>3, OutAfter
    <3> QED BY <2>2, <2>3, <3>1 DEF Voided
  <2>4. CASE k \notin Credentials
    <3>1. Out' = Out
      BY <1>2, <2>4, OutAfter
    <3> QED BY <2>2, <3>1 DEF Untouched
  <2> QED BY <2>3, <2>4
<1>3. ASSUME item' = item, saves' = saves, served' = served PROVE Goal
  BY <1>3 DEF Untouched, Out, Tally, Own!Present, Credentials, Own!Credentials
<1>4. ASSUME NEW r \in Request, Own!consumeItemOnce(r) PROVE Goal
  <2>1. asks[r].key \in Key /\ Own!SingleUse(asks[r].key) /\ saves' = saves
    BY <1>4 DEF ItemTypeInv, ItemLocated, Own!consumeItemOnce
  <2>2. asks[r].key \in Credentials
    BY <2>1 DEF Own!SingleUse, Credentials, Own!Credentials
  <2>3. CASE /\ Own!Present(asks[r].key)
             /\ item' = [item EXCEPT ![asks[r].key] = Own!NoItem]
             /\ Own!Served(r)
    <3>1. Out[asks[r].key] = "entry"
      BY <2>2, <2>3 DEF Out
    <3>2. Out' = [Out EXCEPT ![asks[r].key] = "none"]
      <4>1. PICK k \in Credentials : k = asks[r].key
        BY <2>2
      <4>2. k \in Key /\ item' = [item EXCEPT ![k] = Own!NoItem] /\ Own!NoItem.state # "present"
        BY <2>1, <2>3, <4>1 DEF Own!NoItem
      <4>3. Out' = [Out EXCEPT ![k] = "none"]
        BY <4>2, OutAfter
      <4> QED BY <4>1, <4>3
    <3>3. Tally(served)' = Tally([served EXCEPT ![asks[r].key] = @ + 1])
      BY <2>3 DEF Own!Served, Tally, Credentials, Own!Credentials
    <3>4. Tally(served)' = [Tally(served) EXCEPT ![asks[r].key]["entry"] = @ + 1]
      BY <1>a, <2>2, <3>3, CountUp
    <3>5. Tally(saves)' = Tally(saves)
      BY <2>1 DEF Tally, Credentials, Own!Credentials
    <3> QED BY <2>2, <3>1, <3>2, <3>4, <3>5 DEF Redeemed
  <2>4. CASE item' = item /\ served' = served
    BY <1>3, <2>1, <2>4
  <2> QED BY <1>4, <2>3, <2>4 DEF Own!consumeItemOnce
<1>5. ASSUME NEW r \in Request, Own!read(r) PROVE Goal
  <2>1. asks[r].key \in Key /\ ~Own!SingleUse(asks[r].key) /\ saves' = saves /\ item' = item
    BY <1>5 DEF ItemTypeInv, ItemLocated, Own!read
  <2>2. asks[r].key \notin Credentials
    BY <2>1 DEF Own!SingleUse, Credentials, Own!Credentials
  <2>3. CASE Own!Served(r)
    <3>1. Tally(served)' = Tally([served EXCEPT ![asks[r].key] = @ + 1])
      BY <2>3 DEF Own!Served, Tally, Credentials, Own!Credentials
    <3>2. Tally(served)' = Tally(served)
      BY <1>a, <2>1, <2>2, <3>1, CountElsewhere
    <3> QED BY <2>1, <3>2 DEF Untouched, Out, Own!Present, Tally, Credentials, Own!Credentials
  <2>4. CASE served' = served
    BY <1>3, <2>1, <2>4
  <2> QED BY <1>5, <2>3, <2>4 DEF Own!read
<1>6. ASSUME NEW r \in Request, Own!Delete(r) \/ Own!consumeUnheard(r) PROVE Goal
  <2>1. asks[r].key \in Key
    BY <1>6 DEF ItemTypeInv, ItemLocated, Own!Delete, Own!consumeUnheard
  <2> QED BY <1>2, <1>6, <2>1 DEF Own!Delete, Own!consumeUnheard
<1>7. ASSUME NEW k \in Key, Own!Reap(k) PROVE Goal
  BY <1>2, <1>7 DEF Own!Reap
<1>8. ASSUME \/ \E k \in Key, r \in Request : Own!Lookup(r, k)
             \/ \E r \in Request : Own!Act(r) \/ Own!Abandon(r)
             \/ Own!Tick
             \/ UNCHANGED Own!vars
      PROVE  Goal
  <2>1. item' = item /\ saves' = saves /\ served' = served
    BY <1>8 DEF Own!Lookup, Own!Act, Own!Abandon, Own!Tick, Own!vars
  <2> QED BY <1>3, <2>1
<1> HIDE DEF Goal
<1>9. Goal
  BY <1>1, <1>4, <1>5, <1>6, <1>7, <1>8 DEF Own!Next
<1> QED BY <1>9 DEF Goal

(* The items implement the one-time secret of OneTime.  *)
THEOREM ItemsRefinement == MCSpec => ItemsImplementOneTime
<1>1. Own!Init => Items!Init
  BY DEF Own!Init, Items!Init, Own!Present, Own!NoItem, Credentials, Own!Credentials
<1>2. ItemTypeInv /\ [Own!Next]_(Own!vars) => [Items!Next]_(Items!vars)
  <2> SUFFICES ASSUME ItemTypeInv, [Own!Next]_(Own!vars) PROVE [Items!Next]_(Items!vars)
    OBVIOUS
  <2>1. ASSUME NEW k \in Credentials, Issued(k) PROVE Items!Next
    <3>1. Items!Issue(k, "entry")
      BY <2>1 DEF Issued, Out, Tally, Items!Issue
    <3> QED BY <3>1 DEF Items!Next
  <2>2. ASSUME NEW k \in Credentials, Redeemed(k) PROVE Items!Next
    <3>1. Items!Redeem(k, "entry")
      BY <2>2 DEF Redeemed, Out, Tally, Items!Redeem
    <3> QED BY <3>1 DEF Items!Next
  <2>3. ASSUME NEW k \in Credentials, Voided(k) PROVE [Items!Next]_(Items!vars)
    <3>1. CASE Out[k] = "none"
      <4>1. Out' = Out
        BY <2>3, <3>1 DEF Voided, Out
      <4> QED BY <2>3, <4>1 DEF Voided, Out, Tally, Items!vars
    <3>2. CASE Out[k] # "none"
      <4>1. Items!Void(k)
        BY <2>3, <3>2 DEF Voided, Out, Tally, Items!Void
      <4> QED BY <4>1 DEF Items!Next
    <3> QED BY <3>1, <3>2
  <2>4. ASSUME Untouched PROVE UNCHANGED Items!vars
    BY <2>4 DEF Untouched, Out, Tally, Items!vars
  <2> QED BY <2>1, <2>2, <2>3, <2>4, ItemStepKinds
<1>3. [Items!Next]_(Items!vars) => [shape = "items" => Items!Next]_(Items!vars)
  OBVIOUS
<1> QED
  BY <1>1, <1>2, <1>3, OwnRun, ItemsTypeInvariant, PTL DEF Own!Spec, ItemsImplementOneTime
=============================================================================

--------------------------- MODULE SessionsProofs ---------------------------
(***************************************************************************)
(* Theorems about Sessions, for every set of sessions, hashes and requests.*)
(***************************************************************************)
EXTENDS Sessions, TLAPS

-----------------------------------------------------------------------------
(* Typing.  A request in flight presents a real token, and a session it    *)
(* has been led to is a session id: without this the reads an action makes *)
(* could fall outside the tables.                                          *)

SoundRequest ==
  {q \in RequestState :
     /\ q.pc # "idle" => q.hash \in Hash
     /\ q.pc \in {"session", "kill", "held"} => q.sid \in Sid
     /\ q.pc \in {"pointer", "session"} => q.op # "rotateSession"
     /\ q.answer = "ended" => q.pc = "done" /\ q.sid \in Sid}

TypeInv == TypeOK /\ req \in [Request -> SoundRequest]

LEMMA BecomeSound ==
  ASSUME req \in [Request -> SoundRequest], NEW r \in Request,
         NEW q \in SoundRequest, Become(r, q)
  PROVE  /\ req' \in [Request -> SoundRequest]
         /\ req' \in [Request -> RequestState]
BY DEF Become, SoundRequest

LEMMA AnswerSound ==
  ASSUME req \in [Request -> SoundRequest], NEW r \in Request,
         NEW a \in Answers, Answer(r, a), req[r].pc # "idle",
         a = "ended" => req[r].sid \in Sid
  PROVE  /\ req' \in [Request -> SoundRequest]
         /\ req' \in [Request -> RequestState]
<1>1. req[r] \in SoundRequest
  OBVIOUS
<1>2. [req[r] EXCEPT !.pc = "done", !.answer = a] \in SoundRequest
  BY <1>1 DEF SoundRequest, RequestState, Steps
<1>3. QED
  BY <1>2, BecomeSound DEF Answer

LEMMA RevokedType ==
  ASSUME NEW item \in SessionItem, NEW reason \in Reasons, NEW gen \in Nat
  PROVE  Revoked(item, reason, gen) \in SessionItem
BY DEF Revoked, SessionItem

LEMMA RotatedType ==
  ASSUME NEW item \in SessionItem, NEW new \in Hash, NEW exp \in Nat
  PROVE  Rotated(item, new, exp) \in SessionItem
<1>1. item.gen + 1 \in Nat
  BY DEF SessionItem
<1>2. QED
  BY <1>1 DEF Rotated, SessionItem

LEMMA LedSound ==
  ASSUME NEW q \in SoundRequest, q.pc \notin {"idle", "done"},
         q.op # "rotateSession", NEW s \in Sid, NEW gen \in Nat
  PROVE  [q EXCEPT !.pc = "session", !.sid = s, !.gen = gen] \in SoundRequest
<1> DEFINE n == [q EXCEPT !.pc = "session", !.sid = s, !.gen = gen]
<1>1. q \in RequestState /\ q.hash \in Hash /\ q.answer # "ended"
  BY DEF SoundRequest
<1>2. n \in RequestState
  BY <1>1 DEF RequestState, Steps
<1>3. /\ n.hash \in Hash /\ n.sid \in Sid /\ n.op # "rotateSession"
      /\ n.answer # "ended"
  BY <1>1 DEF RequestState
<1>4. QED
  BY <1>2, <1>3 DEF SoundRequest

LEMMA TypeInvInit == Init => TypeInv
  BY IdsAssumption DEF Init, TypeInv, TypeOK, SoundRequest, SessionItem,
     NoSessionItem, PointerItem, NoPointer, RequestState, Steps, Ops, Answers,
     Reasons

LEMMA TypeInvNext == TypeInv /\ [Next]_vars => TypeInv'
<1> SUFFICES ASSUME TypeInv, [Next]_vars PROVE TypeInv'
  OBVIOUS
<1> USE IdsAssumption, TimeAssumption DEF TypeInv, TypeOK
<1>a. \A r \in Request : req[r] \in SoundRequest /\ req[r] \in RequestState
  BY DEF SoundRequest
<1>1. ASSUME NEW s \in Sid, NEW h \in Hash, CreateSession(s, h) PROVE TypeInv'
  <2>1. session' \in [Sid -> SessionItem]
    BY <1>1 DEF CreateSession, SessionItem, firstGen
  <2>2. pointer' \in [Hash -> PointerItem]
    BY <1>1 DEF CreateSession, PointerItem, refreshPointer, firstGen
  <2>3. QED
    BY <1>1, <2>1, <2>2 DEF CreateSession
<1>2. ASSUME NEW r \in Request, NEW op \in Ops, NEW h \in Hash, Present(r, op, h)
      PROVE TypeInv'
  <2> DEFINE n == [req[r] EXCEPT !.pc = "pointer", !.op = op, !.hash = h,
                                 !.age = Age(h)]
  <2>0. /\ req[r].answer # "ended" /\ op # "rotateSession"
        /\ Age(h) \in {"current", "superseded"}
    BY <1>a, <1>2 DEF Present, SoundRequest, Age
  <2>1. n \in SoundRequest
    <3>1. n \in RequestState
      BY <1>a, <2>0 DEF RequestState, Steps
    <3>2. /\ n.pc = "pointer" /\ n.hash = h /\ n.op = op
          /\ n.answer = req[r].answer
      BY <1>a DEF RequestState
    <3>3. QED
      BY <2>0, <3>1, <3>2 DEF SoundRequest
  <2>2. QED
    BY <1>2, <2>1, BecomeSound DEF Present
<1>3. ASSUME NEW r \in Request, NEW h \in Hash, RotateSession(r, h) PROVE TypeInv'
  <2>1. owner[h] \in Sid
    BY <1>3 DEF RotateSession, Fresh
  <2> DEFINE n == [req[r] EXCEPT
                     !.pc = "held", !.op = "rotateSession", !.hash = h,
                     !.sid = owner[h], !.pinned = "hash", !.age = Age(h)]
  <2>2. n \in SoundRequest
    <3>1. n \in RequestState
      BY <1>a, <2>1 DEF RequestState, Steps, Ops, Age
    <3>2. /\ n.pc = "held" /\ n.hash = h /\ n.sid = owner[h]
          /\ n.answer = req[r].answer
      BY <1>a DEF RequestState
    <3>3. req[r].answer # "ended"
      BY <1>a, <1>3 DEF RotateSession, SoundRequest
    <3>4. QED
      BY <2>1, <3>1, <3>2, <3>3 DEF SoundRequest
  <2>3. QED
    BY <1>3, <2>2, BecomeSound DEF RotateSession
<1>4. ASSUME NEW r \in Request, ReadPointer(r) PROVE TypeInv'
  <2> DEFINE p == pointer[req[r].hash]
  <2>1. /\ req[r].pc \notin {"idle", "done"} /\ req[r].hash \in Hash
        /\ req[r].op # "rotateSession"
        /\ p.sid \in Sid \cup {NoSession} /\ p.gen \in Nat
    BY <1>a, <1>4 DEF ReadPointer, SoundRequest, PointerItem
  <2>2. CASE Answer(r, "notFound")
    BY <1>4, <2>1, <2>2, AnswerSound DEF ReadPointer, Answers
  <2>3. CASE /\ p.sid # NoSession
             /\ Become(r, [req[r] EXCEPT
                     !.pc = "session", !.sid = p.sid, !.gen = p.gen])
    <3>1. [req[r] EXCEPT !.pc = "session", !.sid = p.sid, !.gen = p.gen]
            \in SoundRequest
      BY <1>a, <2>1, <2>3, LedSound
    <3>2. QED
      BY <1>4, <2>3, <3>1, BecomeSound DEF ReadPointer
  <2>4. QED
    BY <1>4, <2>2, <2>3 DEF ReadPointer
<1>5. ASSUME NEW r \in Request, ReadSession(r) PROVE TypeInv'
  <2> DEFINE item == session[req[r].sid]
             next == [req[r] EXCEPT
                        !.pc = "held",
                        !.gen = IF r \in Scoped THEN item.gen ELSE 0,
                        !.pinned = IF r \in Scoped THEN "generation" ELSE "none"]
  <2>1. /\ req[r].pc \notin {"idle"} /\ req[r].sid \in Sid
        /\ item \in SessionItem /\ item.gen \in Nat
    BY <1>a, <1>5 DEF ReadSession, Replayed, SoundRequest, SessionItem
  <2>2. ASSUME NEW a \in {"notFound", "revoked", "expired"}, Answer(r, a)
        PROVE TypeInv'
    BY <1>5, <2>1, <2>2, AnswerSound DEF ReadSession, Replayed, Answers
  <2>3. CASE Become(r, [req[r] EXCEPT !.pc = "held"])
    <3>1. [req[r] EXCEPT !.pc = "held"] \in SoundRequest
      BY <1>a, <1>5, <2>1 DEF ReadSession, Replayed, SoundRequest, RequestState, Steps
    <3>2. QED
      BY <1>5, <2>3, <3>1, BecomeSound DEF ReadSession, Replayed
  <2>4. CASE Become(r, [req[r] EXCEPT !.pc = "kill"])
    <3>1. [req[r] EXCEPT !.pc = "kill"] \in SoundRequest
      BY <1>a, <1>5, <2>1 DEF ReadSession, Replayed, SoundRequest, RequestState, Steps
    <3>2. QED
      BY <1>5, <2>4, <3>1, BecomeSound DEF ReadSession, Replayed
  <2>5. CASE Become(r, next)
    <3>a. req[r].hash \in Hash /\ req[r].answer # "ended"
      BY <1>a, <1>5 DEF ReadSession, Replayed, SoundRequest
    <3>b. next \in RequestState
      BY <1>a, <2>1 DEF RequestState, Steps
    <3>c. /\ next.pc = "held" /\ next.hash = req[r].hash
          /\ next.sid = req[r].sid /\ next.answer = req[r].answer
      BY <1>a DEF RequestState
    <3>1. next \in SoundRequest
      BY <2>1, <3>a, <3>b, <3>c DEF SoundRequest
    <3>2. QED
      BY <1>5, <2>5, <3>1, BecomeSound DEF ReadSession, Replayed
  <2>6. QED
    BY <1>5, <2>2, <2>3, <2>4, <2>5 DEF ReadSession, Replayed
<1>6. ASSUME NEW r \in Request, revokeFamily(r) PROVE TypeInv'
  <2>1. req[r].pc # "idle" /\ req[r].sid \in Sid /\ req[r].gen \in Nat
    BY <1>a, <1>6 DEF revokeFamily, SoundRequest, RequestState
  <2>2. session' \in [Sid -> SessionItem]
    <3>1. Revoked(session[req[r].sid], "refresh_replay", req[r].gen) \in SessionItem
      BY <2>1, RevokedType DEF Reasons
    <3>2. QED
      BY <1>6, <2>1, <3>1 DEF revokeFamily
  <2>3. QED
    BY <1>6, <2>1, <2>2, AnswerSound DEF revokeFamily, Answers
<1>7. ASSUME NEW r \in Request, NEW new \in Hash, rotate(r, new) PROVE TypeInv'
  <2> DEFINE s == req[r].sid
             old == session[s]
  <2>1. /\ req[r].pc # "idle" /\ s \in Sid /\ req[r].gen \in Nat
        /\ req[r].hash \in Hash /\ old \in SessionItem
    BY <1>a, <1>7 DEF rotate, Rotating, SoundRequest, RequestState
  <2>2. Rotated(old, new, now + Life) \in SessionItem
    <3>1. now + Life \in Nat
      OBVIOUS
    <3>2. QED
      BY <2>1, <3>1, RotatedType
  <2>3. session' \in [Sid -> SessionItem]
    <3>1. session' = [session EXCEPT ![s] = Rotated(old, new, now + Life)]
      BY <1>7 DEF rotate
    <3>2. QED
      BY <2>1, <2>2, <3>1
  <2>4. pointer' \in [Hash -> PointerItem]
    <3>1. pointer' = [pointer EXCEPT ![new] =
            refreshPointer(s, req[r].gen + 1, now + Life)]
      BY <1>7 DEF rotate
    <3>2. refreshPointer(s, req[r].gen + 1, now + Life) \in PointerItem
      BY <2>1 DEF refreshPointer, PointerItem
    <3>3. QED
      BY <3>1, <3>2
  <2>5. /\ req' \in [Request -> SoundRequest]
        /\ req' \in [Request -> RequestState]
    BY <1>7, <2>1, AnswerSound DEF rotate, Answers
  <2>6. QED
    BY <1>7, <2>1, <2>3, <2>4, <2>5 DEF rotate
<1>8. ASSUME NEW r \in Request, classifyRotationLoss(r) PROVE TypeInv'
  <2>1. req[r].pc # "idle" /\ req[r].sid \in Sid
    BY <1>a, <1>8 DEF classifyRotationLoss, Rotating, SoundRequest
  <2>2. ASSUME NEW a \in {"notFound", "revoked"}, Answer(r, a) PROVE TypeInv'
    BY <1>8, <2>1, <2>2, AnswerSound DEF classifyRotationLoss, Answers
  <2>3. CASE Become(r, [req[r] EXCEPT !.pc = "kill"])
    <3>1. [req[r] EXCEPT !.pc = "kill"] \in SoundRequest
      BY <1>a, <1>8, <2>1 DEF classifyRotationLoss, Rotating, SoundRequest,
         RequestState, Steps
    <3>2. QED
      BY <1>8, <2>3, <3>1, BecomeSound DEF classifyRotationLoss
  <2>4. QED
    BY <1>8, <2>2, <2>3 DEF classifyRotationLoss
<1>9. ASSUME NEW r \in Request, revoke(r) PROVE TypeInv'
  <2>1. /\ req[r].pc # "idle" /\ req[r].sid \in Sid
        /\ session[req[r].sid].revokedGen \in Nat
    BY <1>a, <1>9 DEF revoke, SoundRequest, SessionItem
  <2>2. session' \in [Sid -> SessionItem]
    <3>1. Revoked(session[req[r].sid], "logout", session[req[r].sid].revokedGen)
            \in SessionItem
      BY <2>1, RevokedType DEF Reasons
    <3>2. QED
      BY <1>9, <2>1, <3>1 DEF revoke
  <2>3. QED
    BY <1>9, <2>1, <2>2, AnswerSound DEF revoke, Answers
<1>10. ASSUME NEW s \in Sid, RevokeSessionByID(s) PROVE TypeInv'
  <2>1. Revoked(session[s], "admin_revoke", session[s].revokedGen) \in SessionItem
    BY RevokedType DEF Reasons, SessionItem
  <2>2. QED
    BY <1>10, <2>1 DEF RevokeSessionByID
<1>11. ASSUME NEW s \in Sid, DeleteSession(s) \/ ReapSession(s) PROVE TypeInv'
  BY <1>11 DEF DeleteSession, ReapSession, NoSessionItem, SessionItem
<1>12. ASSUME NEW h \in Hash, ReapPointer(h) PROVE TypeInv'
  BY <1>12 DEF ReapPointer, NoPointer, PointerItem
<1>13. ASSUME NEW r \in Request, Abandon(r) PROVE TypeInv'
  BY <1>13, AnswerSound DEF Abandon, Answers
<1>14. CASE Tick
  BY <1>14 DEF Tick
<1>15. CASE UNCHANGED vars
  BY <1>15 DEF vars
<1>16. QED
  BY <1>1, <1>2, <1>3, <1>4, <1>5, <1>6, <1>7, <1>8, <1>9, <1>10, <1>11, <1>12,
     <1>13, <1>14, <1>15 DEF Next, Serve

(* Every item and every request stays in its type. *)
THEOREM TypeCorrect == Spec => []TypeOK
<1>1. TypeInv => TypeOK
  BY DEF TypeInv
<1>2. QED
  BY <1>1, TypeInvInit, TypeInvNext, PTL DEF Spec

-----------------------------------------------------------------------------
(* Every step does one of six things to the items and the ledger of tokens,*)
(* whatever it does to the requests.                                       *)

Ends(s) ==
  /\ Live(s)
  /\ \E reason \in Reasons, gen \in Nat :
       session' = [session EXCEPT ![s] = Revoked(session[s], reason, gen)]
  /\ UNCHANGED <<pointer, now, owner, exchanged>>

Removes(s) ==
  /\ session' = [session EXCEPT ![s] = NoSessionItem]
  /\ UNCHANGED <<pointer, now, owner, exchanged>>

Keeps ==
  /\ UNCHANGED <<session, pointer, owner, exchanged>>
  /\ now' \in {now, now + 1}

LEMMA StoreStep ==
  ASSUME TypeInv, [Next]_vars
  PROVE  \/ \E s \in Sid, h \in Hash : CreateSession(s, h)
         \/ \E r \in Request, new \in Hash : rotate(r, new)
         \/ \E s \in Sid : Ends(s)
         \/ \E s \in Sid : Removes(s)
         \/ \E h \in Hash : ReapPointer(h)
         \/ Keeps
<1>1. ASSUME NEW r \in Request, revokeFamily(r)
      PROVE  Keeps \/ \E s \in Sid : Ends(s)
  <2>1. req[r] \in SoundRequest /\ req[r].sid \in Sid /\ req[r].gen \in Nat
    BY <1>1 DEF TypeInv, revokeFamily, SoundRequest, RequestState
  <2>2. "refresh_replay" \in Reasons
    BY DEF Reasons
  <2>3. QED
    BY <1>1, <2>1, <2>2 DEF revokeFamily, Ends, Keeps
<1>2. ASSUME NEW r \in Request, revoke(r)
      PROVE  Keeps \/ \E s \in Sid : Ends(s)
  <2>1. req[r] \in SoundRequest /\ req[r].sid \in Sid
    BY <1>2 DEF TypeInv, revoke, SoundRequest
  <2>2. session[req[r].sid].revokedGen \in Nat /\ "logout" \in Reasons
    BY <2>1 DEF TypeInv, TypeOK, SessionItem, Reasons
  <2>3. QED
    BY <1>2, <2>1, <2>2 DEF revoke, Ends, Keeps
<1>3. ASSUME NEW s \in Sid, RevokeSessionByID(s) PROVE Ends(s)
  <2>1. session[s].revokedGen \in Nat /\ "admin_revoke" \in Reasons
    BY DEF TypeInv, TypeOK, SessionItem, Reasons
  <2>2. QED
    BY <1>3, <2>1 DEF RevokeSessionByID, Ends
<1>4. ASSUME NEW s \in Sid, DeleteSession(s) \/ ReapSession(s) PROVE Removes(s)
  BY <1>4 DEF DeleteSession, ReapSession, Removes
<1>5. ASSUME NEW r \in Request,
             \/ ReadPointer(r)
             \/ ReadSession(r)
             \/ classifyRotationLoss(r)
             \/ Abandon(r)
             \/ \E h \in Hash : RotateSession(r, h)
             \/ \E op \in Ops, h \in Hash : Present(r, op, h)
      PROVE  Keeps
  BY <1>5 DEF ReadPointer, ReadSession, Replayed, classifyRotationLoss, Abandon,
     RotateSession, Present, Keeps
<1>6. Tick \/ UNCHANGED vars => Keeps
  BY DEF Tick, vars, Keeps
<1>7. QED
  BY <1>1, <1>2, <1>3, <1>4, <1>5, <1>6 DEF Next, Serve

LEMMA RevokedFields ==
  ASSUME NEW item \in SessionItem, NEW reason, NEW gen
  PROVE  /\ Revoked(item, reason, gen).state = "revoked"
         /\ Revoked(item, reason, gen).hash = item.hash
BY DEF Revoked, SessionItem

(* Every step moves at most one request; a request takes up a minted token *)
(* once and keeps it, and is led to a session by its token's pointer only. *)

Takes(q) ==
  /\ req[q].pc = "idle"
  /\ req'[q].pc # "idle"
  /\ owner[req'[q].hash] # NoSession
  /\ req'[q].sid \in {req[q].sid, owner[req'[q].hash]}
  /\ req'[q].answer = req[q].answer

Proceeds(q) ==
  /\ req[q].pc \notin {"idle", "done"}
  /\ req'[q].pc # "idle"
  /\ req'[q].hash = req[q].hash
  /\ req'[q].sid \in {req[q].sid, pointer[req[q].hash].sid}
  /\ req'[q].answer = "ended" =>
       req'[q].sid = req[q].sid /\ session'[req[q].sid].state # "live"

LEMMA BecomeAt ==
  ASSUME req \in [Request -> RequestState], NEW r \in Request, NEW st, Become(r, st)
  PROVE  /\ req'[r] = st
         /\ \A q \in Request : q # r => req'[q] = req[q]
BY DEF Become

LEMMA AnswerAt ==
  ASSUME req \in [Request -> RequestState], NEW r \in Request, NEW a, Answer(r, a)
  PROVE  /\ req'[r].pc = "done" /\ req'[r].answer = a
         /\ req'[r].hash = req[r].hash /\ req'[r].sid = req[r].sid
         /\ req'[r].op = req[r].op
         /\ \A q \in Request : q # r => req'[q] = req[q]
<1>1. req[r] \in RequestState
  OBVIOUS
<1>2. req'[r] = [req[r] EXCEPT !.pc = "done", !.answer = a]
  BY BecomeAt DEF Answer
<1>3. \A q \in Request : q # r => req'[q] = req[q]
  BY BecomeAt DEF Answer
<1>4. QED
  BY <1>1, <1>2, <1>3 DEF RequestState

LEMMA RequestStep ==
  ASSUME TypeInv, [Next]_vars, NEW q \in Request
  PROVE  req'[q] = req[q] \/ Takes(q) \/ Proceeds(q)
<1>a. /\ req \in [Request -> RequestState]
      /\ \A r \in Request : req[r] \in RequestState /\ req[r] \in SoundRequest
  BY DEF TypeInv, TypeOK
<1>b. \A r \in Request : req[r].answer = "ended" => req[r].pc = "done"
  BY <1>a DEF SoundRequest
<1> DEFINE Goal == req'[q] = req[q] \/ Takes(q) \/ Proceeds(q)
<1>1. ASSUME NEW r \in Request, NEW a, Answer(r, a), a # "ended",
             req[r].pc \notin {"idle", "done"}
      PROVE  Goal
  BY <1>1, <1>a, AnswerAt DEF Proceeds
<1>2. ASSUME NEW r \in Request, NEW op \in Ops, NEW h \in Hash, Present(r, op, h)
      PROVE  Goal
  <2> DEFINE st == [req[r] EXCEPT !.pc = "pointer", !.op = op, !.hash = h,
                                  !.age = Age(h)]
  <2>1. /\ req'[r] = st
        /\ \A x \in Request : x # r => req'[x] = req[x]
    BY <1>2, <1>a, BecomeAt DEF Present
  <2>2. /\ st.pc = "pointer" /\ st.hash = h /\ st.sid = req[r].sid
        /\ st.answer = req[r].answer
    BY <1>a DEF RequestState
  <2>3. QED
    BY <1>2, <2>1, <2>2 DEF Present, Fresh, Takes
<1>3. ASSUME NEW r \in Request, NEW h \in Hash, RotateSession(r, h) PROVE Goal
  <2> DEFINE st == [req[r] EXCEPT
                      !.pc = "held", !.op = "rotateSession", !.hash = h,
                      !.sid = owner[h], !.pinned = "hash", !.age = Age(h)]
  <2>1. /\ req'[r] = st
        /\ \A x \in Request : x # r => req'[x] = req[x]
    BY <1>3, <1>a, BecomeAt DEF RotateSession
  <2>2. /\ st.pc = "held" /\ st.hash = h /\ st.sid = owner[h]
        /\ st.answer = req[r].answer
    BY <1>a DEF RequestState
  <2>3. QED
    BY <1>3, <2>1, <2>2 DEF RotateSession, Fresh, Takes
<1>4. ASSUME NEW r \in Request, ReadPointer(r) PROVE Goal
  <2> DEFINE p == pointer[req[r].hash]
             st == [req[r] EXCEPT !.pc = "session", !.sid = p.sid, !.gen = p.gen]
  <2>1. CASE Become(r, st)
    <3>1. req'[r] = st /\ \A x \in Request : x # r => req'[x] = req[x]
      BY <2>1, <1>a, BecomeAt
    <3>2. /\ st.pc = "session" /\ st.hash = req[r].hash /\ st.sid = p.sid
          /\ st.answer = req[r].answer
      BY <1>a DEF RequestState
    <3>3. req[r].pc = "pointer" /\ req[r].answer # "ended"
      BY <1>b, <1>4 DEF ReadPointer
    <3> HIDE DEF st
    <3>4. QED
      BY <3>1, <3>2, <3>3 DEF Proceeds
  <2>2. QED
    BY <1>1, <1>4, <2>1 DEF ReadPointer
<1>5. ASSUME NEW r \in Request, ReadSession(r) PROVE Goal
  <2> DEFINE item == session[req[r].sid]
             next == [req[r] EXCEPT
                        !.pc = "held",
                        !.gen = IF r \in Scoped THEN item.gen ELSE 0,
                        !.pinned = IF r \in Scoped THEN "generation" ELSE "none"]
  <2>1. ASSUME NEW st \in {[req[r] EXCEPT !.pc = "held"],
                           [req[r] EXCEPT !.pc = "kill"], next},
               Become(r, st)
        PROVE Goal
    <3>1. req'[r] = st /\ \A x \in Request : x # r => req'[x] = req[x]
      BY <2>1, <1>a, BecomeAt
    <3>2. /\ st.pc # "idle" /\ st.hash = req[r].hash /\ st.sid = req[r].sid
          /\ st.answer = req[r].answer
      BY <1>a DEF RequestState
    <3>3. QED
      BY <1>b, <1>5, <3>1, <3>2 DEF ReadSession, Replayed, Proceeds
  <2>2. QED
    BY <1>1, <1>5, <2>1 DEF ReadSession, Replayed
<1>6. ASSUME NEW r \in Request, classifyRotationLoss(r) PROVE Goal
  <2>1. CASE Become(r, [req[r] EXCEPT !.pc = "kill"])
    <3> DEFINE st == [req[r] EXCEPT !.pc = "kill"]
    <3>1. req'[r] = st /\ \A x \in Request : x # r => req'[x] = req[x]
      BY <2>1, <1>a, BecomeAt
    <3>2. /\ st.pc # "idle" /\ st.hash = req[r].hash /\ st.sid = req[r].sid
          /\ st.answer = req[r].answer
      BY <1>a DEF RequestState
    <3>3. QED
      BY <1>b, <1>6, <3>1, <3>2 DEF classifyRotationLoss, Rotating, Proceeds
  <2>2. QED
    BY <1>1, <1>6, <2>1 DEF classifyRotationLoss, Rotating
<1>7. ASSUME NEW r \in Request,
             \/ revokeFamily(r)
             \/ \E new \in Hash : rotate(r, new)
             \/ Abandon(r)
      PROVE  Goal
  BY <1>1, <1>7 DEF revokeFamily, rotate, Rotating, Abandon
<1>8. ASSUME NEW r \in Request, revoke(r) PROVE Goal
  <2>1. session'[req[r].sid].state # "live"
    <3>1. req[r].sid \in Sid /\ session \in [Sid -> SessionItem]
      BY <1>a, <1>8 DEF revoke, SoundRequest, TypeInv, TypeOK
    <3>2. QED
      BY <1>8, <3>1, RevokedFields DEF revoke, Live
  <2>2. PICK a \in Answers : Answer(r, a)
    BY <1>8 DEF revoke, Answers
  <2>3. /\ req'[r].pc = "done"
        /\ req'[r].hash = req[r].hash /\ req'[r].sid = req[r].sid
        /\ \A x \in Request : x # r => req'[x] = req[x]
    BY <1>a, <2>2, AnswerAt
  <2>4. QED
    BY <1>8, <2>1, <2>3 DEF revoke, Proceeds
<1>9. ASSUME req' = req PROVE Goal
  BY <1>9
<1>10. QED
  BY <1>2, <1>3, <1>4, <1>5, <1>6, <1>7, <1>8,
     <1>9
     DEF Next, Serve, CreateSession, RevokeSessionByID, DeleteSession,
         ReapSession, ReapPointer, Tick, vars

-----------------------------------------------------------------------------
(* The ledger of minted tokens agrees with the items: a pointer names the  *)
(* session its token was minted for, an unminted token has bought nothing, *)
(* and an item's hash is a token minted for it.                            *)

Ledger ==
  /\ \A h \in Hash : pointer[h].sid \in {NoSession, owner[h]}
  /\ \A h \in Hash : owner[h] = NoSession => exchanged[h] = 0
  /\ \A s \in Sid : session[s].state # "absent" =>
       session[s].hash \in Hash /\ owner[session[s].hash] = s
  /\ \A r \in Request : req[r].pc # "idle" => owner[req[r].hash] # NoSession
  /\ \A r \in Request : req[r].sid # NoSession => Opened(req[r].sid)

LEMMA RotatedFields ==
  ASSUME NEW item \in SessionItem, NEW new, NEW exp
  PROVE  /\ Rotated(item, new, exp).state = item.state
         /\ Rotated(item, new, exp).hash = new
         /\ Rotated(item, new, exp).exp = exp
BY DEF Rotated, SessionItem

(* What a rotation reads and writes, in terms of its request. *)
LEMMA RotateEffect ==
  ASSUME TypeInv, NEW r \in Request, NEW new \in Hash, rotate(r, new)
  PROVE  /\ req[r].sid \in Sid
         /\ req[r].hash \in Hash
         /\ session[req[r].sid] \in SessionItem
         /\ session[req[r].sid].state = "live"
         /\ owner[new] = NoSession
         /\ session' = [session EXCEPT ![req[r].sid] =
              Rotated(session[req[r].sid], new, now + Life)]
         /\ pointer' = [pointer EXCEPT ![new] =
              refreshPointer(req[r].sid, req[r].gen + 1, now + Life)]
         /\ owner' = [owner EXCEPT ![new] = req[r].sid]
         /\ exchanged' = [exchanged EXCEPT ![req[r].hash] = @ + 1]
         /\ now' = now
<1>1. req[r] \in SoundRequest
  BY DEF TypeInv
<1>2. req[r].pc = "held"
  BY DEF rotate, Rotating
<1>3. req[r].sid \in Sid /\ req[r].hash \in Hash
  BY <1>1, <1>2 DEF SoundRequest
<1>4. session[req[r].sid] \in SessionItem
  BY <1>3 DEF TypeInv, TypeOK
<1>5. QED
  BY <1>3, <1>4 DEF rotate, RotationCondition, Live, Fresh

LEMMA LedgerInit == Init => Ledger
  BY DEF Init, Ledger, NoPointer, NoSessionItem

(* A token, once minted, stays with its session. *)
LEMMA OwnerKept ==
  ASSUME TypeInv, [Next]_vars
  PROVE  \A h \in Hash : owner[h] # NoSession => owner'[h] = owner[h]
<1>a. owner \in [Hash -> Sid \cup {NoSession}]
  BY DEF TypeInv, TypeOK
<1>1. ASSUME NEW s \in Sid, NEW h \in Hash, CreateSession(s, h)
      PROVE  \A g \in Hash : owner[g] # NoSession => owner'[g] = owner[g]
  BY <1>a, <1>1 DEF CreateSession, Fresh
<1>2. ASSUME NEW r \in Request, NEW new \in Hash, rotate(r, new)
      PROVE  \A g \in Hash : owner[g] # NoSession => owner'[g] = owner[g]
  BY <1>a, <1>2 DEF rotate, Fresh
<1>3. QED
  BY <1>1, <1>2, StoreStep DEF Ends, Removes, ReapPointer, Keeps

LEMMA LedgerNext ==
  ASSUME TypeInv, Ledger, [Next]_vars
  PROVE  Ledger'
<1> USE IdsAssumption
<1>a. /\ session \in [Sid -> SessionItem]
      /\ pointer \in [Hash -> PointerItem]
      /\ owner \in [Hash -> Sid \cup {NoSession}]
      /\ exchanged \in [Hash -> Nat]
      /\ req \in [Request -> SoundRequest]
  BY DEF TypeInv, TypeOK
<1> DEFINE Items ==
      /\ \A h \in Hash : pointer'[h].sid \in {NoSession, owner'[h]}
      /\ \A h \in Hash : owner'[h] = NoSession => exchanged'[h] = 0
      /\ \A s \in Sid : session'[s].state # "absent" =>
           session'[s].hash \in Hash /\ owner'[session'[s].hash] = s
<1>1. ASSUME NEW s \in Sid, NEW h \in Hash, CreateSession(s, h) PROVE Items
  BY <1>a, <1>1 DEF CreateSession, Fresh, Ledger, refreshPointer
<1>2. ASSUME NEW r \in Request, NEW new \in Hash, rotate(r, new) PROVE Items
  <2> DEFINE s == req[r].sid
  <2>1. s \in Sid /\ session[s].state = "live" /\ owner[new] = NoSession
    BY <1>2, RotateEffect
  <2>2. \A t \in Sid : t # s => session'[t] = session[t]
    BY <1>2, <1>a, RotateEffect
  <2>3. session'[s].hash = new
    BY <1>2, <1>a, <2>1, RotateEffect, RotatedFields
  <2>4. owner' = [owner EXCEPT ![new] = s]
    BY <1>2, RotateEffect
  <2>5. /\ req[r].hash \in Hash /\ owner[req[r].hash] # NoSession
        /\ exchanged' = [exchanged EXCEPT ![req[r].hash] = @ + 1]
    BY <1>2, RotateEffect DEF rotate, Rotating, Ledger
  <2>6. \A h \in Hash : pointer'[h].sid \in {NoSession, owner'[h]}
    BY <1>2, <1>a, <2>1, <2>4, RotateEffect DEF refreshPointer, Ledger
  <2>7. \A h \in Hash : owner'[h] = NoSession => exchanged'[h] = 0
    BY <1>a, <2>1, <2>4, <2>5 DEF Ledger
  <2>8. \A t \in Sid : session'[t].state # "absent" =>
          session'[t].hash \in Hash /\ owner'[session'[t].hash] = t
    BY <1>a, <2>1, <2>2, <2>3, <2>4 DEF Ledger
  <2>9. QED
    BY <2>6, <2>7, <2>8
<1>3. ASSUME NEW s \in Sid, Ends(s) PROVE Items
  BY <1>a, <1>3, RevokedFields DEF Ends, Live, Ledger
<1>4. ASSUME NEW s \in Sid, Removes(s) PROVE Items
  BY <1>a, <1>4 DEF Removes, NoSessionItem, Ledger
<1>5. ASSUME NEW h \in Hash, ReapPointer(h) PROVE Items
  BY <1>a, <1>5 DEF ReapPointer, NoPointer, Ledger
<1>6. ASSUME Keeps PROVE Items
  <2>1. session' = session /\ pointer' = pointer /\ owner' = owner
        /\ exchanged' = exchanged
    BY <1>6 DEF Keeps
  <2>2. QED
    BY <2>1 DEF Ledger
<1>7. Items
  <2> HIDE DEF Items
  <2> QED
  BY <1>1, <1>2, <1>3, <1>4, <1>5, <1>6, StoreStep
<1>8. ASSUME NEW r \in Request, req'[r].pc # "idle"
      PROVE  owner'[req'[r].hash] # NoSession
  <2>1. req'[r] \in SoundRequest
    BY TypeInvNext DEF TypeInv
  <2>2. req'[r].hash \in Hash
    BY <1>8, <2>1 DEF SoundRequest
  <2>3. owner[req'[r].hash] # NoSession
    BY <1>8, RequestStep DEF Takes, Proceeds, Ledger
  <2>4. QED
    BY <2>2, <2>3, OwnerKept
<1>9. ASSUME NEW r \in Request, req'[r].sid # NoSession
      PROVE  \E h \in Hash : owner'[h] = req'[r].sid
  <2>1. req'[r].pc # "idle" => req'[r].hash \in Hash
    BY TypeInvNext DEF TypeInv, SoundRequest
  <2>2. \E h \in Hash : owner[h] = req'[r].sid
    <3>1. CASE req'[r] = req[r]
      BY <1>9, <3>1 DEF Ledger, Opened
    <3>2. CASE Takes(r)
      BY <1>9, <3>2, <2>1 DEF Takes, Ledger, Opened
    <3>3. CASE Proceeds(r)
      BY <1>9, <3>3, <2>1 DEF Proceeds, Ledger, Opened
    <3>4. QED
      BY <3>1, <3>2, <3>3, RequestStep
  <2>3. QED
    BY <1>9, <2>2, OwnerKept
<1>10. QED
  BY <1>7, <1>8, <1>9 DEF Ledger, Opened

StoreInv == TypeInv /\ Ledger

LEMMA StoreInvariant == Spec => []StoreInv
<1>1. Init => StoreInv
  BY TypeInvInit, LedgerInit DEF StoreInv
<1>2. StoreInv /\ [Next]_vars => StoreInv'
  BY TypeInvNext, LedgerNext DEF StoreInv
<1>3. QED
  BY <1>1, <1>2, PTL DEF Spec

-----------------------------------------------------------------------------
(* Revocation is final: no step changes a revoked item except to remove    *)
(* it, so the reason and the generation of the first revocation stand, and *)
(* no rotation in flight moves its hash.                                   *)
THEOREM RevocationStands == Spec => RevocationIsFinal
<1>1. ASSUME StoreInv, [Next]_vars, NEW s \in Sid, session[s].state = "revoked"
      PROVE  session'[s] \in {session[s], NoSessionItem}
  <2>a. session \in [Sid -> SessionItem] /\ TypeInv
    BY <1>1 DEF StoreInv, TypeInv, TypeOK
  <2>1. ASSUME NEW t \in Sid, NEW h \in Hash, CreateSession(t, h)
        PROVE  session'[s] = session[s]
    <3>1. t # s
      BY <1>1, <2>1 DEF CreateSession, StoreInv, Ledger
    <3>2. QED
      BY <2>a, <2>1, <3>1 DEF CreateSession
  <2>2. ASSUME NEW r \in Request, NEW new \in Hash, rotate(r, new)
        PROVE  session'[s] = session[s]
    <3>1. req[r].sid # s
      BY <1>1, <2>a, <2>2, RotateEffect
    <3>2. QED
      BY <2>a, <2>2, <3>1, RotateEffect
  <2>3. ASSUME NEW t \in Sid, Ends(t) PROVE session'[s] = session[s]
    BY <1>1, <2>a, <2>3 DEF Ends, Live
  <2>4. ASSUME NEW t \in Sid, Removes(t)
        PROVE  session'[s] \in {session[s], NoSessionItem}
    BY <2>a, <2>4 DEF Removes
  <2>5. (\E h \in Hash : ReapPointer(h)) \/ Keeps => session' = session
    BY DEF ReapPointer, Keeps
  <2>6. QED
    BY <1>1, <2>a, <2>1, <2>2, <2>3, <2>4, <2>5, StoreStep
<1>2. StoreInv /\ [Next]_vars =>
        [\A s \in Sid : session[s].state = "revoked" =>
           session'[s] \in {session[s], NoSessionItem}]_vars
  BY <1>1
<1>3. QED
  BY <1>2, StoreInvariant, PTL DEF Spec, RevocationIsFinal

-----------------------------------------------------------------------------
(* A logout that has been answered sticks.  Only a login makes a session   *)
(* live, and a login never takes an id that has been handed a token.       *)

LEMMA LiveKept ==
  ASSUME StoreInv, [Next]_vars, NEW s \in Sid, Opened(s), ~Live(s)
  PROVE  ~Live(s)'
<1>a. session \in [Sid -> SessionItem] /\ TypeInv
  BY DEF StoreInv, TypeInv, TypeOK
<1>1. ASSUME NEW t \in Sid, NEW h \in Hash, CreateSession(t, h)
      PROVE  session'[s] = session[s]
  <2>1. t # s
    BY <1>1 DEF CreateSession, Opened
  <2>2. QED
    BY <1>a, <1>1, <2>1 DEF CreateSession
<1>2. ASSUME NEW r \in Request, NEW new \in Hash, rotate(r, new)
      PROVE  session'[s] = session[s]
  <2>1. req[r].sid # s
    BY <1>a, <1>2, RotateEffect DEF Live
  <2>2. QED
    BY <1>a, <1>2, <2>1, RotateEffect
<1>3. ASSUME NEW t \in Sid, Ends(t) PROVE session'[s].state # "live"
  BY <1>a, <1>3, RevokedFields DEF Ends, Live
<1>4. ASSUME NEW t \in Sid, Removes(t) PROVE session'[s].state # "live"
  BY <1>a, <1>4 DEF Removes, NoSessionItem, Live
<1>5. (\E h \in Hash : ReapPointer(h)) \/ Keeps => session' = session
  BY DEF ReapPointer, Keeps
<1>6. QED
  BY <1>a, <1>1, <1>2, <1>3, <1>4, <1>5, StoreStep DEF Live

LogoutInv == StoreInv /\ LogoutSticks

(* A session whose logout was answered yields nothing more, whatever       *)
(* refresh was in flight: the rotation's condition loses to it.            *)
THEOREM LogoutIsFinal == Spec => []LogoutSticks
<1>1. Init => LogoutSticks
  BY DEF Init, LogoutSticks
<1>2. ASSUME LogoutInv, [Next]_vars, NEW r \in Request, req'[r].answer = "ended"
      PROVE  ~Live(req[r].sid)' /\ req'[r].sid = req[r].sid
  <2>a. StoreInv /\ TypeInv /\ Ledger /\ req[r] \in SoundRequest
    BY <1>2 DEF LogoutInv, StoreInv, TypeInv
  <2>1. CASE req[r].answer = "ended"
    <3>1. req[r].sid \in Sid /\ req[r].pc = "done" /\ Opened(req[r].sid)
      BY <2>a, <2>1, IdsAssumption DEF SoundRequest, Ledger
    <3>2. ~Live(req[r].sid)
      BY <1>2, <2>1 DEF LogoutInv, LogoutSticks
    <3>3. req'[r] = req[r]
      BY <1>2, <2>a, <3>1, RequestStep DEF Takes, Proceeds
    <3>4. QED
      BY <1>2, <2>a, <3>1, <3>2, <3>3, LiveKept
  <2>2. CASE req[r].answer # "ended"
    BY <1>2, <2>a, <2>2, RequestStep DEF Takes, Proceeds, Live
  <2>3. QED
    BY <2>1, <2>2
<1>3. LogoutInv /\ [Next]_vars => LogoutSticks'
  BY <1>2 DEF LogoutSticks, Live
<1>4. QED
  BY <1>1, <1>3, StoreInvariant, PTL DEF Spec, LogoutInv

-----------------------------------------------------------------------------
(* Whoever is turned away at the session leaves it not live: it was gone   *)
(* or revoked when it was read, or the request has revoked it itself.      *)
Turned(q, st) ==
  /\ q.answer # "none" => q.pc = "done"
  /\ q.pc \in {"idle", "pointer"} => q.sid = NoSession
  /\ q.answer \in {"notFound", "revoked"} /\ q.sid # NoSession =>
       st[q.sid].state # "live"

TurnedAway == \A r \in Request : Turned(req[r], session)

LEMMA TurnedStep ==
  ASSUME StoreInv, TurnedAway, [Next]_vars, NEW q \in Request
  PROVE  req'[q] = req[q] \/ Turned(req'[q], session')
<1>a. /\ req \in [Request -> RequestState]
      /\ session \in [Sid -> SessionItem]
      /\ \A r \in Request : /\ req[r] \in RequestState /\ req[r] \in SoundRequest
                            /\ Turned(req[r], session)
  BY DEF StoreInv, TypeInv, TypeOK, TurnedAway
<1> DEFINE Goal == req'[q] = req[q] \/ Turned(req'[q], session')
<1>1. ASSUME NEW r \in Request, NEW st, Become(r, st),
             st.answer = req[r].answer, st.pc \notin {"idle", "pointer"},
             req[r].pc \notin {"idle", "done"}
      PROVE  Goal
  <2>1. req'[r] = st /\ \A x \in Request : x # r => req'[x] = req[x]
    BY <1>1, <1>a, BecomeAt
  <2>2. req[r].answer = "none"
    BY <1>1, <1>a DEF Turned
  <2>3. Turned(st, session')
    BY <1>1, <2>2 DEF Turned
  <2> QED BY <2>1, <2>3
<1>2. ASSUME NEW r \in Request, NEW a, Answer(r, a),
             a \in {"notFound", "revoked"} /\ req[r].sid # NoSession =>
               session'[req[r].sid].state # "live"
      PROVE  Goal
  <2>1. /\ req'[r].pc = "done" /\ req'[r].answer = a /\ req'[r].sid = req[r].sid
        /\ \A x \in Request : x # r => req'[x] = req[x]
    BY <1>2, <1>a, AnswerAt
  <2>2. Turned(req'[r], session')
    BY <1>2, <2>1 DEF Turned
  <2> QED BY <2>1, <2>2
<1>3. ASSUME NEW r \in Request, NEW op \in Ops, NEW h \in Hash, Present(r, op, h)
      PROVE  Goal
  <2> DEFINE st == [req[r] EXCEPT !.pc = "pointer", !.op = op, !.hash = h,
                                  !.age = Age(h)]
  <2>1. req'[r] = st /\ \A x \in Request : x # r => req'[x] = req[x]
    BY <1>3, <1>a, BecomeAt DEF Present
  <2>2. st.pc = "pointer" /\ st.sid = req[r].sid /\ st.answer = req[r].answer
    BY <1>a DEF RequestState
  <2>3. req[r].pc = "idle" /\ req[r].sid = NoSession /\ req[r].answer = "none"
    BY <1>3, <1>a DEF Present, Turned
  <2>4. Turned(st, session')
    BY <2>2, <2>3 DEF Turned
  <2> QED BY <2>1, <2>4
<1>4. ASSUME NEW r \in Request, NEW h \in Hash, RotateSession(r, h) PROVE Goal
  <2> DEFINE st == [req[r] EXCEPT
                      !.pc = "held", !.op = "rotateSession", !.hash = h,
                      !.sid = owner[h], !.pinned = "hash", !.age = Age(h)]
  <2>1. req'[r] = st /\ \A x \in Request : x # r => req'[x] = req[x]
    BY <1>4, <1>a, BecomeAt DEF RotateSession
  <2>2. st.pc = "held" /\ st.answer = req[r].answer
    BY <1>a DEF RequestState
  <2>3. req[r].answer = "none"
    BY <1>4, <1>a DEF RotateSession, Turned
  <2>4. Turned(st, session')
    BY <2>2, <2>3 DEF Turned
  <2> QED BY <2>1, <2>4
<1>5. ASSUME NEW r \in Request, ReadPointer(r) PROVE Goal
  <2> DEFINE p == pointer[req[r].hash]
             st == [req[r] EXCEPT !.pc = "session", !.sid = p.sid, !.gen = p.gen]
  <2>1. req[r].pc = "pointer" /\ req[r].sid = NoSession
    BY <1>5, <1>a DEF ReadPointer, Turned
  <2>2. CASE Answer(r, "notFound")
    BY <1>2, <2>1, <2>2
  <2>3. CASE Become(r, st)
    <3>1. st.pc = "session" /\ st.answer = req[r].answer
      BY <1>a DEF RequestState
    <3> HIDE DEF st
    <3> QED BY <1>1, <2>1, <2>3, <3>1
  <2> QED BY <1>5, <2>2, <2>3 DEF ReadPointer
<1>6. ASSUME NEW r \in Request, ReadSession(r) PROVE Goal
  <2> DEFINE item == session[req[r].sid]
             next == [req[r] EXCEPT
                        !.pc = "held",
                        !.gen = IF r \in Scoped THEN item.gen ELSE 0,
                        !.pinned = IF r \in Scoped THEN "generation" ELSE "none"]
  <2>1. req[r].pc = "session" /\ session' = session
    BY <1>6 DEF ReadSession
  <2>2. ASSUME NEW st \in {[req[r] EXCEPT !.pc = "held"],
                           [req[r] EXCEPT !.pc = "kill"], next},
               Become(r, st)
        PROVE  Goal
    <3>1. st.pc \in {"held", "kill"} /\ st.answer = req[r].answer
      BY <1>a DEF RequestState
    <3> QED BY <1>1, <2>1, <2>2, <3>1
  <2>3. CASE item.state # "live" /\ \E a \in Answers : Answer(r, a)
    BY <1>2, <2>1, <2>3
  <2>4. CASE Answer(r, "expired")
    BY <1>2, <2>4
  <2> HIDE DEF Goal
  <2> QED BY <1>6, <2>2, <2>3, <2>4 DEF ReadSession, Replayed, Answers
<1>7. ASSUME NEW r \in Request, revokeFamily(r) PROVE Goal
  <2>1. req[r].sid \in Sid
    BY <1>7, <1>a DEF revokeFamily, SoundRequest
  <2>2. session'[req[r].sid].state # "live"
    BY <1>7, <1>a, <2>1, RevokedFields DEF revokeFamily, Live
  <2> QED BY <1>2, <1>7, <2>2 DEF revokeFamily
<1>8. ASSUME NEW r \in Request, classifyRotationLoss(r) PROVE Goal
  <2>1. req[r].pc = "held" /\ session' = session
    BY <1>8 DEF classifyRotationLoss, Rotating
  <2>2. CASE Become(r, [req[r] EXCEPT !.pc = "kill"])
    <3> DEFINE st == [req[r] EXCEPT !.pc = "kill"]
    <3>1. st.pc = "kill" /\ st.answer = req[r].answer
      BY <1>a DEF RequestState
    <3>2. Become(r, st)
      BY <2>2
    <3> HIDE DEF st
    <3> QED BY <1>1, <2>1, <3>1, <3>2
  <2>3. CASE session[req[r].sid].state # "live" /\ \E a \in Answers : Answer(r, a)
    BY <1>2, <2>1, <2>3
  <2> HIDE DEF Goal
  <2> QED BY <1>8, <2>2, <2>3 DEF classifyRotationLoss, Answers
<1>9. ASSUME NEW r \in Request, revoke(r) PROVE Goal
  <2>1. req[r].sid \in Sid
    BY <1>9, <1>a DEF revoke, SoundRequest
  <2>2. session'[req[r].sid].state # "live"
    BY <1>9, <1>a, <2>1, RevokedFields DEF revoke, Live
  <2>3. PICK a \in Answers : Answer(r, a)
    BY <1>9 DEF revoke, Answers
  <2> QED BY <1>2, <2>2, <2>3
<1>10. ASSUME NEW r \in Request, (\E new \in Hash : rotate(r, new)) \/ Abandon(r)
       PROVE  Goal
  BY <1>2, <1>10 DEF rotate, Abandon
<1>11. ASSUME req' = req PROVE Goal
  BY <1>11
<1> HIDE DEF Goal
<1>12. Goal
  BY <1>3, <1>4, <1>5, <1>6, <1>7, <1>8, <1>9, <1>10, <1>11
     DEF Next, Serve, CreateSession, RevokeSessionByID, DeleteSession,
         ReapSession, ReapPointer, Tick, vars
<1> QED BY <1>12 DEF Goal

LEMMA TurnedAwayNext ==
  ASSUME StoreInv, TurnedAway, [Next]_vars
  PROVE  TurnedAway'
<1> SUFFICES ASSUME NEW r \in Request PROVE Turned(req'[r], session')
  BY DEF TurnedAway
<1>1. CASE req'[r] = req[r]
  <2>1. Turned(req[r], session) /\ Ledger /\ req[r] \in RequestState
    BY DEF TurnedAway, StoreInv, TypeInv, TypeOK
  <2>2. ASSUME req[r].sid # NoSession, session[req[r].sid].state # "live"
        PROVE  session'[req[r].sid].state # "live"
    <3>1. PICK s \in Sid : s = req[r].sid
      BY <2>1, <2>2 DEF RequestState
    <3>2. Opened(s) /\ ~Live(s)
      BY <2>1, <2>2, <3>1 DEF Ledger, Live
    <3>3. ~Live(s)'
      BY <3>2, LiveKept
    <3> QED BY <3>1, <3>3 DEF Live
  <2> QED BY <1>1, <2>1, <2>2 DEF Turned
<1>2. CASE req'[r] # req[r]
  BY <1>2, TurnedStep
<1> QED BY <1>1, <1>2

(* A race for a token does not go unanswered, scoped or not: the request   *)
(* that is turned away at the session, as one that has lost the race is,   *)
(* leaves behind a session that is no longer live, and none becomes live   *)
(* again.                                                                  *)
THEOREM ReuseEndsTheFamily == Spec => []ReuseIsAnswered
<1>1. Init => TurnedAway
  BY DEF Init, TurnedAway, Turned
<1>2. StoreInv /\ TurnedAway /\ [Next]_vars => TurnedAway'
  BY TurnedAwayNext
<1>3. TurnedAway => ReuseIsAnswered
  BY DEF TurnedAway, Turned, ReuseIsAnswered, Live
<1>4. QED
  BY <1>1, <1>2, <1>3, StoreInvariant, PTL DEF Spec

-----------------------------------------------------------------------------
(* One winner per token, when every request carries a rotation scope.  A   *)
(* rotation is then always pinned on the hash it read, the hash of a live  *)
(* session has bought nothing yet, and a fresh token has bought nothing.   *)

Unspent ==
  \A s \in Sid : Live(s) => exchanged[session[s].hash] = 0

Pinned == \A r \in Request : Rotating(r) => req[r].pinned # "none"

WinnerInv == StoreInv /\ Unspent /\ Pinned /\ OneWinnerPerToken

LEMMA PinnedNext ==
  ASSUME StoreInv, Pinned, Scoped = Request, [Next]_vars
  PROVE  Pinned'
<1>a. /\ req \in [Request -> RequestState]
      /\ \A r \in Request : req[r] \in RequestState /\ req[r] \in SoundRequest
  BY DEF StoreInv, TypeInv, TypeOK
<1> DEFINE Rot(q) == q.pc = "held" /\ q.op \in {"refresh", "rotateSession"}
           Goal == \A q \in Request : Rot(req'[q]) => req'[q].pinned # "none"
<1>1. ASSUME NEW r \in Request, NEW st, Become(r, st), st.pc # "held" PROVE Goal
  BY <1>1, <1>a, BecomeAt DEF Pinned, Rotating
<1>2. ASSUME NEW r \in Request, NEW a, Answer(r, a) PROVE Goal
  BY <1>2, <1>a, AnswerAt DEF Pinned, Rotating
<1>3. ASSUME NEW r \in Request, NEW op \in Ops, NEW h \in Hash, Present(r, op, h)
      PROVE  Goal
  <2>1. [req[r] EXCEPT !.pc = "pointer", !.op = op, !.hash = h,
                       !.age = Age(h)].pc # "held"
    BY <1>a DEF RequestState
  <2>2. QED
    BY <1>1, <1>3, <2>1 DEF Present
<1>4. ASSUME NEW r \in Request, NEW h \in Hash, RotateSession(r, h) PROVE Goal
  <2> DEFINE st == [req[r] EXCEPT
                      !.pc = "held", !.op = "rotateSession", !.hash = h,
                      !.sid = owner[h], !.pinned = "hash", !.age = Age(h)]
  <2>1. st.pinned = "hash"
    BY <1>a DEF RequestState
  <2>2. Become(r, st)
    BY <1>4 DEF RotateSession
  <2> HIDE DEF st
  <2>3. QED
    BY <1>a, <2>1, <2>2, BecomeAt DEF Pinned, Rotating
<1>5. ASSUME NEW r \in Request, ReadPointer(r) PROVE Goal
  <2> DEFINE p == pointer[req[r].hash]
             st == [req[r] EXCEPT !.pc = "session", !.sid = p.sid, !.gen = p.gen]
  <2>1. st.pc # "held"
    BY <1>a DEF RequestState
  <2>2. QED
    BY <1>1, <1>2, <1>5, <2>1 DEF ReadPointer
<1>6. ASSUME NEW r \in Request, ReadSession(r) PROVE Goal
  <2> DEFINE item == session[req[r].sid]
             next == [req[r] EXCEPT
                        !.pc = "held",
                        !.gen = IF r \in Scoped THEN item.gen ELSE 0,
                        !.pinned = IF r \in Scoped THEN "generation" ELSE "none"]
             again == [req[r] EXCEPT !.pc = "held"]
  <2>1. CASE Become(r, again) /\ req[r].op # "refresh"
    <3>1. again.op = req[r].op /\ req[r].op # "rotateSession"
      BY <1>a, <1>6 DEF RequestState, SoundRequest, ReadSession
    <3> HIDE DEF again
    <3>2. QED
      BY <1>a, <2>1, <3>1, BecomeAt DEF Pinned, Rotating
  <2>2. CASE Become(r, [req[r] EXCEPT !.pc = "kill"])
    <3>1. [req[r] EXCEPT !.pc = "kill"].pc # "held"
      BY <1>a DEF RequestState
    <3>2. QED
      BY <1>1, <2>2, <3>1
  <2>3. CASE Become(r, next)
    <3>1. next.pinned = "generation"
      BY <1>a DEF RequestState
    <3> HIDE DEF next
    <3>2. QED
      BY <1>a, <2>3, <3>1, BecomeAt DEF Pinned, Rotating
  <2>4. QED
    BY <1>2, <1>6, <2>1, <2>2, <2>3 DEF ReadSession, Replayed
<1>7. ASSUME NEW r \in Request, classifyRotationLoss(r) PROVE Goal
  <2>1. [req[r] EXCEPT !.pc = "kill"].pc # "held"
    BY <1>a DEF RequestState
  <2>2. QED
    BY <1>1, <1>2, <1>7, <2>1 DEF classifyRotationLoss
<1>8. ASSUME NEW r \in Request,
             \/ revokeFamily(r)
             \/ \E new \in Hash : rotate(r, new)
             \/ revoke(r)
             \/ Abandon(r)
      PROVE  Goal
  BY <1>2, <1>8 DEF revokeFamily, rotate, revoke, Abandon
<1>9. ASSUME req' = req PROVE Goal
  BY <1>9 DEF Pinned, Rotating
<1>10. Goal
  <2> HIDE DEF Goal
  <2>1. QED
    BY <1>3, <1>4, <1>5, <1>6, <1>7, <1>8, <1>9
       DEF Next, Serve, CreateSession, RevokeSessionByID, DeleteSession,
           ReapSession, ReapPointer, Tick, vars
<1>11. QED
  BY <1>10 DEF Pinned, Rotating

LEMMA WinnerNext ==
  ASSUME WinnerInv, [Next]_vars
  PROVE  Unspent' /\ OneWinnerPerToken'
<1>a. /\ session \in [Sid -> SessionItem]
      /\ owner \in [Hash -> Sid \cup {NoSession}]
      /\ exchanged \in [Hash -> Nat]
      /\ TypeInv /\ Ledger
  BY DEF WinnerInv, StoreInv, TypeInv, TypeOK
<1> DEFINE Goal == /\ \A s \in Sid : session'[s].state = "live" =>
                        exchanged'[session'[s].hash] = 0
                   /\ \A h \in Hash : exchanged'[h] <= 1
<1>1. ASSUME NEW s \in Sid, NEW h \in Hash, CreateSession(s, h) PROVE Goal
  BY <1>a, <1>1 DEF CreateSession, Fresh, Ledger, WinnerInv, Unspent, Live,
     OneWinnerPerToken
<1>2. ASSUME NEW r \in Request, NEW new \in Hash, rotate(r, new) PROVE Goal
  <2> DEFINE s == req[r].sid
             old == req[r].hash
  <2>1. /\ s \in Sid /\ old \in Hash /\ session[s].state = "live"
        /\ owner[new] = NoSession
        /\ exchanged' = [exchanged EXCEPT ![old] = @ + 1]
    BY <1>2, <1>a, RotateEffect
  <2>2. session[s].hash = old
    BY <1>2 DEF rotate, RotationCondition, WinnerInv, Pinned
  <2>3. exchanged[old] = 0 /\ owner[old] = s
    BY <1>a, <2>1, <2>2 DEF WinnerInv, Unspent, Live, Ledger
  <2>4. \A t \in Sid : t # s => session'[t] = session[t]
    BY <1>2, <1>a, RotateEffect
  <2>5. session'[s].hash = new
    BY <1>2, <1>a, <2>1, RotateEffect, RotatedFields
  <2>6. exchanged[new] = 0 /\ new # old
    BY <1>a, <2>1, <2>3, IdsAssumption DEF Ledger
  <2>7. \A h \in Hash : exchanged'[h] <= 1
    BY <1>a, <2>1, <2>3 DEF WinnerInv, OneWinnerPerToken
  <2>8. ASSUME NEW t \in Sid, session'[t].state = "live"
        PROVE  exchanged'[session'[t].hash] = 0
    <3>1. CASE t = s
      BY <1>a, <2>1, <2>5, <2>6, <3>1
    <3>2. CASE t # s
      <4>1. session[t].state = "live" /\ session'[t].hash = session[t].hash
        BY <2>4, <2>8, <3>2
      <4>2. /\ session[t].hash \in Hash /\ owner[session[t].hash] = t
            /\ exchanged[session[t].hash] = 0
        BY <1>a, <4>1 DEF Ledger, WinnerInv, Unspent, Live
      <4>3. session[t].hash # old
        BY <2>3, <3>2, <4>2
      <4>4. QED
        BY <1>a, <2>1, <4>1, <4>2, <4>3
    <3>3. QED
      BY <3>1, <3>2
  <2>9. QED
    BY <2>7, <2>8
<1>3. ASSUME NEW s \in Sid, Ends(s) PROVE Goal
  BY <1>a, <1>3, RevokedFields DEF Ends, WinnerInv, Unspent, Live,
     OneWinnerPerToken
<1>4. ASSUME NEW s \in Sid, Removes(s) PROVE Goal
  BY <1>a, <1>4 DEF Removes, NoSessionItem, WinnerInv, Unspent, Live,
     OneWinnerPerToken
<1>5. ASSUME session' = session, exchanged' = exchanged PROVE Goal
  BY <1>5 DEF WinnerInv, Unspent, Live, OneWinnerPerToken
<1>6. (\E h \in Hash : ReapPointer(h)) \/ Keeps =>
        session' = session /\ exchanged' = exchanged
  BY DEF ReapPointer, Keeps
<1>7. Goal
  <2> HIDE DEF Goal
  <2>1. QED
    BY <1>a, <1>1, <1>2, <1>3, <1>4, <1>5, <1>6, StoreStep
<1>8. QED
  BY <1>7 DEF Unspent, Live, OneWinnerPerToken

(* However many requests present a token at once, it buys one rotation.    *)
(* The assumption is the one the HTTP layer's middleware discharges: every *)
(* request's context carries a rotation scope.                             *)
THEOREM RotationHasOneWinner ==
  ASSUME Scoped = Request
  PROVE  Spec => []OneWinnerPerToken
<1>1. Init => Unspent /\ Pinned /\ OneWinnerPerToken
  BY DEF Init, Unspent, Pinned, OneWinnerPerToken, Live, NoSessionItem, Rotating
<1>2. WinnerInv /\ [Next]_vars => (Unspent /\ Pinned /\ OneWinnerPerToken)'
  BY WinnerNext, PinnedNext DEF WinnerInv
<1>3. QED
  BY <1>1, <1>2, StoreInvariant, PTL DEF Spec, WinnerInv
-----------------------------------------------------------------------------
(* A family dies as replayed only if one of its tokens was presented twice,*)
(* when every request carries a rotation scope.  A token that is no longer *)
(* the current one of a live session was exchanged by a request that won;  *)
(* a request that is to kill the family holds such a token, and has not    *)
(* won; so two requests have presented it.                                 *)
OwnToken == \A r \in Request : req[r].sid # NoSession => owner[req[r].hash] = req[r].sid

Won(h) == \E r \in Request : req[r].answer = "won" /\ req[r].hash = h

WonIfPast ==
  \A h \in Hash, s \in Sid :
    owner[h] = s /\ Live(s) /\ session[s].hash # h => Won(h)

Counted ==
  /\ \A r \in Request : req[r].pc # "idle" => shown[req[r].hash] >= 1
  /\ \A r1, r2 \in Request :
       r1 # r2 /\ req[r1].pc # "idle" /\ req[r2].pc # "idle"
       /\ req[r1].hash = req[r2].hash => shown[req[r1].hash] >= 2

(* A pinned generation is that of the token, as long as it is current.     *)
Agrees(q, st) ==
  q.pc = "held" /\ q.pinned = "generation" /\ st[q.sid].state = "live"
  /\ st[q.sid].hash = q.hash => st[q.sid].gen = q.gen

Agreeing == \A r \in Request : Agrees(req[r], session)

Witnessed == \A r \in Request : req[r].pc = "kill" => shown[req[r].hash] >= 2

CauseInv ==
  /\ WinnerInv /\ TurnedAway /\ OwnToken /\ WonIfPast /\ Counted
  /\ Agreeing /\ Witnessed /\ FamilyDiesOnlyForReuse

LEMMA OwnTokenNext ==
  ASSUME StoreInv, TurnedAway, OwnToken, [Next]_vars
  PROVE  OwnToken'
<1> SUFFICES ASSUME NEW r \in Request, req'[r].sid # NoSession
             PROVE  owner'[req'[r].hash] = req'[r].sid
  BY DEF OwnToken
<1>a. TypeInv /\ Ledger /\ Turned(req[r], session) /\ req[r] \in SoundRequest
  BY DEF StoreInv, TypeInv, TurnedAway
<1>b. req'[r] \in SoundRequest
  BY <1>a, TypeInvNext DEF TypeInv
<1>1. owner[req'[r].hash] = req'[r].sid /\ req'[r].pc # "idle"
  <2>0. req[r].pc = "idle" => req[r].sid = NoSession
    BY <1>a DEF Turned
  <2>1. CASE req'[r] = req[r]
    BY <2>0, <2>1 DEF OwnToken
  <2>2. CASE Takes(r)
    BY <2>0, <2>2 DEF Takes
  <2>3. CASE Proceeds(r)
    <3>1. req[r].hash \in Hash /\ req'[r].hash = req[r].hash /\ req'[r].pc # "idle"
      BY <1>a, <2>3 DEF Proceeds, SoundRequest
    <3>2. pointer[req[r].hash].sid \in {NoSession, owner[req[r].hash]}
      BY <1>a, <3>1 DEF Ledger
    <3> QED BY <2>3, <3>1, <3>2 DEF Proceeds, OwnToken
  <2> QED BY <1>a, <2>1, <2>2, <2>3, RequestStep
<1>2. req'[r].hash \in Hash
  BY <1>1, <1>b DEF SoundRequest
<1> QED BY <1>a, <1>1, <1>2, OwnerKept

LEMMA ShownStep ==
  ASSUME StoreInv, [Next]_vars
  PROVE  \/ shown' = shown /\ \A q \in Request : req[q].pc = "idle" => req'[q] = req[q]
         \/ \E r \in Request, h \in Hash :
              /\ req'[r].hash = h /\ shown' = [shown EXCEPT ![h] = @ + 1]
              /\ req[r].pc = "idle"
              /\ \A q \in Request : q # r => req'[q] = req[q]
<1>a. /\ req \in [Request -> RequestState]
      /\ \A r \in Request : req[r] \in RequestState
  BY DEF StoreInv, TypeInv, TypeOK
<1> DEFINE Same == shown' = shown /\ \A q \in Request : req[q].pc = "idle" => req'[q] = req[q]
           Shows == \E r \in Request, h \in Hash :
              /\ req'[r].hash = h /\ shown' = [shown EXCEPT ![h] = @ + 1]
              /\ req[r].pc = "idle"
              /\ \A q \in Request : q # r => req'[q] = req[q]
<1>1. ASSUME NEW r \in Request, NEW op \in Ops, NEW h \in Hash, Present(r, op, h)
      PROVE  Shows
  <2> DEFINE st == [req[r] EXCEPT !.pc = "pointer", !.op = op, !.hash = h,
                                  !.age = Age(h)]
  <2>1. req'[r] = st /\ \A x \in Request : x # r => req'[x] = req[x]
    BY <1>1, <1>a, BecomeAt DEF Present
  <2>2. st.hash = h
    BY <1>a DEF RequestState
  <2> QED BY <1>1, <2>1, <2>2 DEF Present
<1>2. ASSUME NEW r \in Request, NEW h \in Hash, RotateSession(r, h) PROVE Shows
  <2> DEFINE st == [req[r] EXCEPT
                      !.pc = "held", !.op = "rotateSession", !.hash = h,
                      !.sid = owner[h], !.pinned = "hash", !.age = Age(h)]
  <2>1. req'[r] = st /\ \A x \in Request : x # r => req'[x] = req[x]
    BY <1>2, <1>a, BecomeAt DEF RotateSession
  <2>2. st.hash = h
    BY <1>a DEF RequestState
  <2> QED BY <1>2, <2>1, <2>2 DEF RotateSession
<1>3. ASSUME NEW r \in Request, NEW st, Become(r, st), req[r].pc # "idle", shown' = shown
      PROVE  Same
  BY <1>3, <1>a, BecomeAt
<1>4. ASSUME NEW r \in Request, Serve(r) \/ Abandon(r) PROVE Same
  <2>1. shown' = shown /\ req[r].pc # "idle"
    BY <1>4 DEF Serve, ReadPointer, ReadSession, revokeFamily, rotate, Rotating,
       classifyRotationLoss, revoke, Abandon
  <2>2. \E st : Become(r, st)
    BY <1>4 DEF Serve, ReadPointer, ReadSession, Replayed, revokeFamily, rotate,
       classifyRotationLoss, revoke, Abandon, Answer
  <2> QED BY <1>3, <2>1, <2>2
<1>5. ASSUME req' = req, shown' = shown PROVE Same
  BY <1>5
<1> HIDE DEF Same, Shows
<1>6. Same \/ Shows
  BY <1>1, <1>2, <1>4, <1>5
     DEF Next, CreateSession, RevokeSessionByID, DeleteSession, ReapSession,
         ReapPointer, Tick, vars
<1> QED BY <1>6 DEF Same, Shows

LEMMA ShownGrows ==
  ASSUME StoreInv, [Next]_vars
  PROVE  \A h \in Hash : shown[h] \in Nat /\ shown'[h] \in Nat /\ shown'[h] >= shown[h]
<1>1. shown \in [Hash -> Nat]
  BY DEF StoreInv, TypeInv, TypeOK
<1> QED BY <1>1, ShownStep

LEMMA CountedNext ==
  ASSUME StoreInv, Counted, [Next]_vars
  PROVE  Counted'
<1>a. /\ shown \in [Hash -> Nat] /\ TypeInv
      /\ \A r \in Request : req[r] \in SoundRequest
  BY DEF StoreInv, TypeInv, TypeOK
<1>b. \A r \in Request : req[r].pc # "idle" =>
        req[r].hash \in Hash /\ req'[r].hash = req[r].hash
  BY <1>a, RequestStep DEF Takes, Proceeds, SoundRequest
<1>1. CASE shown' = shown /\ \A q \in Request : req[q].pc = "idle" => req'[q] = req[q]
  BY <1>b, <1>1 DEF Counted
<1>2. ASSUME NEW r \in Request, NEW h \in Hash,
             req'[r].hash = h, shown' = [shown EXCEPT ![h] = @ + 1],
             req[r].pc = "idle",
             \A q \in Request : q # r => req'[q] = req[q]
      PROVE  Counted'
  <2>1. shown'[h] = shown[h] + 1 /\ \A g \in Hash : shown'[g] >= shown[g] /\ shown[g] \in Nat
    BY <1>a, <1>2
  <2>2. ASSUME NEW q \in Request, req'[q].pc # "idle"
        PROVE  shown'[req'[q].hash] >= 1
    BY <1>2, <1>b, <2>1, <2>2 DEF Counted
  <2>3. ASSUME NEW q \in Request, q # r, req[q].pc # "idle", req[q].hash = h
        PROVE  shown'[h] >= 2
    BY <2>1, <2>3 DEF Counted
  <2>4. ASSUME NEW q1 \in Request, NEW q2 \in Request, q1 # q2,
               req'[q1].pc # "idle", req'[q2].pc # "idle", req'[q1].hash = req'[q2].hash
        PROVE  shown'[req'[q1].hash] >= 2
    <3>1. CASE q1 = r \/ q2 = r
      BY <1>2, <2>3, <2>4, <3>1
    <3>2. CASE q1 # r /\ q2 # r
      BY <1>2, <1>b, <2>1, <2>4, <3>2 DEF Counted
    <3> QED BY <3>1, <3>2
  <2> QED BY <2>2, <2>4 DEF Counted
<1> QED BY <1>1, <1>2, ShownStep

(* What a request finds when it turns to kill, or to hold, a session.  *)
Lost(q) ==
  /\ req[q].pc \in {"session", "held"}
  /\ Live(req[q].sid)
  /\ session[req[q].sid].hash # req[q].hash \/ ~Agrees(req[q], session)

LEMMA SawStep ==
  ASSUME StoreInv, [Next]_vars, NEW q \in Request
  PROVE  \/ req'[q] = req[q]
         \/ /\ Agrees(req'[q], session')
            /\ req'[q].pc = "kill" => Lost(q) /\ req'[q].hash = req[q].hash
<1>a. /\ req \in [Request -> RequestState]
      /\ session \in [Sid -> SessionItem]
      /\ \A r \in Request : req[r] \in RequestState /\ req[r] \in SoundRequest
  BY DEF StoreInv, TypeInv, TypeOK
<1> DEFINE Saw == /\ Agrees(req'[q], session')
                  /\ req'[q].pc = "kill" => Lost(q) /\ req'[q].hash = req[q].hash
           Goal == req'[q] = req[q] \/ Saw
<1>1. ASSUME NEW r \in Request, NEW st, Become(r, st), st.pc \notin {"held", "kill"}
      PROVE  Goal
  BY <1>1, <1>a, BecomeAt DEF Agrees
<1>2. ASSUME NEW r \in Request, NEW a, Answer(r, a) PROVE Goal
  BY <1>2, <1>a, AnswerAt DEF Agrees
<1>3. ASSUME NEW r \in Request, NEW op \in Ops, NEW h \in Hash, Present(r, op, h)
      PROVE  Goal
  <2>1. [req[r] EXCEPT !.pc = "pointer", !.op = op, !.hash = h,
                       !.age = Age(h)].pc = "pointer"
    BY <1>a DEF RequestState
  <2> QED BY <1>1, <1>3, <2>1 DEF Present
<1>4. ASSUME NEW r \in Request, NEW h \in Hash, RotateSession(r, h) PROVE Goal
  <2> DEFINE st == [req[r] EXCEPT
                      !.pc = "held", !.op = "rotateSession", !.hash = h,
                      !.sid = owner[h], !.pinned = "hash", !.age = Age(h)]
  <2>1. st.pinned = "hash" /\ st.pc = "held"
    BY <1>a DEF RequestState
  <2>2. Become(r, st)
    BY <1>4 DEF RotateSession
  <2> HIDE DEF st
  <2> QED BY <1>a, <2>1, <2>2, BecomeAt DEF Agrees
<1>5. ASSUME NEW r \in Request, ReadPointer(r) PROVE Goal
  <2> DEFINE p == pointer[req[r].hash]
             st == [req[r] EXCEPT !.pc = "session", !.sid = p.sid, !.gen = p.gen]
  <2>1. st.pc = "session"
    BY <1>a DEF RequestState
  <2> QED BY <1>1, <1>2, <1>5, <2>1 DEF ReadPointer
<1>6. ASSUME NEW r \in Request, ReadSession(r) PROVE Goal
  <2> DEFINE item == session[req[r].sid]
             next == [req[r] EXCEPT
                        !.pc = "held",
                        !.gen = IF r \in Scoped THEN item.gen ELSE 0,
                        !.pinned = IF r \in Scoped THEN "generation" ELSE "none"]
             again == [req[r] EXCEPT !.pc = "held"]
             kill == [req[r] EXCEPT !.pc = "kill"]
  <2>0. req[r].pc = "session" /\ session' = session
    BY <1>6 DEF ReadSession
  <2>1. CASE Become(r, again) /\ item.state = "revoked"
    <3>1. again.sid = req[r].sid /\ again.pc = "held"
      BY <1>a DEF RequestState
    <3>2. req'[r] = again /\ \A x \in Request : x # r => req'[x] = req[x]
      BY <1>a, <2>1, BecomeAt
    <3> HIDE DEF again
    <3> QED BY <2>0, <2>1, <3>1, <3>2 DEF Agrees
  <2>2. CASE Become(r, kill) /\ item.state = "live" /\ Replayed(r, item)
    <3>1. kill.pc = "kill" /\ kill.hash = req[r].hash
      BY <1>a DEF RequestState
    <3>2. req'[r] = kill /\ \A x \in Request : x # r => req'[x] = req[x]
      BY <1>a, <2>2, BecomeAt
    <3> HIDE DEF kill
    <3>3. Lost(r)
      BY <2>0, <2>2 DEF Lost, Live, Replayed
    <3> QED BY <3>1, <3>2, <3>3 DEF Agrees
  <2>3. CASE Become(r, next)
    <3>1. /\ next.sid = req[r].sid /\ next.pc = "held"
          /\ next.pinned = "generation" => next.gen = item.gen
      BY <1>a DEF RequestState
    <3>2. req'[r] = next /\ \A x \in Request : x # r => req'[x] = req[x]
      BY <1>a, <2>3, BecomeAt
    <3> HIDE DEF next
    <3> QED BY <2>0, <3>1, <3>2 DEF Agrees
  <2>4. CASE \E a : Answer(r, a)
    BY <1>2, <2>4
  <2> HIDE DEF Goal
  <2> QED BY <1>6, <2>1, <2>2, <2>3, <2>4 DEF ReadSession
<1>7. ASSUME NEW r \in Request, classifyRotationLoss(r) PROVE Goal
  <2> DEFINE kill == [req[r] EXCEPT !.pc = "kill"]
  <2>1. CASE Become(r, kill) /\ Live(req[r].sid)
    <3>1. kill.pc = "kill" /\ kill.hash = req[r].hash
      BY <1>a DEF RequestState
    <3>2. req'[r] = kill /\ \A x \in Request : x # r => req'[x] = req[x]
      BY <1>a, <2>1, BecomeAt
    <3> HIDE DEF kill
    <3>3. Lost(r)
      BY <1>7, <2>1 DEF Lost, Live, classifyRotationLoss, Rotating, RotationCondition,
         Agrees
    <3> QED BY <3>1, <3>2, <3>3 DEF Agrees
  <2>2. CASE \E a : Answer(r, a)
    BY <1>2, <2>2
  <2> HIDE DEF Goal
  <2> QED BY <1>7, <2>1, <2>2 DEF classifyRotationLoss, Live
<1>8. ASSUME NEW r \in Request,
             \/ revokeFamily(r)
             \/ \E new \in Hash : rotate(r, new)
             \/ revoke(r)
             \/ Abandon(r)
      PROVE  Goal
  BY <1>2, <1>8 DEF revokeFamily, rotate, revoke, Abandon
<1>9. ASSUME req' = req PROVE Goal
  BY <1>9
<1> HIDE DEF Goal
<1>10. Goal
  BY <1>3, <1>4, <1>5, <1>6, <1>7, <1>8, <1>9
     DEF Next, Serve, CreateSession, RevokeSessionByID, DeleteSession,
         ReapSession, ReapPointer, Tick, vars
<1> QED BY <1>10 DEF Goal

(* What a session that is live after a step was before it.  *)
LEMMA LiveStep ==
  ASSUME StoreInv, [Next]_vars, NEW s \in Sid, session'[s].state = "live"
  PROVE  \/ session'[s] = session[s] /\ \A h \in Hash : owner'[h] = s => owner[h] = s
         \/ /\ ~Opened(s)
            /\ session'[s].hash \in Hash
            /\ \A h \in Hash : owner'[h] = s => h = session'[s].hash
         \/ \E r \in Request, new \in Hash :
              /\ rotate(r, new) /\ req[r].sid = s /\ session'[s].hash = new
              /\ owner[new] = NoSession
              /\ \A h \in Hash : h # new /\ owner'[h] = s => owner[h] = s
<1>a. /\ session \in [Sid -> SessionItem]
      /\ owner \in [Hash -> Sid \cup {NoSession}]
      /\ TypeInv /\ Ledger
  BY DEF StoreInv, TypeInv, TypeOK
<1> DEFINE Kept == session'[s] = session[s] /\ \A h \in Hash : owner'[h] = s => owner[h] = s
           New == /\ ~Opened(s)
                  /\ session'[s].hash \in Hash
                  /\ \A h \in Hash : owner'[h] = s => h = session'[s].hash
           Moved == \E r \in Request, new \in Hash :
              /\ rotate(r, new) /\ req[r].sid = s /\ session'[s].hash = new
              /\ owner[new] = NoSession
              /\ \A h \in Hash : h # new /\ owner'[h] = s => owner[h] = s
<1>1. ASSUME NEW t \in Sid, NEW h \in Hash, CreateSession(t, h) PROVE Kept \/ New
  BY <1>a, <1>1 DEF CreateSession, Opened
<1>2. ASSUME NEW r \in Request, NEW new \in Hash, rotate(r, new) PROVE Kept \/ Moved
  <2>1. /\ req[r].sid \in Sid /\ session[req[r].sid] \in SessionItem
        /\ owner[new] = NoSession
        /\ session' = [session EXCEPT ![req[r].sid] =
             Rotated(session[req[r].sid], new, now + Life)]
        /\ owner' = [owner EXCEPT ![new] = req[r].sid]
    BY <1>a, <1>2, RotateEffect
  <2>2. CASE req[r].sid # s
    BY <1>a, <2>1, <2>2
  <2>3. CASE req[r].sid = s
    <3>1. session'[s].hash = new
      BY <1>a, <2>1, <2>3, RotatedFields
    <3>2. \A h \in Hash : h # new /\ owner'[h] = s => owner[h] = s
      BY <1>a, <2>1
    <3> QED BY <1>2, <2>1, <2>3, <3>1, <3>2
  <2> QED BY <2>2, <2>3
<1>3. ASSUME NEW t \in Sid, Ends(t) PROVE Kept
  BY <1>a, <1>3, RevokedFields DEF Ends, Live
<1>4. ASSUME NEW t \in Sid, Removes(t) PROVE Kept
  BY <1>a, <1>4 DEF Removes, NoSessionItem
<1>5. (\E h \in Hash : ReapPointer(h)) \/ Keeps => Kept
  BY DEF ReapPointer, Keeps
<1> HIDE DEF Kept, New, Moved
<1>6. Kept \/ New \/ Moved
  BY <1>a, <1>1, <1>2, <1>3, <1>4, <1>5, StoreStep
<1> QED BY <1>6 DEF Kept, New, Moved

LEMMA AgreeingNext ==
  ASSUME StoreInv, Agreeing, [Next]_vars
  PROVE  Agreeing'
<1> SUFFICES ASSUME NEW q \in Request PROVE Agrees(req'[q], session')
  BY DEF Agreeing
<1>1. CASE req'[q] = req[q]
  <2> SUFFICES ASSUME req[q].pc = "held", req[q].pinned = "generation",
                      session'[req[q].sid].state = "live",
                      session'[req[q].sid].hash = req[q].hash
               PROVE  session'[req[q].sid].gen = req[q].gen
    BY <1>1 DEF Agrees
  <2>1. /\ req[q].sid \in Sid /\ req[q].hash \in Hash
        /\ owner[req[q].hash] # NoSession /\ Opened(req[q].sid)
    BY IdsAssumption DEF StoreInv, TypeInv, SoundRequest, Ledger
  <2>2. session'[req[q].sid] = session[req[q].sid]
    BY <2>1, LiveStep
  <2> QED BY <2>2 DEF Agreeing, Agrees
<1>2. CASE req'[q] # req[q]
  BY <1>2, SawStep
<1> QED BY <1>1, <1>2

LEMMA WitnessedNext ==
  ASSUME CauseInv, [Next]_vars
  PROVE  Witnessed'
<1> SUFFICES ASSUME NEW q \in Request, req'[q].pc = "kill"
             PROVE  shown'[req'[q].hash] >= 2
  BY DEF Witnessed
<1>a. StoreInv /\ req[q] \in SoundRequest
  BY DEF CauseInv, WinnerInv, StoreInv, TypeInv
<1>1. CASE req'[q] = req[q]
  <2>1. req[q].hash \in Hash /\ shown[req[q].hash] >= 2
    BY <1>a, <1>1 DEF SoundRequest, CauseInv, Witnessed
  <2> QED BY <1>a, <1>1, <2>1, ShownGrows
<1>2. CASE req'[q] # req[q]
  <2>1. Lost(q) /\ req'[q].hash = req[q].hash
    BY <1>a, <1>2, SawStep
  <2>2. req[q].sid \in Sid /\ req[q].hash \in Hash
    BY <1>a, <2>1 DEF Lost, SoundRequest
  <2>3. session[req[q].sid].hash # req[q].hash /\ Live(req[q].sid)
    BY <2>1 DEF Lost, CauseInv, Agreeing
  <2>4. owner[req[q].hash] = req[q].sid
    BY <2>2, IdsAssumption DEF CauseInv, OwnToken
  <2>5. PICK r \in Request : req[r].answer = "won" /\ req[r].hash = req[q].hash
    BY <2>2, <2>3, <2>4 DEF CauseInv, WonIfPast, Won
  <2>6. req[r].pc = "done" /\ req[q].pc \in {"session", "held"}
    BY <2>1, <2>5 DEF CauseInv, TurnedAway, Turned, Lost
  <2>7. shown[req[q].hash] >= 2
    BY <2>5, <2>6 DEF CauseInv, Counted
  <2> QED BY <1>a, <2>1, <2>2, <2>7, ShownGrows
<1> QED BY <1>1, <1>2

LEMMA WonIfPastNext ==
  ASSUME CauseInv, [Next]_vars
  PROVE  WonIfPast'
<1> SUFFICES ASSUME NEW h \in Hash, NEW s \in Sid,
                    owner'[h] = s, session'[s].state = "live", session'[s].hash # h
             PROVE  \E r \in Request : req'[r].answer = "won" /\ req'[r].hash = h
  BY DEF WonIfPast, Won, Live
<1>a. StoreInv /\ TypeInv /\ req \in [Request -> RequestState]
  BY DEF CauseInv, WinnerInv, StoreInv, TypeInv, TypeOK
<1>b. ASSUME owner[h] = s, Live(s), session[s].hash # h
      PROVE  \E r \in Request : req'[r].answer = "won" /\ req'[r].hash = h
  <2>1. PICK r \in Request : req[r].answer = "won" /\ req[r].hash = h
    BY <1>b DEF CauseInv, WonIfPast, Won
  <2>2. req[r].pc = "done"
    BY <2>1 DEF CauseInv, TurnedAway, Turned
  <2>3. req'[r] = req[r]
    BY <1>a, <2>2, RequestStep DEF Takes, Proceeds
  <2> QED BY <2>1, <2>3
<1>1. CASE session'[s] = session[s] /\ \A g \in Hash : owner'[g] = s => owner[g] = s
  BY <1>b, <1>1 DEF Live
<1>2. ASSUME NEW r \in Request, NEW new \in Hash, rotate(r, new), req[r].sid = s,
             session'[s].hash = new,
             \A g \in Hash : g # new /\ owner'[g] = s => owner[g] = s
      PROVE  \E q \in Request : req'[q].answer = "won" /\ req'[q].hash = h
  <2>1. owner[h] = s /\ Live(s)
    BY <1>2 DEF rotate, RotationCondition
  <2>2. CASE session[s].hash # h
    BY <1>b, <2>1, <2>2
  <2>3. CASE session[s].hash = h
    <3>1. req[r].hash = h
      BY <1>2, <2>3 DEF rotate, RotationCondition, CauseInv, WinnerInv, Pinned
    <3>2. req'[r].answer = "won" /\ req'[r].hash = req[r].hash
      BY <1>a, <1>2, AnswerAt DEF rotate
    <3> QED BY <3>1, <3>2
  <2> QED BY <2>2, <2>3
<1> QED BY <1>a, <1>1, <1>2, LiveStep

(* A family newly dead as replayed was killed by a request that was to.  *)
LEMMA ReplayStep ==
  ASSUME StoreInv, [Next]_vars, NEW s \in Sid,
         session'[s].state = "revoked", session'[s].reason = "refresh_replay"
  PROVE  \/ session'[s] = session[s]
         \/ \E r \in Request : req[r].pc = "kill" /\ req[r].sid = s
<1>a. /\ session \in [Sid -> SessionItem] /\ TypeInv
      /\ \A r \in Request : req[r] \in SoundRequest
  BY DEF StoreInv, TypeInv, TypeOK
<1>b. \A item \in SessionItem : \A reason, gen :
        Revoked(item, reason, gen).reason = reason
  BY DEF Revoked, SessionItem
<1> DEFINE Goal == \/ session'[s] = session[s]
                   \/ \E r \in Request : req[r].pc = "kill" /\ req[r].sid = s
<1>1. ASSUME NEW r \in Request, revokeFamily(r) PROVE Goal
  <2>1. req[r].sid \in Sid /\ req[r].pc = "kill"
    BY <1>a, <1>1 DEF revokeFamily, SoundRequest
  <2> QED BY <1>a, <1>1, <2>1 DEF revokeFamily
<1>2. ASSUME NEW r \in Request, revoke(r) PROVE Goal
  <2>1. req[r].sid \in Sid
    BY <1>a, <1>2 DEF revoke, SoundRequest
  <2> QED BY <1>a, <1>b, <1>2, <2>1 DEF revoke
<1>3. ASSUME NEW t \in Sid, RevokeSessionByID(t) PROVE Goal
  BY <1>a, <1>b, <1>3 DEF RevokeSessionByID
<1>4. ASSUME NEW t \in Sid, DeleteSession(t) \/ ReapSession(t) PROVE Goal
  BY <1>a, <1>4 DEF DeleteSession, ReapSession, NoSessionItem
<1>5. ASSUME NEW t \in Sid, NEW h \in Hash, CreateSession(t, h) PROVE Goal
  BY <1>a, <1>5 DEF CreateSession
<1>6. ASSUME NEW r \in Request, NEW new \in Hash, rotate(r, new) PROVE Goal
  <2>1. /\ req[r].sid \in Sid /\ session[req[r].sid] \in SessionItem
        /\ session[req[r].sid].state = "live"
        /\ session' = [session EXCEPT ![req[r].sid] =
             Rotated(session[req[r].sid], new, now + Life)]
    BY <1>a, <1>6, RotateEffect
  <2> QED BY <1>a, <2>1, RotatedFields
<1>7. ASSUME session' = session PROVE Goal
  BY <1>7
<1> HIDE DEF Goal
<1>8. ASSUME NEW r \in Request,
             \/ ReadPointer(r)
             \/ ReadSession(r)
             \/ classifyRotationLoss(r)
             \/ Abandon(r)
             \/ \E h \in Hash : RotateSession(r, h)
             \/ \E op \in Ops, h \in Hash : Present(r, op, h)
      PROVE  Goal
  <2>1. session' = session
    BY <1>8 DEF ReadPointer, ReadSession, classifyRotationLoss, Abandon,
       RotateSession, Present
  <2> QED BY <1>7, <2>1
<1>9. (\E h \in Hash : ReapPointer(h)) \/ Tick \/ UNCHANGED vars => session' = session
  BY DEF ReapPointer, Tick, vars
<1>10. Goal
  BY <1>1, <1>2, <1>3, <1>4, <1>5, <1>6, <1>7, <1>8, <1>9 DEF Next, Serve
<1> QED BY <1>10 DEF Goal

LEMMA CauseNext ==
  ASSUME CauseInv, [Next]_vars
  PROVE  FamilyDiesOnlyForReuse'
<1> SUFFICES ASSUME NEW s \in Sid, session'[s].state = "revoked",
                    session'[s].reason = "refresh_replay"
             PROVE  \E h \in Hash : owner'[h] = s /\ shown'[h] >= 2
  BY DEF FamilyDiesOnlyForReuse
<1>a. StoreInv /\ TypeInv
  BY DEF CauseInv, WinnerInv, StoreInv
<1>1. \E h \in Hash : owner[h] = s /\ shown[h] >= 2
  <2>1. CASE session'[s] = session[s]
    BY <2>1 DEF CauseInv, FamilyDiesOnlyForReuse
  <2>2. ASSUME NEW r \in Request, req[r].pc = "kill", req[r].sid = s
        PROVE  \E h \in Hash : owner[h] = s /\ shown[h] >= 2
    <3>1. req[r].hash \in Hash
      BY <1>a, <2>2 DEF TypeInv, SoundRequest
    <3>2. owner[req[r].hash] = s /\ shown[req[r].hash] >= 2
      BY <2>2, IdsAssumption DEF CauseInv, OwnToken, Witnessed
    <3> QED BY <3>1, <3>2
  <2> QED BY <1>a, <2>1, <2>2, ReplayStep
<1>2. PICK h \in Hash : owner[h] = s /\ shown[h] >= 2
  BY <1>1
<1>3. owner'[h] = s
  BY <1>a, <1>2, OwnerKept, IdsAssumption
<1>4. shown'[h] >= 2
  BY <1>a, <1>2, ShownGrows
<1> QED BY <1>3, <1>4

(* There is no false alarm: whoever is logged out by replay detection had  *)
(* a token that was presented twice, for any requests at once.             *)
THEOREM NoFalseAlarm ==
  ASSUME Scoped = Request
  PROVE  Spec => []FamilyDiesOnlyForReuse
<1>1. Init => Unspent /\ Pinned /\ OneWinnerPerToken
  BY DEF Init, Unspent, Pinned, OneWinnerPerToken, Live, NoSessionItem, Rotating
<1>2. Init => /\ TurnedAway /\ OwnToken /\ WonIfPast /\ Counted
              /\ Agreeing /\ Witnessed /\ FamilyDiesOnlyForReuse
  BY DEF Init, TurnedAway, Turned, OwnToken, WonIfPast, Live, NoSessionItem, Counted,
     Agreeing, Agrees, Witnessed, FamilyDiesOnlyForReuse
<1>3. Init => CauseInv
  <2>1. Init => StoreInv
    BY TypeInvInit, LedgerInit DEF StoreInv
  <2> QED BY <1>1, <1>2, <2>1 DEF CauseInv, WinnerInv
<1>4. CauseInv /\ [Next]_vars => CauseInv'
  <2> SUFFICES ASSUME CauseInv, [Next]_vars PROVE CauseInv'
    OBVIOUS
  <2>1. WinnerInv /\ StoreInv /\ Pinned /\ TurnedAway /\ OwnToken /\ Counted /\ Agreeing
    BY DEF CauseInv, WinnerInv
  <2>2. StoreInv'
    BY <2>1, TypeInvNext, LedgerNext DEF StoreInv
  <2>3. WinnerInv'
    BY <2>1, <2>2, WinnerNext, PinnedNext DEF WinnerInv
  <2>4. TurnedAway' /\ OwnToken' /\ Counted' /\ Agreeing'
    BY <2>1, TurnedAwayNext, OwnTokenNext, CountedNext, AgreeingNext
  <2>5. WonIfPast' /\ Witnessed' /\ FamilyDiesOnlyForReuse'
    BY WonIfPastNext, WitnessedNext, CauseNext
  <2> QED BY <2>3, <2>4, <2>5 DEF CauseInv
<1>5. CauseInv => FamilyDiesOnlyForReuse
  BY DEF CauseInv
<1>6. QED
  BY <1>3, <1>4, <1>5, PTL DEF Spec

-----------------------------------------------------------------------------
(* The pointer of a live session's current token is there, and kept for as *)
(* long as the session is: both TTLs are reckoned from one expiry.         *)
Resolving ==
  \A s \in Sid : Live(s) /\ now <= session[s].exp + Grace =>
    /\ pointer[session[s].hash].sid = s
    /\ pointer[session[s].hash].ttl = session[s].exp + Grace

LEMMA ResolvingNext ==
  ASSUME StoreInv, Resolving, [Next]_vars
  PROVE  Resolving'
<1>a. /\ session \in [Sid -> SessionItem]
      /\ pointer \in [Hash -> PointerItem]
      /\ owner \in [Hash -> Sid \cup {NoSession}]
      /\ now \in Nat /\ Grace \in Nat /\ Life \in Nat
      /\ TypeInv /\ Ledger
  BY TimeAssumption DEF StoreInv, TypeInv, TypeOK
<1>b. \A s \in Sid : session[s].exp \in Nat
  BY <1>a DEF SessionItem
<1>c. \A s \in Sid : Live(s) => session[s].hash \in Hash /\ owner[session[s].hash] = s
  BY <1>a DEF Live, Ledger
<1> DEFINE At(s) ==
      session'[s].state = "live" /\ now' <= session'[s].exp + Grace =>
        /\ pointer'[session'[s].hash].sid = s
        /\ pointer'[session'[s].hash].ttl = session'[s].exp + Grace
(* What a step that mints a token for one session leaves of the others.    *)
<1>d. ASSUME NEW s \in Sid, NEW t \in Sid, t # s, NEW h \in Hash, NEW p, now' = now,
             owner[h] = NoSession, session'[t] = session[t],
             pointer' = [pointer EXCEPT ![h] = p]
      PROVE  At(t)
  <2>1. Live(t) => session[t].hash # h
    BY <1>c, <1>d, IdsAssumption
  <2>2. Live(t) => pointer'[session[t].hash] = pointer[session[t].hash]
    BY <1>a, <1>c, <1>d, <2>1
  <2> QED BY <1>d, <2>2 DEF Resolving, Live
<1>e. ASSUME NEW t \in Sid, session'[t] = session[t], pointer' = pointer,
             now' \in {now, now + 1}
      PROVE  At(t)
  <2>1. now' <= session[t].exp + Grace => now <= session[t].exp + Grace
    BY <1>a, <1>b, <1>e
  <2> QED BY <1>e, <2>1 DEF Resolving, Live
<1>1. ASSUME NEW s \in Sid, NEW h \in Hash, CreateSession(s, h), NEW t \in Sid
      PROVE  At(t)
  <2>1. /\ owner[h] = NoSession /\ now' = now
        /\ pointer' = [pointer EXCEPT ![h] = refreshPointer(s, firstGen, now + Life)]
        /\ session'[s] = [state |-> "live", hash |-> h, gen |-> firstGen, exp |-> now + Life,
                          reason |-> "none", revokedGen |-> 0]
        /\ t # s => session'[t] = session[t]
    BY <1>1, <1>a DEF CreateSession, Fresh
  <2>2. CASE t = s
    <3>1. pointer'[h] = [sid |-> s, gen |-> firstGen, ttl |-> (now + Life) + Grace]
      BY <1>a, <2>1 DEF refreshPointer
    <3> QED BY <2>1, <2>2, <3>1
  <2>3. CASE t # s
    BY <1>d, <2>1, <2>3
  <2> QED BY <2>2, <2>3
<1>2. ASSUME NEW r \in Request, NEW new \in Hash, rotate(r, new), NEW t \in Sid
      PROVE  At(t)
  <2>1. PICK s \in Sid : s = req[r].sid
    BY <1>2, <1>a, RotateEffect
  <2>2. /\ owner[new] = NoSession /\ now' = now
        /\ pointer' = [pointer EXCEPT ![new] =
             refreshPointer(s, req[r].gen + 1, now + Life)]
        /\ session' = [session EXCEPT ![s] = Rotated(session[s], new, now + Life)]
    BY <1>2, <1>a, <2>1, RotateEffect
  <2>3. CASE t = s
    <3>1. session'[s].hash = new /\ session'[s].exp = now + Life
      <4>1. session'[s] = Rotated(session[s], new, now + Life) /\ session[s] \in SessionItem
        BY <1>a, <2>2
      <4> QED BY <4>1, RotatedFields
    <3>2. pointer'[new].sid = s /\ pointer'[new].ttl = (now + Life) + Grace
      BY <1>a, <2>2 DEF refreshPointer
    <3> QED BY <2>3, <3>1, <3>2
  <2>4. CASE t # s
    <3>1. session'[t] = session[t]
      BY <1>a, <2>2, <2>4
    <3> QED BY <1>d, <2>2, <2>4, <3>1
  <2> QED BY <2>3, <2>4
<1>3. ASSUME NEW s \in Sid, Ends(s), NEW t \in Sid PROVE At(t)
  <2>1. CASE t = s
    <3>1. session'[t].state # "live"
      BY <1>a, <1>3, <2>1, RevokedFields DEF Ends
    <3> QED BY <3>1
  <2>2. CASE t # s
    BY <1>a, <1>e, <1>3, <2>2 DEF Ends
  <2> QED BY <2>1, <2>2
<1>4. ASSUME NEW s \in Sid, Removes(s), NEW t \in Sid PROVE At(t)
  <2>1. CASE t = s
    <3>1. session'[t].state # "live"
      BY <1>a, <1>4, <2>1 DEF Removes, NoSessionItem
    <3> QED BY <3>1
  <2>2. CASE t # s
    BY <1>a, <1>e, <1>4, <2>2 DEF Removes
  <2> QED BY <2>1, <2>2
<1>5. ASSUME NEW h \in Hash, ReapPointer(h), NEW t \in Sid PROVE At(t)
  <2>1. /\ pointer' = [pointer EXCEPT ![h] = NoPointer]
        /\ session' = session /\ now' = now /\ now > pointer[h].ttl
    BY <1>5 DEF ReapPointer
  <2>2. CASE Live(t) /\ now <= session[t].exp + Grace
    <3>1. /\ pointer[session[t].hash].sid = t
          /\ pointer[session[t].hash].ttl = session[t].exp + Grace
      BY <2>2 DEF Resolving
    <3>2. session[t].hash # h
      <4>1. ~(now > session[t].exp + Grace)
        BY <1>a, <1>b, <2>2
      <4> QED BY <2>1, <3>1, <4>1
    <3>3. pointer'[session[t].hash] = pointer[session[t].hash]
      BY <1>a, <1>c, <2>1, <2>2, <3>2
    <3> QED BY <2>1, <3>1, <3>3
  <2>3. CASE ~(Live(t) /\ now <= session[t].exp + Grace)
    BY <2>1, <2>3 DEF Live
  <2> QED BY <2>2, <2>3
<1>6. ASSUME Keeps, NEW t \in Sid PROVE At(t)
  BY <1>e, <1>6 DEF Keeps
<1>7. \A t \in Sid : At(t)
  <2> HIDE DEF At
  <2> QED BY <1>a, <1>1, <1>2, <1>3, <1>4, <1>5, <1>6, StoreStep
<1> QED BY <1>7 DEF Resolving, Live

(* The token a client was last handed leads to its session until both are  *)
(* due, in whatever order TTL takes items that are: for any lifetimes, and *)
(* with or without scopes.                                                 *)
THEOREM LastTokenIsFound == Spec => []CurrentTokenResolves
<1>1. Init => Resolving
  BY DEF Init, Resolving, Live, NoSessionItem
<1>2. StoreInv /\ Resolving /\ [Next]_vars => Resolving'
  BY ResolvingNext
<1>3. Resolving => CurrentTokenResolves
  BY DEF Resolving, CurrentTokenResolves
<1> QED
  BY <1>1, <1>2, <1>3, StoreInvariant, PTL DEF Spec
-----------------------------------------------------------------------------
(* The families the items stand for.  *)
Life3(s) == IF Live(s) THEN "live" ELSE IF Opened(s) THEN "dead" ELSE "unopened"
Token(s) == IF Live(s) THEN session[s].hash ELSE NoHash
Spent(s) == {h \in Hash : owner[h] = s /\ exchanged[h] > 0}

State == [s \in Sid |-> Life3(s)]
Current == [s \in Sid |-> Token(s)]
SpentOf == [s \in Sid |-> Spent(s)]

(* A fresh token is no family's, and was none's.  *)
LEMMA FreshIsFree ==
  ASSUME StoreInv, NEW h \in Hash, Fresh(h)
  PROVE  \A s \in Sid : Token(s) # h /\ h \notin Spent(s)
<1> SUFFICES ASSUME NEW s \in Sid PROVE Token(s) # h /\ h \notin Spent(s)
  OBVIOUS
<1>1. Ledger /\ owner[h] = NoSession /\ NoSession # s /\ NoHash # h
  BY IdsAssumption DEF StoreInv, Fresh
<1>2. Token(s) # h
  BY <1>1 DEF Token, Live, Ledger
<1>3. h \notin Spent(s)
  BY <1>1 DEF Spent
<1> QED BY <1>2, <1>3

(* Where neither the item nor the tokens of a session change, its family   *)
(* does not.                                                               *)
LEMMA FamilyKept ==
  ASSUME NEW s \in Sid, session'[s].state = session[s].state,
         session'[s].hash = session[s].hash,
         \A h \in Hash : owner'[h] = s <=> owner[h] = s,
         \A h \in Hash : owner[h] = s => exchanged'[h] = exchanged[h]
  PROVE  Life3(s)' = Life3(s) /\ Token(s)' = Token(s) /\ Spent(s)' = Spent(s)
<1>1. Live(s)' = Live(s) /\ Opened(s)' = Opened(s)
  BY DEF Live, Opened
<1>2. Spent(s)' = Spent(s)
  BY DEF Spent
<1> QED BY <1>1, <1>2 DEF Life3, Token

Opens(s, h) ==
  /\ Life3(s) = "unopened" /\ \A t \in Sid : Token(t) # h /\ h \notin Spent(t)
  /\ State' = [State EXCEPT ![s] = "live"]
  /\ Current' = [Current EXCEPT ![s] = h]
  /\ SpentOf' = SpentOf

Exchanges(s, h) ==
  /\ Life3(s) = "live" /\ \A t \in Sid : Token(t) # h /\ h \notin Spent(t)
  /\ State' = State
  /\ Current' = [Current EXCEPT ![s] = h]
  /\ SpentOf' = [SpentOf EXCEPT ![s] = @ \cup {Token(s)}]

Dies(s) ==
  /\ Life3(s) = "live"
  /\ State' = [State EXCEPT ![s] = "dead"]
  /\ Current' = [Current EXCEPT ![s] = NoHash]
  /\ SpentOf' = SpentOf

Stands == State' = State /\ Current' = Current /\ SpentOf' = SpentOf

(* From what becomes of one session to what becomes of all.  *)
LEMMA Everywhere ==
  ASSUME NEW s \in Sid, NEW a, NEW b, NEW c,
         Life3(s)' = a, Token(s)' = b, Spent(s)' = c,
         \A t \in Sid : t # s =>
           Life3(t)' = Life3(t) /\ Token(t)' = Token(t) /\ Spent(t)' = Spent(t)
  PROVE  /\ State' = [State EXCEPT ![s] = a]
         /\ Current' = [Current EXCEPT ![s] = b]
         /\ SpentOf' = [SpentOf EXCEPT ![s] = c]
<1>1. State' = [t \in Sid |-> Life3(t)'] /\ Current' = [t \in Sid |-> Token(t)']
      /\ SpentOf' = [t \in Sid |-> Spent(t)']
  BY DEF State, Current, SpentOf
<1>2. State' = [State EXCEPT ![s] = a]
  BY <1>1 DEF State
<1>3. Current' = [Current EXCEPT ![s] = b]
  BY <1>1 DEF Current
<1>4. SpentOf' = [SpentOf EXCEPT ![s] = c]
  BY <1>1 DEF SpentOf
<1> QED BY <1>2, <1>3, <1>4

LEMMA Nowhere ==
  ASSUME \A t \in Sid :
           Life3(t)' = Life3(t) /\ Token(t)' = Token(t) /\ Spent(t)' = Spent(t)
  PROVE  Stands
<1>1. State' = [t \in Sid |-> Life3(t)'] /\ Current' = [t \in Sid |-> Token(t)']
      /\ SpentOf' = [t \in Sid |-> Spent(t)']
  BY DEF State, Current, SpentOf
<1> QED BY <1>1 DEF Stands, State, Current, SpentOf

(* A session that stops being live, or is no longer anything, dies.  *)
LEMMA EndOrStand ==
  ASSUME StoreInv, NEW s \in Sid, session'[s].state # "live",
         \A t \in Sid : t # s => session'[t] = session[t],
         owner' = owner, exchanged' = exchanged
  PROVE  Dies(s) \/ Stands
<1>1. \A t \in Sid : t # s =>
        Life3(t)' = Life3(t) /\ Token(t)' = Token(t) /\ Spent(t)' = Spent(t)
  BY FamilyKept
<1>2. ~Live(s)' /\ Opened(s)' = Opened(s) /\ Spent(s)' = Spent(s)
  BY DEF Live, Opened, Spent
<1>3. CASE Live(s)
  <2>1. Opened(s)
    BY <1>3 DEF Live, Opened, StoreInv, Ledger
  <2>2. Life3(s)' = "dead" /\ Token(s)' = NoHash
    BY <1>2, <2>1 DEF Life3, Token
  <2>3. /\ State' = [State EXCEPT ![s] = "dead"]
        /\ Current' = [Current EXCEPT ![s] = NoHash]
        /\ SpentOf' = [SpentOf EXCEPT ![s] = Spent(s)]
    <3>1. PICK c : c = Spent(s)
      OBVIOUS
    <3>2. Spent(s)' = c
      BY <1>2, <3>1
    <3>3. /\ State' = [State EXCEPT ![s] = "dead"]
          /\ Current' = [Current EXCEPT ![s] = NoHash]
          /\ SpentOf' = [SpentOf EXCEPT ![s] = c]
      BY <1>1, <2>2, <3>2, Everywhere
    <3> QED BY <3>1, <3>3
  <2>4. SpentOf' = SpentOf
    BY <2>3 DEF SpentOf
  <2>5. Life3(s) = "live"
    BY <1>3 DEF Life3
  <2> QED BY <2>3, <2>4, <2>5 DEF Dies
<1>4. CASE ~Live(s)
  <2>1. Life3(s)' = Life3(s) /\ Token(s)' = Token(s)
    BY <1>2, <1>4 DEF Life3, Token
  <2>2. \A t \in Sid :
          Life3(t)' = Life3(t) /\ Token(t)' = Token(t) /\ Spent(t)' = Spent(t)
    BY <1>1, <1>2, <2>1
  <2> QED BY <2>2, Nowhere
<1> QED BY <1>3, <1>4

LEMMA FamilyStep ==
  ASSUME WinnerInv, [Next]_vars
  PROVE  \/ \E s \in Sid, h \in Hash : Opens(s, h) \/ Exchanges(s, h)
         \/ \E s \in Sid : Dies(s)
         \/ Stands
<1>a. /\ session \in [Sid -> SessionItem]
      /\ owner \in [Hash -> Sid \cup {NoSession}]
      /\ exchanged \in [Hash -> Nat]
      /\ StoreInv /\ TypeInv /\ Ledger
  BY DEF WinnerInv, StoreInv, TypeInv, TypeOK
<1>1. ASSUME NEW s \in Sid, NEW h \in Hash, CreateSession(s, h) PROVE Opens(s, h)
  <2>1. /\ \A g \in Hash : owner[g] # s
        /\ Fresh(h) /\ owner[h] = NoSession
        /\ session'[s].state = "live" /\ session'[s].hash = h
        /\ \A t \in Sid : t # s => session'[t] = session[t]
        /\ owner' = [owner EXCEPT ![h] = s] /\ exchanged' = exchanged
    BY <1>a, <1>1 DEF CreateSession, Fresh
  <2>2. ~Live(s) /\ ~Opened(s)
    BY <1>a, <2>1 DEF Live, Opened, Ledger
  <2>3. Life3(s) = "unopened"
    BY <2>2 DEF Life3
  <2>4. \A t \in Sid : Token(t) # h /\ h \notin Spent(t)
    BY <1>a, <2>1, FreshIsFree
  <2>5. \A t \in Sid : t # s =>
          Life3(t)' = Life3(t) /\ Token(t)' = Token(t) /\ Spent(t)' = Spent(t)
    <3> SUFFICES ASSUME NEW t \in Sid, t # s
                 PROVE  Life3(t)' = Life3(t) /\ Token(t)' = Token(t) /\ Spent(t)' = Spent(t)
      OBVIOUS
    <3>1. \A g \in Hash : owner'[g] = t <=> owner[g] = t
      BY <1>a, <2>1, IdsAssumption
    <3> QED BY <2>1, <3>1, FamilyKept
  <2>6. Life3(s)' = "live" /\ Token(s)' = h
    BY <2>1 DEF Life3, Token, Live
  <2>7. Spent(s) = {} /\ Spent(s)' = {}
    <3>1. exchanged[h] = 0
      BY <1>a, <2>1 DEF Ledger
    <3>2. \A g \in Hash : ~(owner'[g] = s /\ exchanged'[g] > 0)
      BY <1>a, <2>1, <3>1
    <3> QED BY <2>1, <3>2 DEF Spent
  <2>8. /\ State' = [State EXCEPT ![s] = "live"]
        /\ Current' = [Current EXCEPT ![s] = h]
        /\ SpentOf' = [SpentOf EXCEPT ![s] = {}]
    BY <2>5, <2>6, <2>7, Everywhere
  <2>9. SpentOf' = SpentOf
    BY <2>7, <2>8 DEF SpentOf
  <2> QED BY <2>3, <2>4, <2>8, <2>9 DEF Opens
<1>2. ASSUME NEW r \in Request, NEW new \in Hash, rotate(r, new)
      PROVE  \E s \in Sid : Exchanges(s, new)
  <2>1. PICK s \in Sid, old \in Hash : s = req[r].sid /\ old = req[r].hash
    BY <1>2, <1>a, RotateEffect
  <2>2. /\ session[s].state = "live" /\ owner[new] = NoSession
        /\ session' = [session EXCEPT ![s] = Rotated(session[s], new, now + Life)]
        /\ owner' = [owner EXCEPT ![new] = s]
        /\ exchanged' = [exchanged EXCEPT ![old] = @ + 1]
    BY <1>2, <1>a, <2>1, RotateEffect
  <2>3. session[s].hash = old
    BY <1>2, <2>1 DEF rotate, RotationCondition, WinnerInv, Pinned
  <2>4. owner[old] = s /\ old # new /\ exchanged[new] = 0
    BY <1>a, <2>2, <2>3, IdsAssumption DEF Ledger
  <2>5. session'[s].state = "live" /\ session'[s].hash = new
    <3>1. session'[s] = Rotated(session[s], new, now + Life) /\ session[s] \in SessionItem
      BY <1>a, <2>2
    <3> QED BY <2>2, <3>1, RotatedFields
  <2>6. \A t \in Sid : t # s =>
          Life3(t)' = Life3(t) /\ Token(t)' = Token(t) /\ Spent(t)' = Spent(t)
    <3> SUFFICES ASSUME NEW t \in Sid, t # s
                 PROVE  Life3(t)' = Life3(t) /\ Token(t)' = Token(t) /\ Spent(t)' = Spent(t)
      OBVIOUS
    <3>1. session'[t] = session[t]
      BY <1>a, <2>2
    <3>2. \A g \in Hash : owner'[g] = t <=> owner[g] = t
      BY <1>a, <2>2, IdsAssumption
    <3>3. \A g \in Hash : owner[g] = t => exchanged'[g] = exchanged[g]
      BY <1>a, <2>2, <2>4
    <3> QED BY <3>1, <3>2, <3>3, FamilyKept
  <2>7. Life3(s) = "live" /\ Life3(s)' = "live" /\ Token(s) = old /\ Token(s)' = new
    BY <2>2, <2>3, <2>5 DEF Life3, Token, Live
  <2>8. Spent(s)' = Spent(s) \cup {old}
    <3>1. ASSUME NEW g \in Hash
          PROVE  owner'[g] = s /\ exchanged'[g] > 0 <=>
                   (owner[g] = s /\ exchanged[g] > 0) \/ g = old
      <4>1. CASE g = new
        <5>1. exchanged'[g] = 0 /\ owner[g] # s /\ g # old
          BY <1>a, <2>2, <2>4, <4>1, IdsAssumption
        <5> QED BY <5>1
      <4>2. CASE g = old
        <5>1. exchanged'[g] = exchanged[g] + 1 /\ exchanged[g] \in Nat /\ owner'[g] = s
          BY <1>a, <2>2, <2>4, <4>2
        <5>2. exchanged'[g] > 0
          BY <5>1
        <5> QED BY <4>2, <5>1, <5>2
      <4>3. CASE g # new /\ g # old
        BY <1>a, <2>2, <4>3
      <4> QED BY <4>1, <4>2, <4>3
    <3>2. Spent(s)' = {g \in Hash : owner'[g] = s /\ exchanged'[g] > 0}
      BY <2>1 DEF Spent
    <3> QED BY <2>1, <3>1, <3>2 DEF Spent
  <2>9. \A t \in Sid : Token(t) # new /\ new \notin Spent(t)
    BY <1>a, <2>2, FreshIsFree DEF Fresh
  <2>10. PICK c : c = Spent(s) \cup {old}
    OBVIOUS
  <2>11. /\ State' = [State EXCEPT ![s] = "live"]
         /\ Current' = [Current EXCEPT ![s] = new]
         /\ SpentOf' = [SpentOf EXCEPT ![s] = c]
    BY <2>6, <2>7, <2>8, <2>10, Everywhere
  <2>12. State' = State
    BY <2>7, <2>11 DEF State
  <2>13. SpentOf' = [SpentOf EXCEPT ![s] = @ \cup {Token(s)}]
    BY <2>7, <2>10, <2>11 DEF SpentOf
  <2> QED BY <2>7, <2>9, <2>11, <2>12, <2>13 DEF Exchanges
<1>3. ASSUME NEW s \in Sid, Ends(s) PROVE Dies(s) \/ Stands
  <2>1. session'[s].state # "live"
    BY <1>a, <1>3, RevokedFields DEF Ends
  <2>2. /\ \A t \in Sid : t # s => session'[t] = session[t]
        /\ owner' = owner /\ exchanged' = exchanged
    BY <1>a, <1>3 DEF Ends
  <2> QED BY <1>a, <2>1, <2>2, EndOrStand
<1>4. ASSUME NEW s \in Sid, Removes(s) PROVE Dies(s) \/ Stands
  <2>1. session'[s].state # "live"
    BY <1>a, <1>4 DEF Removes, NoSessionItem
  <2>2. /\ \A t \in Sid : t # s => session'[t] = session[t]
        /\ owner' = owner /\ exchanged' = exchanged
    BY <1>a, <1>4 DEF Removes
  <2> QED BY <1>a, <2>1, <2>2, EndOrStand
<1>5. ASSUME session' = session, owner' = owner, exchanged' = exchanged PROVE Stands
  BY <1>5, FamilyKept, Nowhere
<1>6. (\E h \in Hash : ReapPointer(h)) \/ Keeps =>
        session' = session /\ owner' = owner /\ exchanged' = exchanged
  BY DEF ReapPointer, Keeps
<1> QED BY <1>a, <1>1, <1>2, <1>3, <1>4, <1>5, <1>6, StoreStep

(* The store implements the abstract refresh-token family, when every      *)
(* request carries a rotation scope: a family has one current token, which *)
(* is exchanged once, and a family that has died stays dead.               *)
THEOREM Refinement ==
  ASSUME Scoped = Request
  PROVE  Spec => ImplementsFamily
<1>1. Init => Family!Init
  <2> SUFFICES ASSUME Init PROVE Family!Init
    OBVIOUS
  <2>1. \A s \in Sid : ~Live(s) /\ ~Opened(s)
    BY IdsAssumption DEF Init, Live, NoSessionItem, Opened
  <2>2. \A s \in Sid, h \in Hash : ~(owner[h] = s /\ exchanged[h] > 0)
    BY DEF Init
  <2> QED BY <2>1, <2>2 DEF Family!Init
<1>2. Init => Unspent /\ Pinned /\ OneWinnerPerToken
  BY DEF Init, Unspent, Pinned, OneWinnerPerToken, Live, NoSessionItem, Rotating
<1>3. WinnerInv /\ [Next]_vars => (Unspent /\ Pinned /\ OneWinnerPerToken)'
  BY WinnerNext, PinnedNext DEF WinnerInv
<1>4. WinnerInv /\ [Next]_vars => [Family!Next]_Family!vars
  <2> SUFFICES ASSUME WinnerInv, [Next]_vars PROVE [Family!Next]_Family!vars
    OBVIOUS
  <2>1. ASSUME NEW s \in Sid, NEW h \in Hash, Opens(s, h) PROVE Family!Next
    <3>1. Family!Free(h)
      BY <2>1 DEF Opens, Token, Spent, Family!Free
    <3>2. Family!Open(s, h)
      BY <2>1, <3>1 DEF Opens, State, Current, SpentOf, Life3, Token, Spent, Family!Open
    <3> QED BY <3>2 DEF Family!Next
  <2>2. ASSUME NEW s \in Sid, NEW h \in Hash, Exchanges(s, h) PROVE Family!Next
    <3>1. Family!Free(h)
      BY <2>2 DEF Exchanges, Token, Spent, Family!Free
    <3>2. Family!Exchange(s, h)
      BY <2>2, <3>1 DEF Exchanges, State, Current, SpentOf, Life3, Token, Spent, Family!Exchange
    <3> QED BY <3>2 DEF Family!Next
  <2>3. ASSUME NEW s \in Sid, Dies(s) PROVE Family!Next
    <3>1. Family!Die(s)
      BY <2>3 DEF Dies, State, Current, SpentOf, Life3, Token, Spent, Family!Die
    <3> QED BY <3>1 DEF Family!Next
  <2>4. ASSUME Stands PROVE UNCHANGED Family!vars
    BY <2>4 DEF Stands, State, Current, SpentOf, Life3, Token, Spent, Family!vars
  <2> QED BY <2>1, <2>2, <2>3, <2>4, FamilyStep
<1> QED
  BY <1>1, <1>2, <1>3, <1>4, StoreInvariant, PTL
     DEF Spec, WinnerInv, ImplementsFamily, Family!Spec
=============================================================================

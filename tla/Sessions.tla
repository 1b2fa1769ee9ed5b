------------------------------ MODULE Sessions ------------------------------
(***************************************************************************)
(* Refresh-token families in the DynamoDB store                            *)
(* (internal/store/dynamodb/sessions.go, rotation.go).                     *)
(*                                                                         *)
(* A request is a Lambda invocation that presents a refresh token.  Every  *)
(* action below is at most one DynamoDB call, which is the unit that is    *)
(* atomic; everything a request remembers between two calls is in req[r].  *)
(* Any request may be cut off between two calls (Abandon), and items past  *)
(* their TTL are removed independently and at an arbitrary later moment.   *)
(***************************************************************************)
EXTENDS Naturals

CONSTANTS
  Sid,        \* session ids: 128 random bits, never reused
  Hash,       \* hashes of refresh tokens: sha256 of 256 random bits
  Request,    \* requests, each of which presents one token once
  Scoped,     \* the requests whose context carries a rotation scope
  NoSession,  \* no session id
  NoHash,     \* no hash
  Life,       \* refresh-token lifetime, in ticks
  Grace,      \* ttlGrace: how much longer the items are kept
  MaxClock    \* bound on the clock, for model checking

ASSUME IdsAssumption ==
  /\ Scoped \subseteq Request
  /\ NoSession \notin Sid
  /\ NoHash \notin Hash

ASSUME TimeAssumption == Life \in Nat /\ Grace \in Nat /\ MaxClock \in Nat

VARIABLES
  session,    \* SESSION#<sid> items
  pointer,    \* REFRESH#<hash> items
  now,        \* the clock
  req,        \* what each request is doing
  owner,      \* history: the session each minted token was handed out for
  exchanged,  \* history: how many rotations each token has bought
  shown       \* history: how many requests have presented each token

vars == <<session, pointer, now, req, owner, exchanged, shown>>

Ops == {"refresh", "logout", "rotateSession"}
Reasons == {"logout", "admin_revoke", "refresh_replay"}
Steps == {"idle", "pointer", "session", "kill", "held", "done"}
Answers == {"none", "won", "notFound", "revoked", "expired", "ended", "error"}

firstGen == 1

(* A session item.  reason and revokedGen are meaningful once revoked. *)
SessionItem ==
  [state: {"absent", "live", "revoked"}, hash: Hash \cup {NoHash}, gen: Nat,
   exp: Nat, reason: Reasons \cup {"none"}, revokedGen: Nat]

NoSessionItem ==
  [state |-> "absent", hash |-> NoHash, gen |-> 0, exp |-> 0,
   reason |-> "none", revokedGen |-> 0]

PointerItem == [sid: Sid \cup {NoSession}, gen: Nat, ttl: Nat]

NoPointer == [sid |-> NoSession, gen |-> 0, ttl |-> 0]

(* What a request holds: the token it presented; the session its pointer   *)
(* named; the generation it read; and how tightly a rotation is pinned:    *)
(* rotationPrecondition's three shapes.  age is history: whether the token *)
(* was already superseded when it was presented.                           *)
RequestState ==
  [pc: Steps, op: Ops, hash: Hash \cup {NoHash}, sid: Sid \cup {NoSession},
   gen: Nat, pinned: {"none", "hash", "generation"},
   answer: Answers, age: {"current", "superseded"}]

TypeOK ==
  /\ session \in [Sid -> SessionItem]
  /\ pointer \in [Hash -> PointerItem]
  /\ now \in Nat
  /\ req \in [Request -> RequestState]
  /\ owner \in [Hash -> Sid \cup {NoSession}]
  /\ exchanged \in [Hash -> Nat]
  /\ shown \in [Hash -> Nat]

Init ==
  /\ session = [s \in Sid |-> NoSessionItem]
  /\ pointer = [h \in Hash |-> NoPointer]
  /\ now = 0
  /\ req = [r \in Request |->
              [pc |-> "idle", op |-> "refresh", hash |-> NoHash,
               sid |-> NoSession, gen |-> 0, pinned |-> "none",
               answer |-> "none", age |-> "current"]]
  /\ owner = [h \in Hash |-> NoSession]
  /\ exchanged = [h \in Hash |-> 0]
  /\ shown = [h \in Hash |-> 0]

-----------------------------------------------------------------------------
(* The items and the conditions the calls are made of. *)

(* Mutant: a pointer that is kept no longer than the token is valid. *)
refreshPointerWithoutGrace(s, gen, exp) == [sid |-> s, gen |-> gen, ttl |-> exp]

refreshPointer(s, gen, exp) == [sid |-> s, gen |-> gen, ttl |-> exp + Grace]

(* attribute_not_exists(PK) OR sessionId = :sid *)
PointerAvailable(h, s) == pointer[h].sid \in {NoSession, s}

(* A fresh token: 256 random bits no client has seen. *)
Fresh(h) == owner[h] = NoSession

(* Whether the session a token was minted for still has it as its hash. *)
Age(h) == IF session[owner[h]].hash = h THEN "current" ELSE "superseded"

(* attribute_exists(PK) AND attribute_not_exists(revokedAt) *)
Live(s) == session[s].state = "live"

Revoked(item, reason, gen) ==
  [item EXCEPT !.state = "revoked", !.reason = reason, !.revokedGen = gen]

Rotated(item, new, exp) ==
  [item EXCEPT !.hash = new, !.gen = item.gen + 1, !.exp = exp]

Become(r, state) == req' = [req EXCEPT ![r] = state]

Answer(r, a) == Become(r, [req[r] EXCEPT !.pc = "done", !.answer = a])

-----------------------------------------------------------------------------
(* CreateSession: the session and its first pointer in one transaction.    *)
(* The directory entry written with them is read by listings only.         *)
CreateSession(s, h) ==
  /\ \A g \in Hash : owner[g] # s
  /\ Fresh(h)
  /\ PointerAvailable(h, s)
  /\ session' = [session EXCEPT ![s] =
       [state |-> "live", hash |-> h, gen |-> firstGen, exp |-> now + Life,
        reason |-> "none", revokedGen |-> 0]]
  /\ pointer' = [pointer EXCEPT ![h] = refreshPointer(s, firstGen, now + Life)]
  /\ owner' = [owner EXCEPT ![h] = s]
  /\ UNCHANGED <<now, req, exchanged, shown>>

(* A client presents a token it was handed at some time, to POST /refresh  *)
(* or POST /logout.  Nothing keeps a client from presenting one again: a   *)
(* retry after a lost response and a thief look the same.                  *)
Present(r, op, h) ==
  /\ req[r].pc = "idle"
  /\ op \in {"refresh", "logout"}
  /\ ~Fresh(h)
  /\ Become(r, [req[r] EXCEPT
         !.pc = "pointer", !.op = op, !.hash = h, !.age = Age(h)])
  /\ shown' = [shown EXCEPT ![h] = @ + 1]
  /\ UNCHANGED <<session, pointer, now, owner, exchanged>>

(* RotateSession: a caller that holds the old hash skips both reads, and   *)
(* pins the rotation on that hash alone.                                   *)
RotateSession(r, h) ==
  /\ req[r].pc = "idle"
  /\ ~Fresh(h)
  /\ Become(r, [req[r] EXCEPT
         !.pc = "held", !.op = "rotateSession", !.hash = h,
         !.sid = owner[h], !.pinned = "hash", !.age = Age(h)])
  /\ shown' = [shown EXCEPT ![h] = @ + 1]
  /\ UNCHANGED <<session, pointer, now, owner, exchanged>>

(* GetSessionByRefreshTokenHash, first call: the pointer. *)
ReadPointer(r) ==
  /\ req[r].pc = "pointer"
  /\ LET p == pointer[req[r].hash] IN
       \/ /\ p.sid = NoSession
          /\ Answer(r, "notFound")
       \/ /\ p.sid # NoSession
          /\ Become(r, [req[r] EXCEPT
                 !.pc = "session", !.sid = p.sid, !.gen = p.gen])
  /\ UNCHANGED <<session, pointer, now, owner, exchanged, shown>>

(* Mutant: told by the generation instead, which RotateSession mislabels. *)
ReplayedByGeneration(r, item) == item.gen # req[r].gen

(* A live session whose hash is another token's: this one was exchanged. *)
Replayed(r, item) == item.hash # req[r].hash

(* Second call: the session.  A revoked one is returned (Service.Refresh   *)
(* answers SESSION_REVOKED; Service.Logout revokes it again); a live one   *)
(* whose hash has moved on is a replay; otherwise a scope, if the request  *)
(* has one, records what was read for UpdateSession to take.  The expiry   *)
(* is Service.Refresh's to judge, on the copy it is handed here.           *)
ReadSession(r) ==
  /\ req[r].pc = "session"
  /\ LET item == session[req[r].sid] IN
       \/ /\ item.state = "absent"
          /\ Answer(r, "notFound")
       \/ /\ item.state = "revoked"
          /\ IF req[r].op = "refresh"
               THEN Answer(r, "revoked")
               ELSE Become(r, [req[r] EXCEPT !.pc = "held"])
       \/ /\ item.state = "live"
          /\ Replayed(r, item)
          /\ Become(r, [req[r] EXCEPT !.pc = "kill"])
       \/ /\ item.state = "live"
          /\ ~Replayed(r, item)
          /\ req[r].op = "refresh" /\ now > item.exp
          /\ Answer(r, "expired")
       \/ /\ item.state = "live"
          /\ ~Replayed(r, item)
          /\ req[r].op = "refresh" => now <= item.exp
          /\ Become(r, [req[r] EXCEPT
                 !.pc = "held",
                 !.gen = IF r \in Scoped THEN item.gen ELSE 0,
                 !.pinned = IF r \in Scoped THEN "generation" ELSE "none"])
  /\ UNCHANGED <<session, pointer, now, owner, exchanged, shown>>

(* Mutant: conditional on the generation the pointer named as well. *)
revokeFamilyOfGeneration(r) ==
  /\ req[r].pc = "kill"
  /\ IF Live(req[r].sid) /\ session[req[r].sid].gen = req[r].gen
       THEN session' = [session EXCEPT ![req[r].sid] =
              Revoked(@, "refresh_replay", req[r].gen)]
       ELSE UNCHANGED session
  /\ Answer(r, "notFound")
  /\ UNCHANGED <<pointer, now, owner, exchanged, shown>>

(* revokeFamily, from the replay branch of the read or of a lost rotation. *)
(* A failed condition means somebody else revoked it first.                *)
revokeFamily(r) ==
  /\ req[r].pc = "kill"
  /\ IF Live(req[r].sid)
       THEN session' = [session EXCEPT ![req[r].sid] =
              Revoked(@, "refresh_replay", req[r].gen)]
       ELSE UNCHANGED session
  /\ Answer(r, "notFound")
  /\ UNCHANGED <<pointer, now, owner, exchanged, shown>>

-----------------------------------------------------------------------------
(* UpdateSession: rotate.  One transaction puts the new pointer and moves  *)
(* the session; its condition is the pinned part of what the request read. *)

Rotating(r) == req[r].pc = "held" /\ req[r].op \in {"refresh", "rotateSession"}

(* Mutant: the condition without what the request read. *)
RotationConditionUnpinned(r) == Live(req[r].sid)

RotationCondition(r) ==
  LET item == session[req[r].sid] IN
    /\ Live(req[r].sid)
    /\ req[r].pinned # "none" => item.hash = req[r].hash
    /\ req[r].pinned = "generation" => item.gen = req[r].gen

rotate(r, new) ==
  LET s == req[r].sid
      exp == now + Life
  IN /\ Rotating(r)
     /\ Fresh(new)
     /\ PointerAvailable(new, s)
     /\ RotationCondition(r)
     /\ pointer' = [pointer EXCEPT ![new] =
          refreshPointer(s, req[r].gen + 1, exp)]
     /\ session' = [session EXCEPT ![s] = Rotated(@, new, exp)]
     /\ owner' = [owner EXCEPT ![new] = s]
     /\ exchanged' = [exchanged EXCEPT ![req[r].hash] = @ + 1]
     /\ Answer(r, "won")
     /\ UNCHANGED <<now, shown>>

(* Mutant: a lost race is reported and the family left alone.              *)
classifyRotationLossQuietly(r) ==
  /\ Rotating(r)
  /\ ~RotationCondition(r)
  /\ Answer(r, "notFound")
  /\ UNCHANGED <<session, pointer, now, owner, exchanged, shown>>

(* classifyRotationLoss: the condition failed, and the pre-image says why. *)
classifyRotationLoss(r) ==
  /\ Rotating(r)
  /\ ~RotationCondition(r)
  /\ LET item == session[req[r].sid] IN
       \/ /\ item.state = "absent"
          /\ Answer(r, "notFound")
       \/ /\ item.state = "revoked"
          /\ Answer(r, "revoked")
       \/ /\ item.state = "live"
          /\ Become(r, [req[r] EXCEPT !.pc = "kill"])
  /\ UNCHANGED <<session, pointer, now, owner, exchanged, shown>>

(* Mutant: conditional on the hash that was presented.                     *)
revokePresented(r) ==
  /\ req[r].pc = "held"
  /\ req[r].op = "logout"
  /\ IF Live(req[r].sid) /\ session[req[r].sid].hash = req[r].hash
       THEN session' = [session EXCEPT ![req[r].sid] =
              Revoked(@, "logout", @.revokedGen)]
       ELSE UNCHANGED session
  /\ Answer(r, IF session[req[r].sid].state = "absent" THEN "notFound"
                                                       ELSE "ended")
  /\ UNCHANGED <<pointer, now, owner, exchanged, shown>>

(* UpdateSession with RevokedAt set: logout.  Idempotent, and the first    *)
(* revocation's reason is kept.                                            *)
revoke(r) ==
  /\ req[r].pc = "held"
  /\ req[r].op = "logout"
  /\ IF Live(req[r].sid)
       THEN session' = [session EXCEPT ![req[r].sid] =
              Revoked(@, "logout", @.revokedGen)]
       ELSE UNCHANGED session
  /\ Answer(r, IF session[req[r].sid].state = "absent" THEN "notFound"
                                                       ELSE "ended")
  /\ UNCHANGED <<pointer, now, owner, exchanged, shown>>

(* Mutant: without it. *)
RevokeSessionByIDAgain(s) ==
  /\ session[s].state # "absent"
  /\ session' = [session EXCEPT ![s] = Revoked(@, "admin_revoke", @.revokedGen)]
  /\ UNCHANGED <<pointer, now, req, owner, exchanged, shown>>

(* RevokeSessionByID: if_not_exists keeps an earlier revocation. *)
RevokeSessionByID(s) ==
  /\ Live(s)
  /\ session' = [session EXCEPT ![s] = Revoked(@, "admin_revoke", @.revokedGen)]
  /\ UNCHANGED <<pointer, now, req, owner, exchanged, shown>>

-----------------------------------------------------------------------------
(* The environment: DeleteUser's fan-out takes the session and leaves its  *)
(* pointers to TTL; TTL takes each item on its own, some time after it is  *)
(* due; a request is cut off, or its transaction keeps conflicting until   *)
(* transactWrite gives up, between any two of its calls.                   *)

DeleteSession(s) ==
  /\ session[s].state # "absent"
  /\ session' = [session EXCEPT ![s] = NoSessionItem]
  /\ UNCHANGED <<pointer, now, req, owner, exchanged, shown>>

ReapSession(s) ==
  /\ session[s].state # "absent"
  /\ now > session[s].exp + Grace
  /\ session' = [session EXCEPT ![s] = NoSessionItem]
  /\ UNCHANGED <<pointer, now, req, owner, exchanged, shown>>

ReapPointer(h) ==
  /\ pointer[h].sid # NoSession
  /\ now > pointer[h].ttl
  /\ pointer' = [pointer EXCEPT ![h] = NoPointer]
  /\ UNCHANGED <<session, now, req, owner, exchanged, shown>>

Abandon(r) ==
  /\ req[r].pc \notin {"idle", "done"}
  /\ Answer(r, "error")
  /\ UNCHANGED <<session, pointer, now, owner, exchanged, shown>>

Tick ==
  /\ now < MaxClock
  /\ now' = now + 1
  /\ UNCHANGED <<session, pointer, req, owner, exchanged, shown>>

-----------------------------------------------------------------------------
Serve(r) ==
  \/ ReadPointer(r)
  \/ ReadSession(r)
  \/ revokeFamily(r)
  \/ \E new \in Hash : rotate(r, new)
  \/ classifyRotationLoss(r)
  \/ revoke(r)

Next ==
  \/ \E s \in Sid, h \in Hash : CreateSession(s, h)
  \/ \E r \in Request, h \in Hash :
       RotateSession(r, h) \/ \E op \in Ops : Present(r, op, h)
  \/ \E r \in Request : Serve(r) \/ Abandon(r)
  \/ \E s \in Sid : RevokeSessionByID(s) \/ DeleteSession(s) \/ ReapSession(s)
  \/ \E h \in Hash : ReapPointer(h)
  \/ Tick

Spec == Init /\ [][Next]_vars

(* A request that has been presented is served: the invocation runs on     *)
(* unless it is cut off.  Clients and administrators owe nothing.          *)
FairSpec == Spec /\ \A r \in Request : WF_vars(Serve(r))

-----------------------------------------------------------------------------
(* One refresh of a token wins: however many requests present a token at   *)
(* once, it buys one rotation (rotate's condition on the session item).    *)
(* Holds when every request carries a scope, as the HTTP layer arranges.   *)
OneWinnerPerToken == \A h \in Hash : exchanged[h] <= 1

(* The token a client was last handed always leads back to its session:    *)
(* until the session is due for deletion, the pointer of its current hash  *)
(* is there and names it, although the two items expire independently.     *)
CurrentTokenResolves ==
  \A s \in Sid : Live(s) /\ now <= session[s].exp + Grace =>
    pointer[session[s].hash].sid = s

(* A pointer carries the generation its token belongs to, so the           *)
(* revokedGen a replay leaves behind says which generation leaked.         *)
PointerNamesGeneration ==
  \A s \in Sid : Live(s) /\ now <= session[s].exp + Grace =>
    pointer[session[s].hash].gen = session[s].gen

(* A race for a token does not go unanswered: once one request has won the *)
(* exchange and another that presented the same token has been turned away *)
(* at the session, the family is no longer live.                           *)
ReuseIsAnswered ==
  \A r1, r2 \in Request :
    /\ r1 # r2
    /\ req[r1].hash = req[r2].hash
    /\ req[r1].answer = "won"
    /\ req[r2].answer \in {"notFound", "revoked"}
    /\ req[r2].sid # NoSession
    => ~Live(req[r2].sid)

(* The late form, which needs no scope: a token that was already           *)
(* superseded when it was presented, once turned away, has ended its       *)
(* family.                                                                 *)
ReplayIsAnswered ==
  \A r \in Request :
    req[r].age = "superseded" /\ req[r].answer = "notFound" /\ req[r].sid # NoSession =>
      ~Live(req[r].sid)

(* No false alarm: a family is killed as replayed only when one of its     *)
(* tokens really was presented twice.                                      *)
FamilyDiesOnlyForReuse ==
  \A s \in Sid :
    session[s].state = "revoked" /\ session[s].reason = "refresh_replay" =>
      \E h \in Hash : owner[h] = s /\ shown[h] >= 2

(* A logout that was answered as done is done: whatever refresh was in     *)
(* flight, the session yields nothing more.                                *)
LogoutSticks ==
  \A r \in Request : req[r].answer = "ended" => ~Live(req[r].sid)

(* Revocation is final, and the first one's reason and generation are what *)
(* the record keeps: nothing changes a revoked item but its removal.       *)
RevocationIsFinal ==
  [][\A s \in Sid : session[s].state = "revoked" =>
       session'[s] \in {session[s], NoSessionItem}]_vars

(* A replay that reaches the session item ends the family, unless the      *)
(* invocation is cut off first.                                            *)
ReplayEndsTheFamily ==
  \A r \in Request, s \in Sid :
    req[r].pc = "session" /\ req[r].age = "superseded" /\ req[r].sid = s ~>
      req[r].answer = "error" \/ ~Live(s)

(* The families the items stand for: a session that was opened and is no   *)
(* longer live is dead, whether the item is a tombstone or gone.           *)
Opened(s) == \E h \in Hash : owner[h] = s

Family == INSTANCE RefreshFamily WITH
  state <- [s \in Sid |-> IF Live(s) THEN "live"
                          ELSE IF Opened(s) THEN "dead" ELSE "unopened"],
  current <- [s \in Sid |-> IF Live(s) THEN session[s].hash ELSE NoHash],
  spent <- [s \in Sid |-> {h \in Hash : owner[h] = s /\ exchanged[h] > 0}]

(* Scoped rotation implements the abstract family: one current token,      *)
(* exchanged once, by whoever held it while it was current.                *)
ImplementsFamily == Family!Spec
=============================================================================

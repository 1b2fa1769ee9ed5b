-------------------------- MODULE SingleUseTokens ---------------------------
(***************************************************************************)
(* The single-use token families of the DynamoDB store                     *)
(* (internal/store/dynamodb/tokens.go, feature_tokens.go, keys.go): reset, *)
(* magic link, e-mail verification and e-mail change, whose tokens are     *)
(* found through a pointer item, and SMS codes, whose caller names the     *)
(* user.  All are one flow, parameterised as tokenFamily is.               *)
(*                                                                         *)
(* Each action is at most one DynamoDB call.  The core's flow for a token  *)
(* is lookup, mutate (UpdatePassword, MarkEmailVerified, ...), clear; any  *)
(* number of requests run it at once and any may be cut off between calls. *)
(***************************************************************************)
EXTENDS Naturals

CONSTANTS
  User,
  Hash,        \* token or code hashes
  Request,     \* requests, each presenting one token once
  HasPointer,  \* tokenFamily.hasPointer: TRUE for links, FALSE for SMS
  ConsumeOnRead, \* FALSE under Options.NonAtomicSingleUseTokens
  NoUser,
  NoHash,
  Life,        \* lifetime of a token, in ticks
  MaxClock,    \* bound on the clock, for model checking
  MaxIssues    \* bound on issues of one code to one user, for model checking

ASSUME FamilyAssumption ==
  /\ HasPointer \in BOOLEAN /\ ConsumeOnRead \in BOOLEAN
  /\ NoUser \notin User
  /\ NoHash \notin Hash

ASSUME BoundsAssumption == Life \in Nat /\ MaxClock \in Nat /\ MaxIssues \in Nat

VARIABLES
  profile,   \* USER#<t>#<u>/PROFILE: the family's hash and expiry
  pointer,   \* RESET#<h>, MAGIC#<h>, ...: the user a hash was issued to
  now,       \* the clock
  req,       \* what each request is doing
  sweeping,  \* what each DeleteUser in progress set out to delete
  issued,    \* history: how often each hash was issued to each user
  redeemed,  \* history: how many consuming lookups of it found the user
  latest     \* history: the hash last issued to each user

vars == <<profile, pointer, now, req, sweeping, issued, redeemed, latest>>

Steps == {"idle", "pointer", "consume", "mutate", "clear", "done"}
Answers == {"none", "invalid", "notFound", "won"}

ProfileItem ==
  [state: {"absent", "present"}, hash: Hash \cup {NoHash}, exp: Nat]

NoProfile == [state |-> "absent", hash |-> NoHash, exp |-> 0]

PointerItem == [user: User \cup {NoUser}, ttl: Nat]

NoPointer == [user |-> NoUser, ttl |-> 0]

(* age is history: whether the profile already held another hash, or none, *)
(* when the token was presented.                                           *)
RequestState ==
  [pc: Steps, user: User \cup {NoUser}, hash: Hash \cup {NoHash},
   answer: Answers, age: {"current", "superseded"}]

TypeOK ==
  /\ profile \in [User -> ProfileItem]
  /\ pointer \in [Hash -> PointerItem]
  /\ now \in Nat
  /\ req \in [Request -> RequestState]
  /\ sweeping \subseteq User \X (Hash \cup {NoHash})
  /\ issued \in [User -> [Hash -> Nat]]
  /\ redeemed \in [User -> [Hash -> Nat]]
  /\ latest \in [User -> Hash \cup {NoHash}]

Init ==
  /\ profile = [u \in User |-> [state |-> "present", hash |-> NoHash, exp |-> 0]]
  /\ pointer = [h \in Hash |-> NoPointer]
  /\ now = 0
  /\ req = [r \in Request |-> [pc |-> "idle", user |-> NoUser, hash |-> NoHash,
                               answer |-> "none", age |-> "current"]]
  /\ sweeping = {}
  /\ issued = [u \in User |-> [h \in Hash |-> 0]]
  /\ redeemed = [u \in User |-> [h \in Hash |-> 0]]
  /\ latest = [u \in User |-> NoHash]

-----------------------------------------------------------------------------
(* A link's token is 256 random bits, a code is six digits: only a code    *)
(* can be issued again.                                                    *)
Fresh(h) == \A u \in User : issued[u][h] = 0

Exists(u) == profile[u].state = "present"

(* Mutant: the condition without the hash. *)
RedeemableUnmatched(u, h) == profile[u].exp > now

(* consumeSingleUseToken: "#hash = :hash AND #exp > :now".                 *)
Redeemable(u, h) == profile[u].hash = h /\ profile[u].exp > now

(* Mutant: a pointer that is due from the moment it is written. *)
pointerDueAtOnce(u, exp) == [user |-> u, ttl |-> exp - Life]

pointerTo(u, exp) == [user |-> u, ttl |-> exp]

Holding(u, h, exp) == [profile EXCEPT ![u] = [@ EXCEPT !.hash = h, !.exp = exp]]

Counted(count, u, h) == [count EXCEPT ![u][h] = @ + 1]

Become(r, state) == req' = [req EXCEPT ![r] = state]

Answer(r, a) == Become(r, [req[r] EXCEPT !.pc = "done", !.answer = a])

-----------------------------------------------------------------------------
(* issueSingleUseToken: the profile and, for a link, its pointer, in one   *)
(* transaction.  The pointer of the token it replaces is left to TTL.      *)
issueSingleUseToken(u, h) ==
  /\ Exists(u)
  /\ IF HasPointer
       THEN /\ Fresh(h)
            /\ pointer[h].user \in {NoUser, u}
            /\ pointer' = [pointer EXCEPT ![h] = pointerTo(u, now + Life)]
       ELSE /\ issued[u][h] < MaxIssues
            /\ UNCHANGED pointer
  /\ profile' = Holding(u, h, now + Life)
  /\ issued' = Counted(issued, u, h)
  /\ latest' = [latest EXCEPT ![u] = h]
  /\ UNCHANGED <<now, req, sweeping, redeemed>>

(* A link that was mailed to u is opened, once or again; or a code is      *)
(* typed for u, right or wrong.                                            *)
Present(r, u, h) ==
  /\ req[r].pc = "idle"
  /\ HasPointer => issued[u][h] > 0
  /\ Become(r, [pc |-> IF HasPointer THEN "pointer" ELSE "consume",
                user |-> IF HasPointer THEN NoUser ELSE u,
                hash |-> h, answer |-> "none",
                age |-> IF profile[u].hash = h THEN "current" ELSE "superseded"])
  /\ UNCHANGED <<profile, pointer, now, sweeping, issued, redeemed, latest>>

(* userBySingleUseToken: the pointer says whose profile to look at. *)
ReadPointer(r) ==
  /\ req[r].pc = "pointer"
  /\ LET u == pointer[req[r].hash].user IN
       \/ u = NoUser /\ Answer(r, "invalid")
       \/ u # NoUser /\ Become(r, [req[r] EXCEPT !.pc = "consume", !.user = u])
  /\ UNCHANGED <<profile, pointer, now, sweeping, issued, redeemed, latest>>

(* The lookup answered with the user: the core goes on to the mutation. *)
Won(r) ==
  /\ Become(r, [req[r] EXCEPT !.pc = "mutate", !.answer = "won"])
  /\ redeemed' = Counted(redeemed, req[r].user, req[r].hash)

(* Mutant: a conditional read, the removal left to the clear.              *)
consumeWhenCleared(r) ==
  /\ req[r].pc = "consume"
  /\ ConsumeOnRead
  /\ \/ Redeemable(req[r].user, req[r].hash) /\ Won(r)
     \/ /\ ~Redeemable(req[r].user, req[r].hash)
        /\ Answer(r, "invalid")
        /\ UNCHANGED redeemed
  /\ UNCHANGED <<profile, pointer, now, sweeping, issued, latest>>

(* One conditional write removes the hash and the expiry and answers with  *)
(* the pre-image; a lost condition is an invalid token.                    *)
consumeSingleUseToken(r) ==
  /\ req[r].pc = "consume"
  /\ ConsumeOnRead
  /\ \/ /\ Redeemable(req[r].user, req[r].hash)
        /\ profile' = Holding(req[r].user, NoHash, 0)
        /\ Won(r)
     \/ /\ ~Redeemable(req[r].user, req[r].hash)
        /\ Answer(r, "invalid")
        /\ UNCHANGED <<profile, redeemed>>
  /\ UNCHANGED <<pointer, now, sweeping, issued, latest>>

(* The write lands and its answer is lost: the client sends it again, and  *)
(* finds another hash than it asks for, or gives up.                       *)
consumeUnheard(r) ==
  /\ req[r].pc = "consume"
  /\ ConsumeOnRead
  /\ Redeemable(req[r].user, req[r].hash)
  /\ profile' = Holding(req[r].user, NoHash, 0)
  /\ UNCHANGED <<pointer, now, req, sweeping, issued, redeemed, latest>>

(* Mutant: the pointer taken at its word. *)
MatchesPointer(u, h) == Exists(u)

Matches(u, h) == profile[u].hash = h

(* The parity escape hatch: a read, and a comparison in this process.  It  *)
(* promises nothing, so its lookups are not counted.                       *)
userByTokenNonAtomic(r) ==
  /\ req[r].pc = "consume"
  /\ ~ConsumeOnRead
  /\ IF Matches(req[r].user, req[r].hash)
       THEN Become(r, [req[r] EXCEPT !.pc = "mutate", !.answer = "won"])
       ELSE Answer(r, "invalid")
  /\ UNCHANGED <<profile, pointer, now, sweeping, issued, redeemed, latest>>

(* The core's mutation: a write of other attributes of the profile, under  *)
(* attribute_exists(PK) (UpdatePassword, MarkEmailVerified).               *)
Mutate(r) ==
  /\ req[r].pc = "mutate"
  /\ IF Exists(req[r].user)
       THEN Become(r, [req[r] EXCEPT !.pc = "clear"])
       ELSE Answer(r, "notFound")
  /\ UNCHANGED <<profile, pointer, now, sweeping, issued, redeemed, latest>>

(* clearSingleUseToken: conditional on the user, not on the token. *)
clearSingleUseToken(r) ==
  /\ req[r].pc = "clear"
  /\ IF Exists(req[r].user)
       THEN /\ profile' = Holding(req[r].user, NoHash, 0)
            /\ Answer(r, req[r].answer)
       ELSE /\ Answer(r, "notFound")
            /\ UNCHANGED profile
  /\ UNCHANGED <<pointer, now, sweeping, issued, redeemed, latest>>

-----------------------------------------------------------------------------
(* DeleteUser reads the profile, then deletes it and the pointer it names  *)
(* in batches that are neither atomic nor ordered.                         *)

DeleteUser(u) ==
  /\ Exists(u)
  /\ sweeping' = sweeping \cup {<<u, profile[u].hash>>}
  /\ UNCHANGED <<profile, pointer, now, req, issued, redeemed, latest>>

SweepProfile(u) ==
  /\ \E h \in Hash \cup {NoHash} : <<u, h>> \in sweeping
  /\ Exists(u)
  /\ profile' = [profile EXCEPT ![u] = NoProfile]
  /\ UNCHANGED <<pointer, now, req, sweeping, issued, redeemed, latest>>

SweepPointer(h) ==
  /\ \E u \in User : <<u, h>> \in sweeping
  /\ pointer[h] # NoPointer
  /\ pointer' = [pointer EXCEPT ![h] = NoPointer]
  /\ UNCHANGED <<profile, now, req, sweeping, issued, redeemed, latest>>

(* TTL takes a pointer at some time after it is due. *)
ReapPointer(h) ==
  /\ pointer[h] # NoPointer
  /\ now > pointer[h].ttl
  /\ pointer' = [pointer EXCEPT ![h] = NoPointer]
  /\ UNCHANGED <<profile, now, req, sweeping, issued, redeemed, latest>>

(* A request is cut off between two of its calls. *)
Abandon(r) ==
  /\ req[r].pc \notin {"idle", "done"}
  /\ Answer(r, req[r].answer)
  /\ UNCHANGED <<profile, pointer, now, sweeping, issued, redeemed, latest>>

Tick ==
  /\ now < MaxClock
  /\ now' = now + 1
  /\ UNCHANGED <<profile, pointer, req, sweeping, issued, redeemed, latest>>

-----------------------------------------------------------------------------
Next ==
  \/ \E u \in User, h \in Hash :
       issueSingleUseToken(u, h) \/ \E r \in Request : Present(r, u, h)
  \/ \E r \in Request :
       \/ ReadPointer(r)
       \/ consumeSingleUseToken(r)
       \/ consumeUnheard(r)
       \/ userByTokenNonAtomic(r)
       \/ Mutate(r)
       \/ clearSingleUseToken(r)
       \/ Abandon(r)
  \/ \E u \in User : DeleteUser(u) \/ SweepProfile(u)
  \/ \E h \in Hash : SweepPointer(h) \/ ReapPointer(h)
  \/ Tick

Spec == Init /\ [][Next]_vars

-----------------------------------------------------------------------------
(* However many requests present a token at once, consuming lookups        *)
(* answer each issue of it with the user at most once                      *)
(* (consumeSingleUseToken).                                                *)
RedeemedAtMostOnce ==
  \A u \in User, h \in Hash : redeemed[u][h] <= issued[u][h]

(* A link that had been replaced or spent when it was opened never         *)
(* resolves, though its pointer item is still there.                       *)
SupersededNeverWins ==
  \A r \in Request : HasPointer /\ req[r].age = "superseded" => req[r].answer # "won"

(* The link a user was last sent resolves for as long as it could be       *)
(* redeemed, although profile and pointer are two items and expire apart.  *)
OutstandingResolves ==
  \A u \in User, h \in Hash :
    /\ HasPointer
    /\ Redeemable(u, h)
    /\ <<u, h>> \notin sweeping
    => pointer[h].user = u

(* Clear after a consuming lookup is a no-op (tokens.go: "Clear*Token      *)
(* afterwards is then an idempotent no-op"): the link a user was last sent *)
(* and nobody has opened stays redeemable until it expires.                *)
UnopenedLinkSurvives ==
  \A u \in User, h \in Hash :
    /\ latest[u] = h /\ Exists(u)
    /\ pointer[h].user = u /\ pointer[h].ttl > now
    /\ \A r \in Request : req[r].hash # h
    => Redeemable(u, h)

Tokens == INSTANCE OneTime WITH
  Holder <- User,
  Secret <- Hash,
  NoSecret <- NoHash,
  outstanding <- [u \in User |-> profile[u].hash]

(* The family implements the abstract one-time secret, redeemed by         *)
(* consuming lookups, pointers, expiry, deletion and lost requests         *)
(* notwithstanding.                                                        *)
ImplementsOneTime == Tokens!Spec
=============================================================================

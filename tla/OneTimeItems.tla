---------------------------- MODULE OneTimeItems -----------------------------
(***************************************************************************)
(* Credentials that are items of their own                                 *)
(* (internal/store/dynamodb/pending_links.go, auth_codes.go, and           *)
(* tokens.go: consumeItemOnce): authorization codes, OAuth state nonces    *)
(* and account-link tokens, each served once, and the account-conflict     *)
(* stash, which is read as often as wanted until it is deleted.            *)
(***************************************************************************)
EXTENDS Naturals

CONSTANTS
  Key,            \* partition keys: code hashes, states, tokens
  Kind,           \* [Key -> {"code", "credential", "stash"}]
  Request,        \* requests, each looking one key up
  ConsumeOnRead,  \* FALSE under Options.NonAtomicSingleUseTokens
  Lifetimes,      \* lifetimes a caller may ask for; 0 is no deadline
  MaxClock,       \* bound on the clock, for model checking
  MaxSaves        \* bound on the saves of one stash, for model checking

(* Each key is of one kind, and the bounds are numbers. *)
keysHaveAKind ==
  /\ Kind \in [Key -> {"code", "credential", "stash"}]
  /\ ConsumeOnRead \in BOOLEAN
  /\ Lifetimes \subseteq Nat
  /\ MaxClock \in Nat /\ MaxSaves \in Nat

VARIABLES
  item,    \* AUTHCODE#<h>, PENDING#<state>: presence and expiresAt
  now,     \* the clock
  req,     \* what each request is doing
  saves,   \* history: how often each key was saved
  served,  \* history: how many lookups of it succeeded
  dropped, \* history: the keys a Delete has removed
  spent    \* history: the keys consumed by a call whose answer was lost

vars == <<item, now, req, saves, served, dropped, spent>>

Item == [state: {"absent", "present"}, exp: Nat]
NoItem == [state |-> "absent", exp |-> 0]

(* known and deadline are history: whether the entry was there, and until  *)
(* when, at the time the key was presented.                                *)
RequestState ==
  [pc: {"idle", "get", "act", "delete", "done"}, key: Key \cup {"none"},
   answer: {"none", "notFound", "expired", "served"},
   known: {"absent", "there"}, deadline: Nat]

TypeOK ==
  /\ item \in [Key -> Item]
  /\ now \in Nat
  /\ req \in [Request -> RequestState]
  /\ saves \in [Key -> Nat]
  /\ served \in [Key -> Nat]
  /\ dropped \subseteq Key
  /\ spent \subseteq Key

Init ==
  /\ item = [k \in Key |-> NoItem]
  /\ now = 1
  /\ req = [r \in Request |-> [pc |-> "idle", key |-> "none", answer |-> "none",
                               known |-> "absent", deadline |-> 0]]
  /\ saves = [k \in Key |-> 0]
  /\ served = [k \in Key |-> 0]
  /\ dropped = {}
  /\ spent = {}

-----------------------------------------------------------------------------
Present(k) == item[k].state = "present"

(* pendingLinkIsSingleUse, and consumeOnRead, which does not reach codes.  *)
SingleUse(k) == Kind[k] = "code" \/ (Kind[k] = "credential" /\ ConsumeOnRead)

(* Mutant: one tick too strict. *)
InTimeEarly(k) == item[k].exp = 0 \/ item[k].exp > now + 1

(* attribute_not_exists(#exp) OR #exp > :now *)
InTime(k) == item[k].exp = 0 \/ item[k].exp > now

Become(r, state) == req' = [req EXCEPT ![r] = state]

Answer(r, a) == Become(r, [req[r] EXCEPT !.pc = "done", !.answer = a])

-----------------------------------------------------------------------------
(* SaveCode, PendingLinks.Save: an unconditional put.  Codes and           *)
(* credentials are fresh random values; a stash may be written again.      *)
Save(k, life) ==
  /\ saves[k] < IF Kind[k] = "stash" THEN MaxSaves ELSE 1
  /\ item' = [item EXCEPT ![k] =
       [state |-> "present", exp |-> IF life = 0 THEN 0 ELSE now + life]]
  /\ saves' = [saves EXCEPT ![k] = @ + 1]
  /\ dropped' = dropped \ {k}
  /\ UNCHANGED <<now, req, served, spent>>

Lookup(r, k) ==
  /\ req[r].pc = "idle"
  /\ Become(r, [pc |-> "get", key |-> k, answer |-> "none",
                known |-> IF Present(k) THEN "there" ELSE "absent",
                deadline |-> item[k].exp])
  /\ UNCHANGED <<item, now, saves, served, dropped, spent>>

(* What a lookup answers when it does not serve: an item past its deadline *)
(* is left for TTL, and told apart from none (a code's caller is not told).*)
Refused(k) ==
  IF Present(k) /\ Kind[k] # "code" THEN "expired" ELSE "notFound"

Served(r) ==
  /\ Become(r, [req[r] EXCEPT !.answer = "served",
                  !.pc = IF Kind[req[r].key] = "code" THEN "done" ELSE "act"])
  /\ served' = [served EXCEPT ![req[r].key] = @ + 1]

(* Mutant: a conditional read, the removal left to the Delete. *)
consumeItemLater(r) ==
  LET k == req[r].key IN
    /\ req[r].pc = "get"
    /\ SingleUse(k)
    /\ \/ Present(k) /\ InTime(k) /\ Served(r)
       \/ /\ ~(Present(k) /\ InTime(k))
          /\ Answer(r, Refused(k))
          /\ UNCHANGED served
    /\ UNCHANGED <<item, now, saves, dropped, spent>>

(* consumeItemOnce: the conditional delete is the lookup.                  *)
consumeItemOnce(r) ==
  LET k == req[r].key IN
    /\ req[r].pc = "get"
    /\ SingleUse(k)
    /\ \/ /\ Present(k) /\ InTime(k)
          /\ item' = [item EXCEPT ![k] = NoItem]
          /\ Served(r)
       \/ /\ ~(Present(k) /\ InTime(k))
          /\ Answer(r, Refused(k))
          /\ UNCHANGED <<item, served>>
    /\ UNCHANGED <<now, saves, dropped, spent>>

(* The call lands and its answer is lost: the client sends it again, and   *)
(* finds nothing, or gives up.                                             *)
consumeUnheard(r) ==
  LET k == req[r].key IN
    /\ req[r].pc = "get"
    /\ SingleUse(k)
    /\ Present(k) /\ InTime(k)
    /\ item' = [item EXCEPT ![k] = NoItem]
    /\ spent' = spent \cup {k}
    /\ UNCHANGED <<now, req, saves, served, dropped>>

(* PendingLinks.read: the stash, and credentials under the parity switch. *)
read(r) ==
  LET k == req[r].key IN
    /\ req[r].pc = "get"
    /\ ~SingleUse(k)
    /\ \/ Present(k) /\ InTime(k) /\ Served(r)
       \/ /\ ~(Present(k) /\ InTime(k))
          /\ Answer(r, Refused(k))
          /\ UNCHANGED served
    /\ UNCHANGED <<item, now, saves, dropped, spent>>

(* The core's flow after a Get: it links the account, or issues a token    *)
(* and stops there; the one that linked deletes the entry.                 *)
Act(r) ==
  /\ req[r].pc = "act"
  /\ \/ Become(r, [req[r] EXCEPT !.pc = "delete"])
     \/ Answer(r, req[r].answer)
  /\ UNCHANGED <<item, now, saves, served, dropped, spent>>

Delete(r) ==
  /\ req[r].pc = "delete"
  /\ item' = [item EXCEPT ![req[r].key] = NoItem]
  /\ dropped' = IF Present(req[r].key) THEN dropped \cup {req[r].key} ELSE dropped
  /\ Answer(r, req[r].answer)
  /\ UNCHANGED <<now, saves, served, spent>>

(* TTL takes an item at some time after it is due, if it has a deadline. *)
Reap(k) ==
  /\ Present(k) /\ ~InTime(k)
  /\ item' = [item EXCEPT ![k] = NoItem]
  /\ UNCHANGED <<now, req, saves, served, dropped, spent>>

Abandon(r) ==
  /\ req[r].pc \in {"get", "delete"}
  /\ Answer(r, req[r].answer)
  /\ UNCHANGED <<item, now, saves, served, dropped, spent>>

Tick ==
  /\ now < MaxClock
  /\ now' = now + 1
  /\ UNCHANGED <<item, req, saves, served, dropped, spent>>

Next ==
  \/ \E k \in Key :
       \/ \E life \in Lifetimes : Save(k, life)
       \/ \E r \in Request : Lookup(r, k)
       \/ Reap(k)
  \/ \E r \in Request :
       \/ consumeItemOnce(r)
       \/ consumeUnheard(r)
       \/ read(r)
       \/ Act(r)
       \/ Delete(r)
       \/ Abandon(r)
  \/ Tick

Spec == Init /\ [][Next]_vars

-----------------------------------------------------------------------------
(* An authorization code, a state nonce or an account-link token is served *)
(* to one of the requests that race for it (consumeItemOnce); codes are    *)
(* even when Options.NonAtomicSingleUseTokens is set.                      *)
ServedAtMostOnce ==
  \A k \in Key :
    Kind[k] = "code" \/ (Kind[k] = "credential" /\ ConsumeOnRead)
      => served[k] <= saves[k]

(* Nobody loses to nobody: a lookup of an entry that was there to be found *)
(* fails only if another lookup was served, the entry was deleted, its     *)
(* deadline has passed, or the call that consumed it was answered into the *)
(* void (consumeItemOnce cannot tell its own resend from a second caller). *)
LosersHaveAWinner ==
  \A r \in Request :
    /\ req[r].answer \in {"notFound", "expired"}
    /\ req[r].known = "there"
    => LET k == req[r].key IN
         \/ Kind[k] # "stash" /\ served[k] > 0
         \/ k \in dropped \cup spent
         \/ req[r].deadline # 0 /\ now >= req[r].deadline
         \/ saves[k] > 1

Credentials == {k \in Key : Kind[k] = "code" \/ (Kind[k] = "credential" /\ ConsumeOnRead)}
=============================================================================

------------------------------- MODULE ApiKeys --------------------------------
(***************************************************************************)
(* API keys (internal/store/dynamodb/api_keys.go).                         *)
(*                                                                         *)
(* A key is two items: APIKEY#<prefix>, the record, which requests         *)
(* authenticate against, and KEYID#<id>, a pointer to it, by which it is   *)
(* revoked, deleted and stamped.  The prefix is 32 random bits, so two     *)
(* keys may come to share one; ids do not repeat.                          *)
(***************************************************************************)
EXTENDS Naturals

CONSTANTS
  Id, NoId,
  Prefix, NoPrefix,
  PrefixOf,  \* [Id -> Prefix]: the prefix each key was minted with
  Caller,    \* requests, one operation each
  Throttle,  \* apiKeyLastUsedThrottle
  MaxClock   \* bound on the clock, for model checking

ASSUME KeysAssumption ==
  /\ NoId \notin Id /\ NoPrefix \notin Prefix
  /\ PrefixOf \in [Id -> Prefix]
  /\ Throttle \in Nat /\ MaxClock \in Nat

VARIABLES
  record,   \* APIKEY#<prefix>
  pointer,  \* KEYID#<id>: the prefix it names
  now,
  call,     \* what each request is doing
  saved,    \* history: the keys that were saved
  asked,    \* history: the keys a Revoke was called for
  revoked   \* history: the keys a Revoke has answered success for

vars == <<record, pointer, now, call, saved, asked, revoked>>

NoRecord == [state |-> "absent", id |-> NoId, lastUsed |-> 0]

(* A record that exists has an id; lastUsed is 0 as long as the attribute  *)
(* does not exist.                                                         *)
Record ==
  {NoRecord} \cup [state: {"active", "revoked"}, id: Id, lastUsed: Nat]

(* when is the time a verified request passes to UpdateLastUsed. *)
Call ==
  [pc: {"idle", "resolve", "act", "drop", "done"},
   op: {"none", "revoke", "delete", "stamp"},
   id: Id \cup {NoId}, prefix: Prefix \cup {NoPrefix}, when: Nat]

TypeOK ==
  /\ record \in [Prefix -> Record]
  /\ pointer \in [Id -> Prefix \cup {NoPrefix}]
  /\ now \in Nat
  /\ call \in [Caller -> Call]
  /\ saved \subseteq Id /\ asked \subseteq Id /\ revoked \subseteq Id

Init ==
  /\ record = [p \in Prefix |-> NoRecord]
  /\ pointer = [i \in Id |-> NoPrefix]
  /\ now = 1
  /\ call = [c \in Caller |-> [pc |-> "idle", op |-> "none", id |-> NoId,
                               prefix |-> NoPrefix, when |-> 0]]
  /\ saved = {} /\ asked = {} /\ revoked = {}

-----------------------------------------------------------------------------
Exists(p) == record[p].state # "absent"

Become(c, state) == call' = [call EXCEPT ![c] = state]

Finish(c) == Become(c, [call[c] EXCEPT !.pc = "done"])

(* attribute_not_exists(PK), on both items. *)
Free(i) == ~Exists(PrefixOf[i]) /\ pointer[i] = NoPrefix

(* Save: both items or neither.  A taken prefix is ErrAPIKeyExists, and    *)
(* the key is never handed out.                                            *)
Save(i) ==
  /\ i \notin saved
  /\ saved' = saved \cup {i}
  /\ \/ /\ Free(i)
        /\ record' = [record EXCEPT ![PrefixOf[i]] =
                        [state |-> "active", id |-> i, lastUsed |-> 0]]
        /\ pointer' = [pointer EXCEPT ![i] = PrefixOf[i]]
     \/ ~Free(i) /\ UNCHANGED <<record, pointer>>
  /\ UNCHANGED <<now, call, asked, revoked>>

(* FindByPrefix answers an active record, and the core's Verify goes on to *)
(* UpdateLastUsed with the record's id.                                    *)
Verify(c, p) ==
  /\ call[c].pc = "idle"
  /\ record[p].state = "active"
  /\ Become(c, [call[c] EXCEPT !.pc = "resolve", !.op = "stamp",
                               !.id = record[p].id, !.when = now])
  /\ UNCHANGED <<record, pointer, now, saved, asked, revoked>>

(* An administrator calls Revoke or Delete with the id of a key. *)
Ask(c, op, i) ==
  /\ call[c].pc = "idle"
  /\ i \in saved
  /\ Become(c, [call[c] EXCEPT !.pc = "resolve", !.op = op, !.id = i])
  /\ asked' = IF op = "revoke" THEN asked \cup {i} ELSE asked
  /\ UNCHANGED <<record, pointer, now, saved, revoked>>

Revokes(c) == IF call[c].op = "revoke" THEN revoked \cup {call[c].id} ELSE revoked

(* apiKeyPrefixForID.  An id with no pointer is success for all three. *)
Resolve(c) ==
  /\ call[c].pc = "resolve"
  /\ IF pointer[call[c].id] = NoPrefix
       THEN Finish(c) /\ revoked' = Revokes(c)
       ELSE /\ Become(c, [call[c] EXCEPT !.pc = "act", !.prefix = pointer[call[c].id]])
            /\ UNCHANGED revoked
  /\ UNCHANGED <<record, pointer, now, saved, asked>>

Acting(c, op) == call[c].pc = "act" /\ call[c].op = op

(* Mutant: the revocation is the deletion of the pointer. *)
RevokeByPointer(c) ==
  /\ Acting(c, "revoke")
  /\ pointer' = [pointer EXCEPT ![call[c].id] = NoPrefix]
  /\ Finish(c)
  /\ revoked' = Revokes(c)
  /\ UNCHANGED <<record, now, saved, asked>>

(* Revoke: conditional on a record being there, whose ever it is. *)
Revoke(c) ==
  LET p == call[c].prefix IN
    /\ Acting(c, "revoke")
    /\ record' = [record EXCEPT ![p] =
         IF Exists(p) THEN [record[p] EXCEPT !.state = "revoked"] ELSE record[p]]
    /\ Finish(c)
    /\ revoked' = Revokes(c)
    /\ UNCHANGED <<pointer, now, saved, asked>>

(* attribute_not_exists(lastUsedAt) OR lastUsedAt < :staleBefore *)
Stale(p, when) == record[p].lastUsed = 0 \/ record[p].lastUsed + Throttle < when

(* UpdateLastUsed; a lost condition is success. *)
UpdateLastUsed(c) ==
  LET p == call[c].prefix IN
    /\ Acting(c, "stamp")
    /\ record' = [record EXCEPT ![p] =
         IF Exists(p) /\ Stale(p, call[c].when)
           THEN [record[p] EXCEPT !.lastUsed = call[c].when]
           ELSE record[p]]
    /\ Finish(c)
    /\ UNCHANGED <<pointer, now, saved, asked, revoked>>

(* Mutant: unconditional. *)
OwnsAny(p, i) == TRUE

(* attribute_not_exists(PK) OR keyId = :id *)
Owns(p, i) == ~Exists(p) \/ record[p].id = i

(* Delete: the record and its pointer together; if the prefix has passed   *)
(* to another key, the pointer alone.                                      *)
Delete(c) ==
  LET p == call[c].prefix IN
    /\ Acting(c, "delete")
    /\ \/ /\ Owns(p, call[c].id)
          /\ record' = [record EXCEPT ![p] = NoRecord]
          /\ pointer' = [pointer EXCEPT ![call[c].id] = NoPrefix]
          /\ Finish(c)
       \/ /\ ~Owns(p, call[c].id)
          /\ Become(c, [call[c] EXCEPT !.pc = "drop"])
          /\ UNCHANGED <<record, pointer>>
    /\ UNCHANGED <<now, saved, asked, revoked>>

DropPointer(c) ==
  /\ call[c].pc = "drop"
  /\ pointer' = [pointer EXCEPT ![call[c].id] = NoPrefix]
  /\ Finish(c)
  /\ UNCHANGED <<record, now, saved, asked, revoked>>

(* A call fails, or the invocation is cut off. *)
Abandon(c) ==
  /\ call[c].pc \in {"resolve", "act", "drop"}
  /\ Finish(c)
  /\ UNCHANGED <<record, pointer, now, saved, asked, revoked>>

Tick ==
  /\ now < MaxClock
  /\ now' = now + 1
  /\ UNCHANGED <<record, pointer, call, saved, asked, revoked>>

Next ==
  \/ \E i \in Id : Save(i)
  \/ \E c \in Caller :
       \/ \E p \in Prefix : Verify(c, p)
       \/ \E i \in Id : Ask(c, "revoke", i) \/ Ask(c, "delete", i)
       \/ Resolve(c)
       \/ Revoke(c) \/ UpdateLastUsed(c)
       \/ Delete(c) \/ DropPointer(c)
       \/ Abandon(c)
  \/ Tick

Spec == Init /\ [][Next]_vars

-----------------------------------------------------------------------------
(* Every key that authenticates can be revoked, and every id that resolves *)
(* names its own record: "a canonical record with no pointer is a key that *)
(* authenticates and cannot be revoked" (Save), and "nothing here produces *)
(* that state" of the converse (FindByID).                                 *)
KeysAreRevocable ==
  /\ \A p \in Prefix : Exists(p) => pointer[record[p].id] = p
  /\ \A i \in Id : pointer[i] # NoPrefix => record[pointer[i]].id = i

(* Once Revoke has answered success, the key never authenticates again,    *)
(* though it was read, deleted or stamped by others meanwhile.             *)
RevocationIsFinal ==
  \A p \in Prefix : record[p].state = "active" => record[p].id \notin revoked

(* A record goes only through a Delete of its own id: one that arrives     *)
(* after the prefix passed to another key leaves that key alone (Delete).  *)
GoneByItsOwnDelete ==
  [][\A p \in Prefix :
       Exists(p) /\ record'[p].id # record[p].id
         => \E c \in Caller : Acting(c, "delete") /\ call[c].id = record[p].id]_vars

(* A record is inactive only because its own id was revoked. *)
RevokedByItsOwnId ==
  \A p \in Prefix : record[p].state = "revoked" => record[p].id \in asked
=============================================================================

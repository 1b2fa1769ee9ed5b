------------------------------- MODULE Emails -------------------------------
(***************************************************************************)
(* Users and the uniqueness of their addresses                             *)
(* (internal/store/dynamodb/users.go: CreateUser, DeleteUser;              *)
(* feature_tokens.go: the e-mail change flow; paging.go: deleteKeys).      *)
(*                                                                         *)
(* An address is unique because an EMAIL#<address> item exists once.  A    *)
(* user is that item and a profile, written and moved in one transaction,  *)
(* but deleted item by item from keys that were read before.               *)
(***************************************************************************)
CONSTANTS
  User,          \* user ids: fresh for every registration
  Email,         \* normalised addresses
  Token,         \* hashes of e-mail change tokens
  Confirmation,  \* POST /change-email/confirm requests
  Deletion,      \* DeleteUser invocations
  Target,        \* [Deletion -> User]: whom each one deletes
  Changeable,    \* the users that ask for an e-mail change
  NoUser, NoEmail, NoToken

ASSUME NamesAssumption ==
  /\ NoUser \notin User /\ NoEmail \notin Email /\ NoToken \notin Token
  /\ Target \in [Deletion -> User]
  /\ Changeable \subseteq User

VARIABLES
  profile,    \* USER#<t>#<u>/PROFILE: address, pending address, echg token
  emailItem,  \* EMAIL#<t>#<e>: the user whose address e is
  conf,       \* what each confirmation is doing
  del,        \* what each deletion is doing
  asked,      \* history: for whom and which address each token was issued
  moved,      \* history: who changed the address while being deleted
  robbed      \* history: whose EMAIL# item a step of an overtaken user removed

vars == <<profile, emailItem, conf, del, asked, moved, robbed>>

Profile ==
  [state: {"absent", "present"}, email: Email \cup {NoEmail},
   pending: Email \cup {NoEmail}, token: Token \cup {NoToken}]

NoProfile ==
  [state |-> "absent", email |-> NoEmail, pending |-> NoEmail, token |-> NoToken]

(* old and new are the two values ApplyEmailChange reads. *)
ConfState ==
  [pc: {"idle", "consume", "read", "apply", "clear", "done"},
   token: Token \cup {NoToken}, user: User \cup {NoUser},
   old: Email \cup {NoEmail}, new: Email \cup {NoEmail},
   answer: {"none", "applied", "invalid", "notFound", "noPending", "exists"}]

(* todo is what is left of the keys to delete, email the address its       *)
(* EMAIL# key was made of.                                                 *)
DelState ==
  [pc: {"idle", "sweeping", "done"}, todo: SUBSET {"profile", "email"},
   email: Email \cup {NoEmail}, answer: {"none", "deleted", "notFound", "error"}]

Ask == [user: User \cup {NoUser}, email: Email \cup {NoEmail}]

TypeOK ==
  /\ profile \in [User -> Profile]
  /\ emailItem \in [Email -> User \cup {NoUser}]
  /\ conf \in [Confirmation -> ConfState]
  /\ del \in [Deletion -> DelState]
  /\ asked \in [Token -> Ask]
  /\ moved \subseteq User /\ robbed \subseteq User

Init ==
  /\ profile = [u \in User |-> NoProfile]
  /\ emailItem = [e \in Email |-> NoUser]
  /\ conf = [c \in Confirmation |->
               [pc |-> "idle", token |-> NoToken, user |-> NoUser,
                old |-> NoEmail, new |-> NoEmail, answer |-> "none"]]
  /\ del = [d \in Deletion |->
              [pc |-> "idle", todo |-> {}, email |-> NoEmail, answer |-> "none"]]
  /\ asked = [t \in Token |-> [user |-> NoUser, email |-> NoEmail]]
  /\ moved = {} /\ robbed = {}

-----------------------------------------------------------------------------
Exists(u) == profile[u].state = "present"

(* A deletion of u has read its keys: u is on the way out. *)
Begun(d) == del[d].pc # "idle" /\ del[d].answer # "notFound"
Doomed(u) == \E d \in Deletion : Target[d] = u /\ Begun(d)

Twice(u) ==
  \E d, x \in Deletion : d # x /\ Target[d] = u /\ Target[x] = u /\ Begun(d) /\ Begun(x)

(* The address u goes by may be another's by now: u changed it while being *)
(* deleted, or is deleted again, or lost its own item to such a one.       *)
Overtaken(u) == u \in moved' \cup robbed \/ Twice(u)

(* A step of u removes the item of e without a condition.                  *)
Removes(u, e) ==
  robbed' = robbed \cup {v \in User \ {u} : emailItem[e] = v /\ Overtaken(u)}

(* Ids are random: no user is created with the id of one that was deleted. *)
NewId(u) == ~Exists(u) /\ ~Doomed(u)

Confirming(c, state) == conf' = [conf EXCEPT ![c] = state]

AnswerConf(c, a) == Confirming(c, [conf[c] EXCEPT !.pc = "done", !.answer = a])

Deleting(d, state) == del' = [del EXCEPT ![d] = state]

-----------------------------------------------------------------------------
(* CreateUser: the profile and the EMAIL# item, each only if absent, in    *)
(* one transaction.                                                        *)

(* Mutant: an item whose user is gone passes as well.                      *)
AvailableOrLeftOver(e) == emailItem[e] \notin {u \in User : Exists(u)}

(* attribute_not_exists(PK) on the EMAIL# item. *)
Available(e) == emailItem[e] = NoUser

CreateUser(u, e) ==
  /\ NewId(u)
  /\ Available(e)
  /\ profile' = [profile EXCEPT ![u] =
       [state |-> "present", email |-> e, pending |-> NoEmail, token |-> NoToken]]
  /\ emailItem' = [emailItem EXCEPT ![e] = u]
  /\ UNCHANGED <<conf, del, asked, moved, robbed>>

(* UpdateEmailChangeToken: the token and the address it is for, together.  *)
UpdateEmailChangeToken(u, e, t) ==
  /\ u \in Changeable
  /\ Exists(u)
  /\ asked[t].user = NoUser
  /\ profile' = [profile EXCEPT ![u] = [@ EXCEPT !.token = t, !.pending = e]]
  /\ asked' = [asked EXCEPT ![t] = [user |-> u, email |-> e]]
  /\ UNCHANGED <<emailItem, conf, del, moved, robbed>>

-----------------------------------------------------------------------------
(* ConfirmEmailChange.  The link's token names its user (its pointer item  *)
(* is SingleUseTokens' business).                                          *)
Confirm(c, t) ==
  /\ conf[c].pc = "idle"
  /\ asked[t].user # NoUser
  /\ Confirming(c, [conf[c] EXCEPT !.pc = "consume", !.token = t,
                                   !.user = asked[t].user])
  /\ UNCHANGED <<profile, emailItem, del, asked, moved, robbed>>

(* GetUserByEmailChangeTokenHash takes the token and leaves the address;   *)
(* the token may have moved on, or may have expired.                       *)
ConsumeToken(c) ==
  /\ conf[c].pc = "consume"
  /\ \/ /\ profile[conf[c].user].token = conf[c].token
        /\ profile' = [profile EXCEPT ![conf[c].user] = [@ EXCEPT !.token = NoToken]]
        /\ Confirming(c, [conf[c] EXCEPT !.pc = "read"])
     \/ /\ AnswerConf(c, "invalid")
        /\ UNCHANGED profile
  /\ UNCHANGED <<emailItem, del, asked, moved, robbed>>

(* ApplyEmailChange carries no address: it reads both from the profile.    *)
ReadPending(c) ==
  /\ conf[c].pc = "read"
  /\ LET p == profile[conf[c].user] IN
       \/ /\ p.state = "absent"
          /\ AnswerConf(c, "notFound")
       \/ /\ p.state = "present" /\ p.pending = NoEmail
          /\ AnswerConf(c, "noPending")
       \/ /\ p.state = "present" /\ p.pending # NoEmail /\ p.pending = p.email
          /\ AnswerConf(c, "exists")
       \/ /\ p.state = "present" /\ p.pending \notin {NoEmail, p.email}
          /\ Confirming(c, [conf[c] EXCEPT !.pc = "apply", !.old = p.email,
                                           !.new = p.pending])
  /\ UNCHANGED <<profile, emailItem, del, asked, moved, robbed>>

(* attribute_exists(PK) AND email = :old AND pendingEmail = :new *)
StillPending(c) ==
  LET p == profile[conf[c].user] IN
    p.state = "present" /\ p.email = conf[c].old /\ p.pending = conf[c].new

(* Mutant: the old address is not released. *)
MovedKeeping(u, old, new) == [emailItem EXCEPT ![new] = u]

Moved(u, old, new) == [emailItem EXCEPT ![new] = u, ![old] = NoUser]

(* The transaction: take the new address if it is free, release the old    *)
(* one, move the profile if it is still what was read.                     *)
ApplyEmailChange(c) ==
  LET u == conf[c].user
      old == conf[c].old
      new == conf[c].new
  IN /\ conf[c].pc = "apply"
     /\ Available(new)
     /\ StillPending(c)
     /\ emailItem' = Moved(u, old, new)
     /\ profile' = [profile EXCEPT ![u] = [@ EXCEPT !.email = new, !.pending = NoEmail]]
     /\ Confirming(c, [conf[c] EXCEPT !.pc = "clear", !.answer = "applied"])
     /\ moved' = IF Doomed(u) THEN moved \cup {u} ELSE moved
     /\ Removes(u, old)
     /\ UNCHANGED <<del, asked>>

RefuseEmailChange(c) ==
  /\ conf[c].pc = "apply"
  /\ \/ /\ ~Available(conf[c].new)
        /\ AnswerConf(c, "exists")
     \/ /\ Available(conf[c].new) /\ ~StillPending(c)
        /\ AnswerConf(c, IF Exists(conf[c].user) THEN "invalid" ELSE "notFound")
  /\ UNCHANGED <<profile, emailItem, del, asked, moved, robbed>>

(* ClearEmailChangeToken: token and address, whichever they are by now.    *)
ClearEmailChangeToken(c) ==
  /\ conf[c].pc = "clear"
  /\ IF Exists(conf[c].user)
       THEN profile' = [profile EXCEPT ![conf[c].user] =
                          [@ EXCEPT !.token = NoToken, !.pending = NoEmail]]
       ELSE UNCHANGED profile
  /\ AnswerConf(c, conf[c].answer)
  /\ UNCHANGED <<emailItem, del, asked, moved, robbed>>

(* A confirmation is cut off between two calls. *)
AbandonConfirmation(c) ==
  /\ conf[c].pc \in {"read", "apply", "clear"}
  /\ AnswerConf(c, conf[c].answer)
  /\ UNCHANGED <<profile, emailItem, del, asked, moved, robbed>>

-----------------------------------------------------------------------------
(* DeleteUser: the profile tells which keys to delete ... *)
DeleteUser(d) ==
  /\ del[d].pc = "idle"
  /\ LET u == Target[d] IN
       IF Exists(u)
         THEN Deleting(d, [pc |-> "sweeping", todo |-> {"profile", "email"},
                           email |-> profile[u].email, answer |-> "none"])
         ELSE /\ ~NewId(u)
              /\ Deleting(d, [del[d] EXCEPT !.pc = "done", !.answer = "notFound"])
  /\ UNCHANGED <<profile, emailItem, conf, asked, moved, robbed>>

(* ... and deleteKeys deletes them, unconditionally and in any order.      *)
deleteProfile(d) ==
  /\ "profile" \in del[d].todo
  /\ profile' = [profile EXCEPT ![Target[d]] = NoProfile]
  /\ Deleting(d, [del[d] EXCEPT !.todo = @ \ {"profile"}])
  /\ UNCHANGED <<emailItem, conf, asked, moved, robbed>>

deleteEmail(d) ==
  /\ "email" \in del[d].todo
  /\ emailItem' = [emailItem EXCEPT ![del[d].email] = NoUser]
  /\ Deleting(d, [del[d] EXCEPT !.todo = @ \ {"email"}])
  /\ UNCHANGED <<profile, conf, asked, moved>>
  /\ Removes(Target[d], del[d].email)

FinishDeletion(d) ==
  /\ del[d].pc = "sweeping" /\ del[d].todo = {}
  /\ Deleting(d, [del[d] EXCEPT !.pc = "done", !.answer = "deleted"])
  /\ UNCHANGED <<profile, emailItem, conf, asked, moved, robbed>>

(* batchWrite gives up on unprocessed items, or the invocation is cut off. *)
FailDeletion(d) ==
  /\ del[d].pc = "sweeping" /\ del[d].todo # {}
  /\ Deleting(d, [del[d] EXCEPT !.pc = "done", !.todo = {}, !.answer = "error"])
  /\ UNCHANGED <<profile, emailItem, conf, asked, moved, robbed>>

-----------------------------------------------------------------------------
Next ==
  \/ \E u \in User, e \in Email :
       CreateUser(u, e) \/ \E t \in Token : UpdateEmailChangeToken(u, e, t)
  \/ \E c \in Confirmation :
       \/ \E t \in Token : Confirm(c, t)
       \/ ConsumeToken(c)
       \/ ReadPending(c)
       \/ ApplyEmailChange(c)
       \/ RefuseEmailChange(c)
       \/ ClearEmailChangeToken(c)
       \/ AbandonConfirmation(c)
  \/ \E d \in Deletion :
       \/ DeleteUser(d)
       \/ deleteProfile(d)
       \/ deleteEmail(d)
       \/ FinishDeletion(d)
       \/ FailDeletion(d)

Spec == Init /\ [][Next]_vars

-----------------------------------------------------------------------------
(* Two users never have one address, whatever registrations, changes and   *)
(* deletions are in flight (createUser, ApplyEmailChange); a user that is  *)
(* being deleted has none.  False of the code: see robbed.                 *)
UniqueEmail ==
  \A u, v \in User :
    /\ u # v
    /\ Exists(u) /\ ~Doomed(u)
    /\ Exists(v) /\ ~Doomed(v)
    => profile[u].email # profile[v].email

(* A user can be found, and so log in, by the address on its profile       *)
(* (GetUserByEmail goes through the EMAIL# item), until an overtaken       *)
(* deletion or change of another user has removed the item.                *)
FoundByEmail ==
  \A u \in User :
    Exists(u) /\ ~Doomed(u) /\ u \notin robbed => emailItem[profile[u].email] = u

(* No address is held for a user that is not there to use it: the old      *)
(* address is released with the move, the address of a deleted user with   *)
(* the deletion.  Only a user that moved while it was being deleted leaves *)
(* an address behind.                                                      *)
NoAddressHeldInVain ==
  \A e \in Email :
    LET u == emailItem[e] IN
      /\ u # NoUser
      /\ \A d \in Deletion : Target[d] = u =>
           del[d].pc = "idle" \/ del[d].answer \in {"deleted", "notFound"}
      => (Exists(u) /\ profile[u].email = e) \/ u \in moved

(* A confirmation applies the address its own token was issued for         *)
(* (UpdateEmailChangeToken: "there is never a token whose target address   *)
(* is a different request's").                                             *)
AppliesItsOwnAddress ==
  \A c \in Confirmation :
    conf[c].answer = "applied" => conf[c].new = asked[conf[c].token].email

(* A deletion that failed halfway is finished by running it again          *)
(* (deleteKeys: "a partial failure is safe to retry from the top"): when a *)
(* run finds no user left, nothing of the user is left.                    *)
RetryFinishesDeletion ==
  \A d \in Deletion :
    /\ del[d].answer = "notFound"
    /\ \A x \in Deletion : Target[x] = Target[d] => del[x].pc # "sweeping"
    => \A e \in Email : emailItem[e] # Target[d]

Directory == INSTANCE EmailDirectory WITH
  address <- [u \in User |-> IF Exists(u) /\ ~Doomed(u) /\ u \notin robbed
                              THEN profile[u].email ELSE NoEmail],
  members <- {u \in User : ~NewId(u)}

(* The items implement the directory.  Who is robbed has lost its address, *)
(* and nobody is robbed but by an overtaken deletion or change.            *)
ImplementsDirectory == Directory!Spec
=============================================================================

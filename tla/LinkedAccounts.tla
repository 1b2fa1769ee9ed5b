--------------------------- MODULE LinkedAccounts ----------------------------
(***************************************************************************)
(* Bindings of provider accounts to users                                  *)
(* (internal/store/dynamodb/linked_accounts.go, and the part of            *)
(* users.go: DeleteUser that sweeps them).                                 *)
(*                                                                         *)
(* A binding is two items: OAUTH#<p>#<pid>, which says whose account it    *)
(* is, and LINKID#<id>, which says what the link id names.  The binding    *)
(* items of a user are listed through GSI1, a replica that lags.           *)
(***************************************************************************)
EXTENDS Naturals

CONSTANTS
  Link,         \* link ids
  User,
  Account,      \* provider accounts: <provider, providerId>
  Saver,        \* Save calls
  Deleter,      \* Delete calls
  Sweeper,      \* DeleteUser calls
  Target,       \* [Sweeper -> User]: whom each one deletes
  MaxAttempts,  \* linkRebindAttempts
  NoLink, NoUser, NoAccount

namesAreApart ==
  /\ NoLink \notin Link /\ NoUser \notin User /\ NoAccount \notin Account
  /\ Target \in [Sweeper -> User]
  /\ MaxAttempts \in Nat \ {0}

VARIABLES
  binding,  \* OAUTH#<account>: the link and its user
  byID,     \* LINKID#<link>: the user and the account
  index,    \* GSI1: the owner the index shows for each account
  saver, deleter, sweeper,
  overtaken \* history: the accounts bound again since each sweep read them

vars == <<binding, byID, index, saver, deleter, sweeper, overtaken>>

Binding == [id: Link \cup {NoLink}, user: User \cup {NoUser}]
Unbound == [id |-> NoLink, user |-> NoUser]

Pointer == [user: User \cup {NoUser}, account: Account \cup {NoAccount}]
NoPointer == [user |-> NoUser, account |-> NoAccount]

SaverState ==
  [pc: {"idle", "read", "write", "done"}, id: Link \cup {NoLink},
   user: User \cup {NoUser}, account: Account \cup {NoAccount},
   observed: Link \cup {NoLink}, attempt: Nat,
   answer: {"none", "saved", "conflict", "taken"}]

DeleterState ==
  [pc: {"idle", "read", "delete", "drop", "done"}, id: Link \cup {NoLink},
   account: Account \cup {NoAccount}, answer: {"none", "deleted"}]

(* candidates is what is left to read of the index page, accounts and ids  *)
(* the keys that are left to delete.                                       *)
SweeperState ==
  [pc: {"idle", "read", "sweep", "done"}, candidates: SUBSET Account,
   accounts: SUBSET Account, ids: SUBSET Link, answer: {"none", "deleted"}]

TypeOK ==
  /\ binding \in [Account -> Binding]
  /\ byID \in [Link -> Pointer]
  /\ index \in [Account -> User \cup {NoUser}]
  /\ saver \in [Saver -> SaverState]
  /\ deleter \in [Deleter -> DeleterState]
  /\ sweeper \in [Sweeper -> SweeperState]
  /\ overtaken \in [Sweeper -> SUBSET Account]

Init ==
  /\ binding = [a \in Account |-> Unbound]
  /\ byID = [x \in Link |-> NoPointer]
  /\ index = [a \in Account |-> NoUser]
  /\ saver = [r \in Saver |->
                [pc |-> "idle", id |-> NoLink, user |-> NoUser, account |-> NoAccount,
                 observed |-> NoLink, attempt |-> 0, answer |-> "none"]]
  /\ deleter = [d \in Deleter |->
                  [pc |-> "idle", id |-> NoLink, account |-> NoAccount, answer |-> "none"]]
  /\ sweeper = [s \in Sweeper |->
                  [pc |-> "idle", candidates |-> {}, accounts |-> {}, ids |-> {},
                   answer |-> "none"]]
  /\ overtaken = [s \in Sweeper |-> {}]

-----------------------------------------------------------------------------
Saving(r, state) == saver' = [saver EXCEPT ![r] = state]
AnswerSave(r, a) == Saving(r, [saver[r] EXCEPT !.pc = "done", !.answer = a])
Deleting(d, state) == deleter' = [deleter EXCEPT ![d] = state]
Sweeping(s, state) == sweeper' = [sweeper EXCEPT ![s] = state]

BeingDeleted(u) == \E s \in Sweeper : Target[s] = u /\ sweeper[s].pc # "idle"

-----------------------------------------------------------------------------
(* Save: a user signs in with, or links, a provider account.  A call with  *)
(* the id of an earlier one is its caller's retry, or a mistake.           *)
Save(r, x, u, a) ==
  /\ saver[r].pc = "idle"
  /\ ~BeingDeleted(u)
  /\ Saving(r, [saver[r] EXCEPT !.pc = "read", !.id = x, !.user = u, !.account = a])
  /\ UNCHANGED <<binding, byID, index, deleter, sweeper, overtaken>>

ReadBinding(r) ==
  /\ saver[r].pc = "read"
  /\ Saving(r, [saver[r] EXCEPT !.pc = "write", !.observed = binding[saver[r].account].id])
  /\ UNCHANGED <<binding, byID, index, deleter, sweeper, overtaken>>

(* The compare-and-set on the binding that was read.                       *)
StillObserved(a, observed) == binding[a].id \in {NoLink, observed}

(* attribute_not_exists(PK) OR the pointer is this very link's             *)
NameFree(x, u, a) == byID[x] \in {NoPointer, [user |-> u, account |-> a]}

(* Mutant: the observed one is left. *)
RepointedOnly(x, u, a, observed) ==
  [byID EXCEPT ![x] = [user |-> u, account |-> a]]

(* The pointers after a rebind: the new one, and not the observed one.     *)
Repointed(x, u, a, observed) ==
  [y \in Link |-> IF y = x THEN [user |-> u, account |-> a]
                  ELSE IF y = observed THEN NoPointer ELSE byID[y]]

Bind(r) ==
  LET s == saver[r] IN
    /\ s.pc = "write"
    /\ NameFree(s.id, s.user, s.account)
    /\ StillObserved(s.account, s.observed)
    /\ binding' = [binding EXCEPT ![s.account] = [id |-> s.id, user |-> s.user]]
    /\ byID' = Repointed(s.id, s.user, s.account, s.observed)
    /\ AnswerSave(r, "saved")
    /\ overtaken' = [w \in Sweeper |->
                       overtaken[w] \cup ({s.account} \cap sweeper[w].accounts)]
    /\ UNCHANGED <<index, deleter, sweeper>>

RefuseBind(r) ==
  LET s == saver[r] IN
    /\ s.pc = "write"
    /\ \/ ~NameFree(s.id, s.user, s.account) /\ AnswerSave(r, "taken")
       \/ /\ NameFree(s.id, s.user, s.account)
          /\ ~StillObserved(s.account, s.observed)
          /\ IF s.attempt = MaxAttempts - 1
               THEN AnswerSave(r, "conflict")
               ELSE Saving(r, [s EXCEPT !.pc = "read", !.attempt = @ + 1])
    /\ UNCHANGED <<binding, byID, index, deleter, sweeper, overtaken>>

-----------------------------------------------------------------------------
(* Delete, by link id. *)
Delete(d, x) ==
  /\ deleter[d].pc = "idle"
  /\ Deleting(d, [deleter[d] EXCEPT !.pc = "read", !.id = x])
  /\ UNCHANGED <<binding, byID, index, saver, sweeper, overtaken>>

ReadPointer(d) ==
  /\ deleter[d].pc = "read"
  /\ LET p == byID[deleter[d].id] IN
       IF p = NoPointer
         THEN Deleting(d, [deleter[d] EXCEPT !.pc = "done", !.answer = "deleted"])
         ELSE Deleting(d, [deleter[d] EXCEPT !.pc = "delete", !.account = p.account])
  /\ UNCHANGED <<binding, byID, index, saver, sweeper, overtaken>>

(* Mutant: the binding goes, whose ever it is. *)
HoldsAny(a, x) == binding[a] # Unbound

(* "#linkId = :id" *)
Holds(a, x) == binding[a].id = x

Unbind(d) ==
  LET s == deleter[d] IN
    /\ s.pc = "delete"
    /\ IF Holds(s.account, s.id)
         THEN /\ binding' = [binding EXCEPT ![s.account] = Unbound]
              /\ byID' = [byID EXCEPT ![s.id] = NoPointer]
              /\ Deleting(d, [s EXCEPT !.pc = "done", !.answer = "deleted"])
         ELSE /\ Deleting(d, [s EXCEPT !.pc = "drop"])
              /\ UNCHANGED <<binding, byID, overtaken>>
    /\ UNCHANGED <<index, saver, sweeper, overtaken>>

DropPointer(d) ==
  /\ deleter[d].pc = "drop"
  /\ byID' = [byID EXCEPT ![deleter[d].id] = NoPointer]
  /\ Deleting(d, [deleter[d] EXCEPT !.pc = "done", !.answer = "deleted"])
  /\ UNCHANGED <<binding, index, saver, sweeper, overtaken>>

-----------------------------------------------------------------------------
(* DeleteUser: the index names candidates, ...                             *)
QueryIndex(s) ==
  /\ sweeper[s].pc = "idle"
  /\ Sweeping(s, [sweeper[s] EXCEPT !.pc = "read",
                    !.candidates = {a \in Account : index[a] = Target[s]}])
  /\ UNCHANGED <<binding, byID, index, saver, deleter, overtaken>>

(* Mutant: the index is trusted. *)
OwnedByIndex(a, u) == binding[a] # Unbound

(* ... each is read again, and kept if it is still the user's, ...         *)
Owned(a, u) == binding[a].user = u

ReadOwned(s, a) ==
  /\ sweeper[s].pc = "read"
  /\ a \in sweeper[s].candidates
  /\ LET kept == [sweeper[s] EXCEPT !.candidates = @ \ {a}] IN
       IF Owned(a, Target[s])
         THEN Sweeping(s, [kept EXCEPT !.accounts = @ \cup {a},
                                       !.ids = @ \cup {binding[a].id}])
         ELSE Sweeping(s, kept)
  /\ UNCHANGED <<binding, byID, index, saver, deleter, overtaken>>

StartSweep(s) ==
  /\ sweeper[s].pc = "read" /\ sweeper[s].candidates = {}
  /\ Sweeping(s, [sweeper[s] EXCEPT !.pc = "sweep"])
  /\ UNCHANGED <<binding, byID, index, saver, deleter, overtaken>>

(* ... and the keys go one by one, without a condition.                    *)
SweepBinding(s, a) ==
  /\ sweeper[s].pc = "sweep" /\ a \in sweeper[s].accounts
  /\ binding' = [binding EXCEPT ![a] = Unbound]
  /\ Sweeping(s, [sweeper[s] EXCEPT !.accounts = @ \ {a}])
  /\ UNCHANGED <<byID, index, saver, deleter, overtaken>>

SweepPointer(s, x) ==
  /\ sweeper[s].pc = "sweep" /\ x \in sweeper[s].ids
  /\ byID' = [byID EXCEPT ![x] = NoPointer]
  /\ Sweeping(s, [sweeper[s] EXCEPT !.ids = @ \ {x}])
  /\ UNCHANGED <<binding, index, saver, deleter, overtaken>>

FinishSweep(s) ==
  /\ sweeper[s].pc = "sweep"
  /\ sweeper[s].accounts = {} /\ sweeper[s].ids = {}
  /\ Sweeping(s, [sweeper[s] EXCEPT !.pc = "done", !.answer = "deleted"])
  /\ UNCHANGED <<binding, byID, index, saver, deleter, overtaken>>

-----------------------------------------------------------------------------
(* The index catches up with an item. *)
Propagate(a) ==
  /\ index[a] # binding[a].user
  /\ index' = [index EXCEPT ![a] = binding[a].user]
  /\ UNCHANGED <<binding, byID, saver, deleter, sweeper, overtaken>>

(* An invocation is cut off, or DynamoDB gives up on it. *)
Abandon ==
  \/ \E r \in Saver :
       /\ saver[r].pc \in {"read", "write"}
       /\ AnswerSave(r, "none")
       /\ UNCHANGED <<binding, byID, index, deleter, sweeper, overtaken>>
  \/ \E d \in Deleter :
       /\ deleter[d].pc \in {"read", "delete", "drop"}
       /\ Deleting(d, [deleter[d] EXCEPT !.pc = "done"])
       /\ UNCHANGED <<binding, byID, index, saver, sweeper, overtaken>>
  \/ \E s \in Sweeper :
       /\ sweeper[s].pc \in {"read", "sweep"}
       /\ Sweeping(s, [sweeper[s] EXCEPT !.pc = "done"])
       /\ UNCHANGED <<binding, byID, index, saver, deleter, overtaken>>

Next ==
  \/ \E r \in Saver :
       \/ \E x \in Link, u \in User, a \in Account : Save(r, x, u, a)
       \/ ReadBinding(r)
       \/ Bind(r)
       \/ RefuseBind(r)
  \/ \E d \in Deleter :
       \/ \E x \in Link : Delete(d, x)
       \/ ReadPointer(d)
       \/ Unbind(d)
       \/ DropPointer(d)
  \/ \E s \in Sweeper :
       \/ QueryIndex(s)
       \/ \E a \in Account : ReadOwned(s, a) \/ SweepBinding(s, a)
       \/ StartSweep(s)
       \/ \E x \in Link : SweepPointer(s, x)
       \/ FinishSweep(s)
  \/ \E a \in Account : Propagate(a)
  \/ Abandon

Spec == Init /\ [][Next]_vars

-----------------------------------------------------------------------------
(* Whoever is bound can unbind: the link id of a binding resolves to it    *)
(* (Save writes both items together, Delete finds the one by the other),   *)
(* as long as no two Saves carry one id.                                   *)
FreshIds == \A q, r \in Saver : q # r /\ saver[q].id # NoLink => saver[q].id # saver[r].id

UnlinkableByID ==
  \A a \in Account :
    FreshIds /\ binding[a] # Unbound /\ ~BeingDeleted(binding[a].user)
      => byID[binding[a].id] = [user |-> binding[a].user, account |-> a]

(* Nothing stale is left and nothing live is lost: a link id that resolves *)
(* names a binding that is there and is its own (Save: "leaving nothing    *)
(* behind when it does").                                                  *)
NothingStale ==
  \A x \in Link :
    byID[x] # NoPointer /\ ~BeingDeleted(byID[x].user)
      => binding[byID[x].account] = [id |-> x, user |-> byID[x].user]

(* It is so until the first DeleteUser begins, whatever ids Saves carry:   *)
(* rebinds and late Deletes alone never leave a pointer to nothing.        *)
RebindLeavesNothing == (\A s \in Sweeper : sweeper[s].pc = "idle") => NothingStale

BindingsArePairs == UnlinkableByID /\ RebindLeavesNothing

(* A binding vanishes only through a Delete of its own link id or the      *)
(* deletion of its own user: never because an older link of the account is *)
(* deleted late, nor because the index still names an earlier owner.  The  *)
(* exception is the code's own: the keys a DeleteUser has collected go     *)
(* without a condition, so one that was bound again in between goes too.   *)
Sweeps(s, a) == a \in sweeper[s].accounts /\ a \notin sweeper'[s].accounts

UnboundByItsOwnDelete ==
  [][\A a \in Account :
       binding[a] # Unbound /\ binding'[a] = Unbound
         => \/ \E d \in Deleter :
                 /\ deleter[d].pc = "delete" /\ deleter'[d].pc = "done"
                 /\ deleter[d].id = binding[a].id
            \/ \E s \in Sweeper :
                 /\ Sweeps(s, a)
                 /\ Target[s] = binding[a].user \/ a \in overtaken[s]]_vars

(* A user that was deleted leaves no provider account bound to it          *)
(* (DeleteUser: what the index does not show yet "can be missed, and is    *)
(* harmless").                                                             *)
DeletionStrandsNobody ==
  \A s \in Sweeper :
    /\ sweeper[s].answer = "deleted"
    /\ \A r \in Saver : saver[r].pc \in {"read", "write"} => saver[r].user # Target[s]
    => \A a \in Account : binding[a].user # Target[s]
=============================================================================

-------------------------------- MODULE Roles ---------------------------------
(***************************************************************************)
(* One role (internal/store/dynamodb/roles.go): its definition, a set of   *)
(* permissions in one item, and its assignments, an item per holder.       *)
(*                                                                         *)
(* DeleteRole finds the assignments through GSI1, a replica that lags, and *)
(* deletes them and the definition with BatchWriteItem, which is neither   *)
(* atomic nor ordered (paging.go: deleteKeys, batchWrite).                 *)
(***************************************************************************)
EXTENDS Naturals, FiniteSets

CONSTANTS
  User,           \* <tenant, user> pairs
  Permission,
  Deleter,        \* DeleteRole calls
  MaxHolders,     \* maxUsersPerTenant: the most assignments one call sweeps
  MaxDefinitions  \* bound on how often the role is defined, for model checking

(* The definition's key, which no assignment's is equal to (keys.go).      *)
DefinitionKey == "definition"

(* What is assumed of the constants where they are given their values.     *)
boundsAreNumbers ==
  MaxHolders \in Nat /\ MaxDefinitions \in Nat /\ DefinitionKey \notin User

VARIABLES
  definition,  \* ROLES / ROLE#<role>
  holders,     \* the users with an assignment item
  index,       \* GSI1: the users it shows as holders
  deleter,
  defined,     \* history: how often the role was defined anew
  since,       \* history: the definition under which each user was assigned,
               \* 0 when the assignment was taken back
  late         \* history: per sweep, the holders its query could not show

vars == <<definition, holders, index, deleter, defined, since, late>>

NoDefinition == [state |-> "absent", permissions |-> {}]
Definition == {NoDefinition} \cup [state: {"present"}, permissions: SUBSET Permission]

(* The keys of a sweep: the definition's, and those of the holders.        *)
DeleterState ==
  [pc: {"idle", "sweep", "done"}, todo: SUBSET (User \cup {DefinitionKey}),
   swept: SUBSET User, answer: {"none", "deleted", "tooLarge", "failed"}]

TypeOK ==
  /\ definition \in Definition
  /\ holders \subseteq User /\ index \subseteq User
  /\ deleter \in [Deleter -> DeleterState]
  /\ defined \in Nat
  /\ since \in [User -> 0..defined]
  /\ late \in [Deleter -> SUBSET User]

Init ==
  /\ definition = NoDefinition
  /\ holders = {} /\ index = {}
  /\ deleter = [d \in Deleter |-> [pc |-> "idle", todo |-> {}, swept |-> {},
                                   answer |-> "none"]]
  /\ defined = 0
  /\ since = [u \in User |-> 0]
  /\ late = [d \in Deleter |-> {}]

-----------------------------------------------------------------------------
Defined == definition.state = "present"

(* The item is there after the write, whether it was before or not.        *)
Define(permissions) ==
  /\ Defined \/ defined < MaxDefinitions
  /\ definition' = [state |-> "present", permissions |-> permissions]
  /\ defined' = IF Defined THEN defined ELSE defined + 1
  /\ UNCHANGED <<holders, index, deleter, since, late>>

(* CreateRole replaces, AddPermissionToRole creates the role if need be.   *)
CreateRole(permissions) == Define(permissions)
AddPermissionToRole(p) == Define(definition.permissions \cup {p})

(* Conditional on the role being there, so as not to define it.            *)
RemovePermissionFromRole(p) ==
  /\ Defined
  /\ definition' = [definition EXCEPT !.permissions = @ \ {p}]
  /\ UNCHANGED <<holders, index, deleter, defined, since, late>>

(* The ConditionCheck; without it ErrRoleNotFound.                         *)
Assignable == Defined

AddRoleToUser(u) ==
  /\ Assignable
  /\ holders' = holders \cup {u}
  /\ since' = [since EXCEPT ![u] = defined]
  /\ late' = [d \in Deleter |->
                IF deleter[d].pc # "idle" THEN late[d] \cup {u} ELSE late[d]]
  /\ UNCHANGED <<definition, index, deleter, defined>>

RemoveRoleFromUser(u) ==
  /\ u \in holders
  /\ holders' = holders \ {u}
  /\ since' = [since EXCEPT ![u] = 0]
  /\ UNCHANGED <<definition, index, deleter, defined, late>>

-----------------------------------------------------------------------------
Become(d, state) == deleter' = [deleter EXCEPT ![d] = state]

(* Mutant: the definition is the role. *)
KeysOfDefinition == {DefinitionKey}

(* The definition, and every assignment the index shows.                   *)
Keys == {DefinitionKey} \cup index

DeleteRole(d) ==
  /\ deleter[d].pc = "idle"
  /\ IF Cardinality(index) > MaxHolders
       THEN /\ Become(d, [deleter[d] EXCEPT !.pc = "done", !.answer = "tooLarge"])
            /\ UNCHANGED late
       ELSE /\ Become(d, [deleter[d] EXCEPT !.pc = "sweep", !.todo = Keys])
            /\ late' = [late EXCEPT ![d] = holders \ index]
  /\ UNCHANGED <<definition, holders, index, defined, since>>

(* BatchWriteItem, one delete at a time and in no order.                   *)
SweepDefinition(d) ==
  /\ deleter[d].pc = "sweep" /\ DefinitionKey \in deleter[d].todo
  /\ definition' = NoDefinition
  /\ Become(d, [deleter[d] EXCEPT !.todo = @ \ {DefinitionKey}])
  /\ UNCHANGED <<holders, index, defined, since, late>>

SweepHolder(d, u) ==
  /\ deleter[d].pc = "sweep" /\ u \in deleter[d].todo
  /\ holders' = holders \ {u}
  /\ Become(d, [deleter[d] EXCEPT !.todo = @ \ {u}, !.swept = @ \cup {u}])
  /\ UNCHANGED <<definition, index, defined, since, late>>

Finish(d) ==
  /\ deleter[d].pc = "sweep" /\ deleter[d].todo = {}
  /\ Become(d, [deleter[d] EXCEPT !.pc = "done", !.answer = "deleted"])
  /\ UNCHANGED <<definition, holders, index, defined, since, late>>

(* Still unprocessed after the retries, or cut off. *)
Abandon(d) ==
  /\ deleter[d].pc = "sweep" /\ deleter[d].todo # {}
  /\ Become(d, [deleter[d] EXCEPT !.pc = "done", !.answer = "failed"])
  /\ UNCHANGED <<definition, holders, index, defined, since, late>>

(* The index catches up with an item. *)
Propagate(u) ==
  /\ (u \in index) # (u \in holders)
  /\ index' = IF u \in holders THEN index \cup {u} ELSE index \ {u}
  /\ UNCHANGED <<definition, holders, deleter, defined, since, late>>

Next ==
  \/ \E ps \in SUBSET Permission : CreateRole(ps)
  \/ \E p \in Permission : AddPermissionToRole(p) \/ RemovePermissionFromRole(p)
  \/ \E u \in User : AddRoleToUser(u) \/ RemoveRoleFromUser(u) \/ Propagate(u)
  \/ \E d \in Deleter :
       \/ DeleteRole(d) \/ SweepDefinition(d) \/ Finish(d) \/ Abandon(d)
       \/ \E u \in User : SweepHolder(d, u)

Spec == Init /\ [][Next]_vars

-----------------------------------------------------------------------------
(* GetPermissionsForUser. *)
Grants(u) == IF u \in holders THEN definition.permissions ELSE {}

(* A DeleteRole that answers success has left no assignment but those the  *)
(* index did not show it and those made since (DeleteRole).                *)
DeletionLeavesOnlyTheMissed ==
  \A d \in Deleter : deleter[d].answer = "deleted" => holders \subseteq late[d]

(* Nobody has a permission through an assignment to an earlier role of the *)
(* same name: "it is a row that grants no authority, not a dangling grant" *)
(* (DeleteRole).                                                           *)
OldAssignmentsGrantNothing ==
  \A u \in User : Grants(u) # {} => since[u] = defined

(* No sweep has removed an assignment while the definition it is to remove *)
(* first is still there: "so the definition goes first" (DeleteRole).      *)
DefinitionGoesFirst ==
  \A d \in Deleter :
    deleter[d].swept # {} => DefinitionKey \notin deleter[d].todo

(* An assignment that answered success under the definition of now stands  *)
(* until somebody removes it or deletes this definition: a sweep that has  *)
(* removed its definition finds only "one that is already gone".           *)
FreshAssignmentStands ==
  Defined /\ (\A d \in Deleter : DefinitionKey \notin deleter[d].todo)
    => \A u \in User : since[u] = defined => u \in holders
=============================================================================

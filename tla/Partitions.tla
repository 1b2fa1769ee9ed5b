------------------------------ MODULE Partitions ------------------------------
(***************************************************************************)
(* One partition of the table that is cleared as a whole: the members of a *)
(* tenant (internal/store/dynamodb/tenants.go), or a user's metadata, an   *)
(* item per key (metadata.go).                                             *)
(*                                                                         *)
(* DeleteTenant and ClearMetadata read the partition page by page          *)
(* (paging.go: queryAll) and then delete what they read, and the tenant's  *)
(* directory entry, in a batch that is neither atomic nor ordered.  The    *)
(* pages are strongly consistent; the call as a whole is not.              *)
(***************************************************************************)
EXTENDS FiniteSets, Naturals

CONSTANTS
  Item,      \* the sort keys in the partition: numbers, for their order
  Merger,    \* UpdateMetadata calls
  Clearer,   \* DeleteTenant or ClearMetadata calls
  MaxItems   \* maxUsersPerTenant, maxMetadataKeys: the most that is read

boundsAreNumbers == Item \subseteq Nat \ {0} /\ MaxItems \in Nat

VARIABLES
  family,     \* which of the two partitions this is
  directory,  \* TENANTS / TENANT#<t>; never there for metadata
  items,      \* the sort keys that have an item
  merger,     \* UpdateMetadata: what is still to be put
  clearer,
  late,       \* history: per clearer, the items put since it began
  tenancy,    \* history: how often the tenant was created
  since       \* history: the tenancy each item was associated under, or 0

vars == <<family, directory, items, merger, clearer, late, tenancy, since>>

DirectoryKey == 0
ClearerState ==
  [pc: {"idle", "read", "sweep", "end"}, cursor: Item \cup {0},
   todo: SUBSET (Item \cup {DirectoryKey}),
   answer: {"none", "cleared", "tooLarge", "failed"}]

TypeOK ==
  /\ family \in {"members", "metadata"}
  /\ directory \in {"absent", "active", "inactive"}
  /\ items \subseteq Item
  /\ merger \in [Merger -> [pc: {"idle", "put", "end"}, todo: SUBSET Item]]
  /\ clearer \in [Clearer -> ClearerState]
  /\ late \in [Clearer -> SUBSET Item]
  /\ tenancy \in 0..2
  /\ since \in [Item -> 0..2]

Init ==
  /\ family \in {"members", "metadata"}
  /\ directory = "absent"
  /\ items = {}
  /\ merger = [m \in Merger |-> [pc |-> "idle", todo |-> {}]]
  /\ clearer = [c \in Clearer |-> [pc |-> "idle", cursor |-> 0, todo |-> {},
                                   answer |-> "none"]]
  /\ late = [c \in Clearer |-> {}]
  /\ tenancy = 0
  /\ since = [i \in Item |-> 0]

-----------------------------------------------------------------------------
Exists == directory # "absent"

(* attribute_not_exists(SK), or ErrAlreadyExists.  Twice is enough for a   *)
(* tenant that is created anew.                                            *)
CreateTenant(activity) ==
  /\ family = "members"
  /\ ~Exists /\ tenancy < 2
  /\ directory' = activity
  /\ tenancy' = tenancy + 1
  /\ UNCHANGED <<family, items, merger, clearer, late, since>>

(* attribute_exists(SK), so as not to create it, or ErrTenantNotFound.     *)
UpdateTenant(activity) ==
  /\ Exists
  /\ directory' = activity
  /\ UNCHANGED <<family, items, merger, clearer, late, tenancy, since>>

Put(i, underTenancy) ==
  /\ items' = items \cup {i}
  /\ since' = [since EXCEPT ![i] = underTenancy]
  /\ late' = [c \in Clearer |->
                IF clearer[c].pc = "idle" THEN late[c] ELSE late[c] \cup {i}]
  /\ UNCHANGED <<family, directory, clearer, tenancy>>

(* The ConditionCheck on the directory, or ErrTenantNotFound.              *)
AssociateUserWithTenant(i) ==
  /\ Exists
  /\ Put(i, tenancy)
  /\ UNCHANGED merger

(* CreateUser writes the membership in its transaction, directory or not.  *)
CreateUser(i) ==
  /\ family = "members"
  /\ Put(i, 0)
  /\ UNCHANGED merger

DisassociateUserFromTenant(i) ==
  /\ family = "members"
  /\ i \in items
  /\ items' = items \ {i}
  /\ since' = [since EXCEPT ![i] = 0]
  /\ UNCHANGED <<family, directory, merger, clearer, late, tenancy>>

(* The keys of one merge, put one at a time and in no order; a key that    *)
(* the call does not carry is left alone.                                  *)
UpdateMetadata(m, keys) ==
  /\ family = "metadata"
  /\ merger[m].pc = "idle"
  /\ merger' = [merger EXCEPT ![m] = [pc |-> "put", todo |-> keys]]
  /\ UNCHANGED <<family, directory, items, clearer, late, tenancy, since>>

PutKey(m, i) ==
  /\ merger[m].pc = "put" /\ i \in merger[m].todo
  /\ Put(i, 0)
  /\ merger' = [merger EXCEPT ![m] =
                  [pc |-> IF @.todo = {i} THEN "end" ELSE "put",
                   todo |-> @.todo \ {i}]]

AbandonMerge(m) ==
  /\ merger[m].pc = "put"
  /\ merger' = [merger EXCEPT ![m].pc = "end"]
  /\ UNCHANGED <<family, directory, items, clearer, late, tenancy, since>>

-----------------------------------------------------------------------------
Become(c, state) ==
  /\ clearer' = [clearer EXCEPT ![c] = state]
  /\ UNCHANGED <<family, merger, tenancy>>

Clear(c) ==
  /\ clearer[c].pc = "idle"
  /\ Become(c, [clearer[c] EXCEPT !.pc = "read"])
  /\ UNCHANGED <<directory, items, late, since>>

Ahead(c) == {i \in items : i > clearer[c].cursor}

(* Mutant: the first page is taken for all of them. *)
NothingBehind(c, page) == {}

(* What the page's last evaluated key leaves to be read.                   *)
Behind(c, page) == Ahead(c) \ page

(* One page, up to its last key: of as many items as fit in it, and of     *)
(* none if there is none.  queryAll goes on until there is none behind it, *)
(* or until it has read more than it may.                                  *)
ReadPage(c, last) ==
  LET page == {i \in Ahead(c) : i <= last}
      read == clearer[c].todo \cup page
      own  == IF family = "members" THEN {DirectoryKey} ELSE {}
  IN /\ clearer[c].pc = "read"
     /\ last \in Ahead(c) \/ (Ahead(c) = {} /\ last = clearer[c].cursor)
     /\ Become(c,
          IF Cardinality(read) > MaxItems
            THEN [clearer[c] EXCEPT !.pc = "end", !.todo = {}, !.answer = "tooLarge"]
          ELSE IF Behind(c, page) = {}
            THEN [clearer[c] EXCEPT !.pc = "sweep", !.todo = read \cup own]
            ELSE [clearer[c] EXCEPT !.cursor = last, !.todo = read])
     /\ UNCHANGED <<directory, items, late, since>>

(* BatchWriteItem, one delete at a time and in no order.                   *)
Sweep(c, k) ==
  /\ clearer[c].pc = "sweep" /\ k \in clearer[c].todo
  /\ IF k = DirectoryKey
       THEN directory' = "absent" /\ UNCHANGED <<items, since>>
       ELSE /\ items' = items \ {k}
            /\ since' = [since EXCEPT ![k] = 0]
            /\ UNCHANGED directory
  /\ Become(c, [clearer[c] EXCEPT !.todo = @ \ {k}])
  /\ UNCHANGED late

Finish(c) ==
  /\ clearer[c].pc = "sweep" /\ clearer[c].todo = {}
  /\ Become(c, [clearer[c] EXCEPT !.pc = "end", !.answer = "cleared"])
  /\ UNCHANGED <<directory, items, late, since>>

(* A page that could not be read, or deletes still unprocessed after the   *)
(* retries.                                                                *)
Abandon(c) ==
  /\ clearer[c].pc \in {"read", "sweep"}
  /\ Become(c, [clearer[c] EXCEPT !.pc = "end", !.answer = "failed"])
  /\ UNCHANGED <<directory, items, late, since>>

Next ==
  \/ \E activity \in {"active", "inactive"} :
       CreateTenant(activity) \/ UpdateTenant(activity)
  \/ \E i \in Item :
       \/ AssociateUserWithTenant(i) \/ CreateUser(i)
       \/ DisassociateUserFromTenant(i)
  \/ \E m \in Merger :
       \/ \E keys \in SUBSET Item \ {{}} : UpdateMetadata(m, keys)
       \/ \E i \in Item : PutKey(m, i)
       \/ AbandonMerge(m)
  \/ \E c \in Clearer :
       \/ Clear(c) \/ Finish(c) \/ Abandon(c)
       \/ \E last \in Item \cup {0} : ReadPage(c, last)
       \/ \E k \in clearer[c].todo : Sweep(c, k)

Spec == Init /\ [][Next]_vars

-----------------------------------------------------------------------------
(* A deletion that answers success has left nothing but what was put since *)
(* it began, however many pages it read: "removes the directory entry and  *)
(* every membership of the tenant" (DeleteTenant).                         *)
ClearedLeavesOnlyTheLate ==
  \A c \in Clearer : clearer[c].answer = "cleared" => items \subseteq late[c]

(* Nobody is a member of a tenant but by an association with the tenant of *)
(* now: what is associated behind a deletion's back, or left by one that   *)
(* failed, is a membership again once the id is used again.  The code does *)
(* not have it.                                                            *)
NobodyInherits == Exists => \A i \in items : since[i] \in {0, tenancy}
=============================================================================

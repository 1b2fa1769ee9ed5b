------------------------------- MODULE MCPairs --------------------------------
(* The two kinds of record that are found through a second item, one of    *)
(* which is chosen at the start: API keys, found by the pointer of their   *)
(* id (ApiKeys), and bindings of provider accounts, found by their link id *)
(* (LinkedAccounts).  Callers and Saves share model values, so that a      *)
(* permutation serves both.                                                *)
EXTENDS ApiKeys, TLC

CONSTANTS i1, i2, i3, p1, p2, c1, c2, c3
CONSTANTS x1, x2, x3, u1, u2, a1, d1, s1
CONSTANTS
  Link, User, Account, Saver, Deleter, Sweeper, Target, MaxAttempts,
  NoLink, NoUser, NoAccount

VARIABLES kind, binding, byID, index, saver, deleter, sweeper, overtaken

linkVars == <<binding, byID, index, saver, deleter, sweeper, overtaken>>

(* i1 and i2 collide. *)
MCPrefixOf == (i1 :> p1) @@ (i2 :> p1) @@ (i3 :> p2)

(* u1 is the user that is deleted. *)
MCTarget == s1 :> u1

Links == INSTANCE LinkedAccounts

ASSUME LinksAssumption == Links!namesAreApart

MCSymmetry == Permutations(Caller) \cup Permutations(Link)

MCInit == Init /\ Links!Init /\ kind \in {"keys", "links"}

MCNext ==
  /\ \/ kind = "keys" /\ Next /\ UNCHANGED linkVars
     \/ kind = "links" /\ Links!Next /\ UNCHANGED vars
  /\ UNCHANGED kind

MCSpec == MCInit /\ [][MCNext]_<<vars, linkVars, kind>>

(* A binding and the pointer of its link id are written, replaced and      *)
(* swept together: whoever is bound can unbind, and rebinding leaves no    *)
(* link id that resolves to nothing.                                       *)
BindingsArePairs == Links!BindingsArePairs

(* A binding goes by its own Delete, or by the deletion of its own user;   *)
(* another user's deletion takes it only if it was bound between that      *)
(* deletion's read of the account and its unconditional removal.           *)
UnboundByItsOwnDelete == Links!UnboundByItsOwnDelete
=============================================================================

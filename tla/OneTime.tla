------------------------------- MODULE OneTime -------------------------------
(***************************************************************************)
(* What the store promises of a one-time secret (a reset link, a magic     *)
(* link, an SMS code): a holder has at most one outstanding, issuing a new *)
(* one replaces it, and each issue is redeemed at most once, by a caller   *)
(* that presents the secret while it is outstanding.                       *)
(*                                                                         *)
(* SingleUseTokens.tla and OneTimeItems.tla are shown to implement it.     *)
(***************************************************************************)
EXTENDS Naturals

CONSTANTS
  Holder,    \* what a secret is issued for
  Secret,    \* secrets
  NoSecret   \* the value of "outstanding" where there is none

VARIABLES
  outstanding,  \* [Holder -> Secret \cup {NoSecret}]
  issued,       \* [Holder -> [Secret -> Nat]]: issues of each secret
  redeemed      \* [Holder -> [Secret -> Nat]]: redemptions of each secret

vars == <<outstanding, issued, redeemed>>

Init ==
  /\ outstanding = [u \in Holder |-> NoSecret]
  /\ issued = [u \in Holder |-> [x \in Secret |-> 0]]
  /\ redeemed = [u \in Holder |-> [x \in Secret |-> 0]]

Issue(u, x) ==
  /\ outstanding' = [outstanding EXCEPT ![u] = x]
  /\ issued' = [issued EXCEPT ![u][x] = @ + 1]
  /\ UNCHANGED redeemed

(* The caller that redeems a secret is the one that takes it away. *)
Redeem(u, x) ==
  /\ outstanding[u] = x
  /\ outstanding' = [outstanding EXCEPT ![u] = NoSecret]
  /\ redeemed' = [redeemed EXCEPT ![u][x] = @ + 1]
  /\ UNCHANGED issued

(* Cleared, or gone with its holder. *)
Void(u) ==
  /\ outstanding[u] # NoSecret
  /\ outstanding' = [outstanding EXCEPT ![u] = NoSecret]
  /\ UNCHANGED <<issued, redeemed>>

Next ==
  \E u \in Holder :
    \/ \E x \in Secret : Issue(u, x) \/ Redeem(u, x)
    \/ Void(u)

Spec == Init /\ [][Next]_vars
=============================================================================

-------------------------- MODULE MCSingleUseTokens --------------------------
(* What works once, one kind of which is chosen at the start:               *)
(*   links, codes, parity  SingleUseTokens in the shapes tokenFamily and    *)
(*          the options give it: links whose lookups consume, codes, and    *)
(*          links under Options.NonAtomicSingleUseTokens                    *)
(*   items  OneTimeItems                                                    *)
EXTENDS SingleUseTokens, TLC

CONSTANTS u1, h1, h2, h3, r1, r2

CONSTANTS
  code, token, stash,
  Key, Kind, Lifetimes, ItemClock, MaxSaves     \* OneTimeItems

VARIABLES
  shape,
  item, clock, asks, saves, served, dropped, spent     \* OneTimeItems

itemVars == <<item, clock, asks, saves, served, dropped, spent>>

MCUser == {u1}
MCHash == {h1, h2, h3}
MCRequest == {r1, r2}
MCKey == {code, token, stash}
MCKind == (code :> "code") @@ (token :> "credential") @@ (stash :> "stash")
MCLifetimes == {0, 1}
MCSymmetry == Permutations(MCHash) \cup Permutations(MCRequest)

Codes == INSTANCE SingleUseTokens WITH HasPointer <- FALSE, MaxClock <- 1
Parity == INSTANCE SingleUseTokens WITH ConsumeOnRead <- FALSE, MaxClock <- 1

Own == INSTANCE OneTimeItems WITH now <- clock, req <- asks, MaxClock <- ItemClock

ASSUME ItemsAssumption == Own!keysHaveAKind

MCInit == Init /\ Own!Init /\ shape \in {"links", "codes", "parity", "items"}

MCNext ==
  /\ \/ shape = "links" /\ Next /\ UNCHANGED itemVars
     \/ shape = "codes" /\ Codes!Next /\ UNCHANGED itemVars
     \/ shape = "parity" /\ Parity!Next /\ UNCHANGED itemVars
     \/ shape = "items" /\ Own!Next /\ UNCHANGED vars
  /\ UNCHANGED shape

MCSpec == MCInit /\ [][MCNext]_<<vars, itemVars, shape>>

(* A link that was replaced or spent never resolves, consuming or not.     *)
StaleLinksNeverWin == shape # "codes" => SupersededNeverWins

(* A link can be found for as long as it can be redeemed.                  *)
LinksResolve == shape # "codes" => OutstandingResolves

(* An authorization code, a state nonce or an account-link token is served *)
(* to one of the requests that race for it.                                *)
ServedOnce == Own!ServedAtMostOnce

(* A lookup of an entry that was there to be found fails only if another   *)
(* lookup was served, the entry was deleted, its deadline has passed, or   *)
(* the answer of the call that consumed it was lost.                       *)
LosersHaveAWinner == Own!LosersHaveAWinner

Credentials == Own!Credentials

Items == INSTANCE OneTime WITH
  Holder <- Credentials,
  Secret <- {"entry"},
  NoSecret <- "none",
  outstanding <- [k \in Credentials |-> IF Own!Present(k) THEN "entry" ELSE "none"],
  issued <- [k \in Credentials |-> [x \in {"entry"} |-> saves[k]]],
  redeemed <- [k \in Credentials |-> [x \in {"entry"} |-> served[k]]]

(* The items promise what the token families promise: each is a one-time   *)
(* secret.                                                                 *)
ItemsImplementOneTime == Items!Init /\ [][shape = "items" => Items!Next]_(Items!vars)
=============================================================================

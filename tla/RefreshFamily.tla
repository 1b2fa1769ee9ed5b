--------------------------- MODULE RefreshFamily ---------------------------
(***************************************************************************)
(* What the session store promises of a refresh-token family, whatever     *)
(* requests are in flight: the family has one current token, a token is    *)
(* exchanged at most once and only while it is the current one, and a      *)
(* family that is dead (revoked, deleted or expired away) stays dead.      *)
(*                                                                         *)
(* The family is the session: rotation keeps the session id and replaces   *)
(* the refresh hash.  Sessions.tla is shown to implement this module.      *)
(***************************************************************************)
CONSTANTS
  Sid,      \* session ids
  Hash,     \* hashes of refresh tokens
  NoHash    \* the value of "current" where there is no current token

VARIABLES
  state,    \* [Sid -> {"unopened", "live", "dead"}]
  current,  \* [Sid -> Hash \cup {NoHash}]: the one token that can be exchanged
  spent     \* [Sid -> SUBSET Hash]: tokens of the family already exchanged

vars == <<state, current, spent>>

Init ==
  /\ state = [s \in Sid |-> "unopened"]
  /\ current = [s \in Sid |-> NoHash]
  /\ spent = [s \in Sid |-> {}]

(* A hash that no family holds or has held is free to be minted. *)
Free(h) == \A s \in Sid : current[s] # h /\ h \notin spent[s]

(* A login opens a family with its first token. *)
Open(s, h) ==
  /\ state[s] = "unopened"
  /\ Free(h)
  /\ state' = [state EXCEPT ![s] = "live"]
  /\ current' = [current EXCEPT ![s] = h]
  /\ UNCHANGED spent

(* The current token buys the next one, and is spent by it. *)
Exchange(s, new) ==
  /\ state[s] = "live"
  /\ Free(new)
  /\ current' = [current EXCEPT ![s] = new]
  /\ spent' = [spent EXCEPT ![s] = @ \cup {current[s]}]
  /\ UNCHANGED state

(* Logout, an administrator, a replay, a deletion or expiry ends it. *)
Die(s) ==
  /\ state[s] = "live"
  /\ state' = [state EXCEPT ![s] = "dead"]
  /\ current' = [current EXCEPT ![s] = NoHash]
  /\ UNCHANGED spent

Next ==
  \E s \in Sid :
    \/ \E h \in Hash : Open(s, h) \/ Exchange(s, h)
    \/ Die(s)

Spec == Init /\ [][Next]_vars
=============================================================================

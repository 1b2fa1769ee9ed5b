--------------------------- MODULE EmailDirectory ---------------------------
(***************************************************************************)
(* What the store promises of addresses: a user has one address, no two    *)
(* users have the same one, and an address is free again when its user     *)
(* moves to another, leaves, or loses it.  Emails.tla implements it.       *)
(***************************************************************************)
CONSTANTS
  User,    \* user ids, never reused
  Email,   \* normalised addresses
  NoEmail  \* the address of who has none

VARIABLES
  address,  \* [User -> Email \cup {NoEmail}]
  members   \* the users that ever registered

vars == <<address, members>>

Init ==
  /\ address = [u \in User |-> NoEmail]
  /\ members = {}

Free(e) == \A u \in User : address[u] # e

Register(u, e) ==
  /\ u \notin members
  /\ Free(e)
  /\ address' = [address EXCEPT ![u] = e]
  /\ members' = members \cup {u}

Move(u, e) ==
  /\ address[u] # NoEmail
  /\ Free(e)
  /\ address' = [address EXCEPT ![u] = e]
  /\ UNCHANGED members

(* The user goes, or stays without an address by which to be found.        *)
Leave(u) ==
  /\ address[u] # NoEmail
  /\ address' = [address EXCEPT ![u] = NoEmail]
  /\ UNCHANGED members

Next ==
  \E u \in User :
    \/ \E e \in Email : Register(u, e) \/ Move(u, e)
    \/ Leave(u)

Spec == Init /\ [][Next]_vars
=============================================================================

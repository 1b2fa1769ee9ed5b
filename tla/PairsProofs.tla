----------------------------- MODULE PairsProofs ------------------------------
(***************************************************************************)
(* Theorems about the records that are found through a second item: API    *)
(* keys (ApiKeys), for any number of keys, prefixes and requests, however  *)
(* the prefixes collide; and bindings of provider accounts                 *)
(* (LinkedAccounts), for any number of users, accounts and calls.          *)
(*                                                                         *)
(* The argument for keys: a pointer and a record that exists name each     *)
(* other (KeysAreRevocable); a pointer only ever names the prefix its key  *)
(* was minted with, so what a request resolved is still right when it      *)
(* acts; and a key that is gone was saved once and is not saved again.     *)
(***************************************************************************)
EXTENDS MCPairs, TLAPS

(* What a request holds between its calls. *)
CallsKnow ==
  \A c \in Caller :
    /\ call[c].pc \in {"resolve", "act", "drop"} => call[c].id \in saved
    /\ call[c].pc = "act" => call[c].prefix = PrefixOf[call[c].id]
    /\ call[c].pc = "drop" => pointer[call[c].id] = NoPrefix

PointersKnow ==
  \A i \in Id : pointer[i] # NoPrefix => i \in saved /\ pointer[i] = PrefixOf[i]

(* A key that was revoked was saved, and has no active record. *)
RevokedKnow == revoked \subseteq saved /\ RevocationIsFinal

IInv == TypeOK /\ KeysAreRevocable /\ CallsKnow /\ PointersKnow /\ RevokedKnow

-----------------------------------------------------------------------------
LEMMA NoRecordFacts ==
  /\ NoRecord \in Record
  /\ NoRecord.state = "absent" /\ NoRecord.id = NoId /\ NoRecord.lastUsed = 0
  BY DEF NoRecord, Record

LEMMA RecordFacts ==
  ASSUME NEW r \in Record
  PROVE  /\ r.state \in {"absent", "active", "revoked"}
         /\ r.state # "absent" <=> r.id # NoId
         /\ r.state # "absent" => r.id \in Id
         /\ r.state = "absent" => r = NoRecord
         /\ r.lastUsed \in Nat
  BY KeysAssumption DEF NoRecord, Record

(* The two updates of a record that exists. *)
LEMMA UpdateFacts ==
  ASSUME NEW r \in Record, r.state # "absent", NEW t \in Nat
  PROVE  /\ [r EXCEPT !.state = "revoked"] \in Record
         /\ [r EXCEPT !.state = "revoked"].state = "revoked"
         /\ [r EXCEPT !.state = "revoked"].id = r.id
         /\ [r EXCEPT !.lastUsed = t] \in Record
         /\ [r EXCEPT !.lastUsed = t].state = r.state
         /\ [r EXCEPT !.lastUsed = t].id = r.id
  BY DEF NoRecord, Record

(* What a change of one request leaves of the others. *)
LEMMA OthersKept ==
  ASSUME TypeOK, CallsKnow, NEW c \in Caller, NEW d \in Caller, d # c,
         \A e \in Caller : e # c => call'[e] = call[e],
         saved \subseteq saved',
         \A i \in saved : pointer[i] = NoPrefix => pointer'[i] = NoPrefix
  PROVE  /\ call'[d].pc \in {"resolve", "act", "drop"} => call'[d].id \in saved'
         /\ call'[d].pc = "act" => call'[d].prefix = PrefixOf[call'[d].id]
         /\ call'[d].pc = "drop" => pointer'[call'[d].id] = NoPrefix
  BY DEF CallsKnow

LEMMA Becomes ==
  ASSUME TypeOK, NEW c \in Caller, NEW new \in Call, Become(c, new)
  PROVE  /\ call' \in [Caller -> Call]
         /\ call'[c] = new
         /\ \A e \in Caller : e # c => call'[e] = call[e]
  BY DEF Become, TypeOK

LEMMA Finishes ==
  ASSUME TypeOK, NEW c \in Caller, Finish(c)
  PROVE  /\ call' \in [Caller -> Call]
         /\ call'[c].pc = "done"
         /\ \A e \in Caller : e # c => call'[e] = call[e]
  <1> DEFINE new == [call[c] EXCEPT !.pc = "done"]
  <1>1. new \in Call /\ new.pc = "done"
    BY DEF TypeOK, Call
  <1>2. Become(c, new)
    BY DEF Finish
  <1> HIDE DEF new
  <1> QED BY <1>1, <1>2, Becomes

(* A request that finishes, with nothing saved or pointed to anew. *)
LEMMA CallsKnowAfterFinish ==
  ASSUME TypeOK, CallsKnow, NEW c \in Caller, Finish(c), saved' = saved,
         \A i \in saved : pointer[i] = NoPrefix => pointer'[i] = NoPrefix
  PROVE  CallsKnow'
  <1>1. /\ call'[c].pc = "done"
        /\ \A e \in Caller : e # c => call'[e] = call[e]
    BY Finishes
  <1>2. ASSUME NEW d \in Caller
        PROVE  /\ call'[d].pc \in {"resolve", "act", "drop"} => call'[d].id \in saved'
               /\ call'[d].pc = "act" => call'[d].prefix = PrefixOf[call'[d].id]
               /\ call'[d].pc = "drop" => pointer'[call'[d].id] = NoPrefix
    <2>1. CASE d = c
      BY <1>1, <2>1
    <2>2. CASE d # c
      BY <1>1, <2>2, OthersKept
    <2> QED BY <2>1, <2>2
  <1> QED BY <1>2 DEF CallsKnow

(* A record that is updated keeps its id: the pairs still match. *)
LEMMA PairsKept ==
  ASSUME TypeOK, KeysAreRevocable, pointer' = pointer,
         \A p \in Prefix : /\ record'[p].id = record[p].id
                           /\ record'[p].state = "absent" <=> record[p].state = "absent"
  PROVE  KeysAreRevocable'
  BY DEF KeysAreRevocable, Exists, TypeOK

-----------------------------------------------------------------------------
LEMMA InitHolds == Init => IInv
<1> SUFFICES ASSUME Init PROVE IInv
  OBVIOUS
<1>1. TypeOK
  BY NoRecordFacts, KeysAssumption DEF Init, TypeOK, Call
<1>2. KeysAreRevocable
  BY NoRecordFacts DEF Init, KeysAreRevocable, Exists
<1>3. CallsKnow /\ PointersKnow
  BY DEF Init, CallsKnow, PointersKnow
<1>4. RevokedKnow
  BY NoRecordFacts DEF Init, RevokedKnow, RevocationIsFinal
<1> QED BY <1>1, <1>2, <1>3, <1>4 DEF IInv

LEMMA SaveKeeps == ASSUME IInv, NEW i \in Id, Save(i) PROVE IInv'
<1> DEFINE p == PrefixOf[i]
           r == [state |-> "active", id |-> i, lastUsed |-> 0]
<1>1. p \in Prefix /\ r \in Record /\ r.state = "active" /\ r.id = i
  BY KeysAssumption DEF Record
<1>2. TypeOK /\ i \notin saved /\ saved' = saved \cup {i}
  BY DEF IInv, Save
<1>3. UNCHANGED <<now, call, asked, revoked>>
  BY DEF Save
<1>4. pointer[i] = NoPrefix
  BY <1>2 DEF IInv, PointersKnow
<1>5. \A q \in Prefix : Exists(q) => record[q].id # i
  BY <1>2, <1>4, KeysAssumption DEF IInv, KeysAreRevocable, TypeOK
<1>6. CASE ~Free(i)
  <2>1. UNCHANGED <<record, pointer>>
    BY <1>6 DEF Save
  <2>2. TypeOK'
    BY <1>2, <1>3, <2>1 DEF TypeOK
  <2>3. KeysAreRevocable' /\ CallsKnow' /\ PointersKnow' /\ RevokedKnow'
    BY <1>2, <1>3, <2>1
    DEF IInv, KeysAreRevocable, Exists, CallsKnow, PointersKnow, RevokedKnow,
          RevocationIsFinal
  <2> QED BY <2>2, <2>3 DEF IInv
<1>7. CASE Free(i)
  <2>1. /\ record' = [record EXCEPT ![p] = r]
        /\ pointer' = [pointer EXCEPT ![i] = p]
    BY <1>7 DEF Save
  <2> HIDE DEF r, p
  <2>2. record'[p] = r /\ \A q \in Prefix : q # p => record'[q] = record[q]
    BY <1>1, <1>2, <2>1 DEF TypeOK
  <2>3. pointer'[i] = p /\ \A j \in Id : j # i => pointer'[j] = pointer[j]
    BY <1>2, <2>1 DEF TypeOK
  <2>4. TypeOK'
    BY <1>1, <1>2, <1>3, <2>1 DEF TypeOK
  <2>5. ~Exists(p)
    BY <1>7 DEF Free, p
  <2>6. KeysAreRevocable'
    <3>1. ASSUME NEW q \in Prefix, record'[q].state # "absent"
          PROVE  pointer'[record'[q].id] = q
      <4>1. CASE q = p
        BY <1>1, <2>2, <2>3, <4>1
      <4>2. CASE q # p
        <5>1. Exists(q) /\ record'[q] = record[q]
          BY <2>2, <3>1, <4>2 DEF Exists
        <5>2. record[q].id \in Id /\ record[q].id # i
          BY <1>2, <1>5, <5>1, RecordFacts DEF TypeOK, Exists
        <5> QED BY <2>3, <5>1, <5>2 DEF IInv, KeysAreRevocable
      <4> QED BY <4>1, <4>2
    <3>2. ASSUME NEW j \in Id, pointer'[j] # NoPrefix
          PROVE  record'[pointer'[j]].id = j
      <4>1. CASE j = i
        BY <1>1, <2>2, <2>3, <4>1
      <4>2. CASE j # i
        <5>1. pointer'[j] = pointer[j] /\ pointer[j] \in Prefix
          BY <1>2, <2>3, <3>2, <4>2 DEF TypeOK
        <5>2. record[pointer[j]].id = j
          BY <3>2, <5>1 DEF IInv, KeysAreRevocable
        <5>3. pointer[j] # p
          <6>1. record[p].id = NoId
            BY <1>1, <1>2, <2>5, RecordFacts DEF Exists, TypeOK
          <6> QED BY <5>2, <6>1, KeysAssumption
        <5> QED BY <2>2, <5>1, <5>2, <5>3
      <4> QED BY <4>1, <4>2
    <3> QED BY <3>1, <3>2 DEF KeysAreRevocable, Exists
  <2>7. CallsKnow'
    <3>1. ASSUME NEW d \in Caller PROVE call'[d] = call[d]
      BY <1>3
    <3>2. \A j \in saved : pointer'[j] = pointer[j]
      BY <1>2, <2>3 DEF TypeOK
    <3> QED BY <1>2, <3>1, <3>2 DEF IInv, CallsKnow
  <2>8. PointersKnow'
    BY <1>2, <2>3 DEF IInv, PointersKnow, p
  <2>9. RevokedKnow'
    <3>1. revoked' = revoked /\ i \notin revoked
      BY <1>2, <1>3 DEF IInv, RevokedKnow
    <3> QED BY <1>1, <1>2, <2>2, <3>1 DEF IInv, RevokedKnow, RevocationIsFinal
  <2> QED BY <2>4, <2>6, <2>7, <2>8, <2>9 DEF IInv
<1> QED BY <1>6, <1>7

(* Verify and Ask: a request takes a key that was saved. *)
LEMMA BeginKeeps ==
  ASSUME IInv, NEW c \in Caller, NEW new \in Call, Become(c, new),
         new.pc = "resolve", new.id \in saved,
         UNCHANGED <<record, pointer, now, saved, revoked>>,
         asked' \subseteq Id
  PROVE  IInv'
<1>1. /\ call' \in [Caller -> Call] /\ call'[c] = new
      /\ \A e \in Caller : e # c => call'[e] = call[e]
  BY Becomes DEF IInv
<1>2. TypeOK'
  BY <1>1 DEF IInv, TypeOK
<1>3. CallsKnow'
  BY <1>1 DEF IInv, CallsKnow
<1>4. KeysAreRevocable' /\ PointersKnow' /\ RevokedKnow'
  BY DEF IInv, KeysAreRevocable, Exists, PointersKnow, RevokedKnow, RevocationIsFinal
<1> QED BY <1>2, <1>3, <1>4 DEF IInv

LEMMA SavedHaveRecords ==
  ASSUME IInv, NEW p \in Prefix, Exists(p)
  PROVE  record[p].id \in saved /\ PrefixOf[record[p].id] = p
<1>1. record[p].id \in Id
  BY RecordFacts DEF IInv, TypeOK, Exists
<1>2. pointer[record[p].id] = p
  BY DEF IInv, KeysAreRevocable
<1> QED BY <1>1, <1>2, KeysAssumption DEF IInv, PointersKnow

LEMMA VerifyKeeps ==
  ASSUME IInv, NEW c \in Caller, NEW p \in Prefix, Verify(c, p) PROVE IInv'
<1> DEFINE new == [call[c] EXCEPT !.pc = "resolve", !.op = "stamp",
                                  !.id = record[p].id, !.when = now]
<1>1. Exists(p)
  BY DEF Verify, Exists
<1>2. record[p].id \in saved /\ record[p].id \in Id
  BY <1>1, SavedHaveRecords DEF IInv, TypeOK
<1>3. new \in Call /\ new.pc = "resolve" /\ new.id \in saved
  BY <1>2 DEF IInv, TypeOK, Call
<1>4. Become(c, new) /\ UNCHANGED <<record, pointer, now, saved, asked, revoked>>
  BY DEF Verify
<1> HIDE DEF new
<1> QED BY <1>3, <1>4, BeginKeeps DEF IInv, TypeOK

LEMMA AskKeeps ==
  ASSUME IInv, NEW c \in Caller, NEW op \in {"revoke", "delete"}, NEW i \in Id,
         Ask(c, op, i)
  PROVE  IInv'
<1> DEFINE new == [call[c] EXCEPT !.pc = "resolve", !.op = op, !.id = i]
<1>1. new \in Call /\ new.pc = "resolve" /\ new.id \in saved
  BY DEF Ask, IInv, TypeOK, Call
<1>2. Become(c, new) /\ UNCHANGED <<record, pointer, now, saved, revoked>>
  BY DEF Ask
<1>3. asked' \subseteq Id
  BY DEF Ask, IInv, TypeOK
<1> HIDE DEF new
<1> QED BY <1>1, <1>2, <1>3, BeginKeeps

(* What Revokes adds is the key of the request. *)
LEMMA RevokesFacts ==
  ASSUME NEW c \in Caller
  PROVE  /\ revoked \subseteq Revokes(c)
         /\ Revokes(c) \subseteq revoked \cup {call[c].id}
  BY DEF Revokes

LEMMA ResolveKeeps == ASSUME IInv, NEW c \in Caller, Resolve(c) PROVE IInv'
<1> DEFINE i == call[c].id
<1>1. i \in saved /\ i \in Id /\ TypeOK
  BY DEF Resolve, IInv, CallsKnow, TypeOK
<1>2. UNCHANGED <<record, pointer, now, saved, asked>>
  BY DEF Resolve
<1>3. KeysAreRevocable' /\ PointersKnow'
  BY <1>2 DEF IInv, KeysAreRevocable, Exists, PointersKnow
<1>4. CASE pointer[i] = NoPrefix
  <2>1. Finish(c) /\ revoked' = Revokes(c)
    BY <1>4 DEF Resolve
  <2>2. revoked' \subseteq revoked \cup {i}
    BY <2>1, RevokesFacts
  <2>3. TypeOK'
    BY <1>1, <1>2, <2>1, <2>2, Finishes DEF TypeOK
  <2>4. CallsKnow'
    BY <1>1, <1>2, <2>1, CallsKnowAfterFinish DEF IInv
  <2>5. \A p \in Prefix : Exists(p) => record[p].id # i
    BY <1>1, <1>4, KeysAssumption DEF IInv, KeysAreRevocable
  <2>6. RevokedKnow'
    BY <1>1, <1>2, <2>2, <2>5 DEF IInv, RevokedKnow, RevocationIsFinal, Exists
  <2> QED BY <1>3, <2>3, <2>4, <2>6 DEF IInv
<1>5. CASE pointer[i] # NoPrefix
  <2> DEFINE new == [call[c] EXCEPT !.pc = "act", !.prefix = pointer[i]]
  <2>1. new \in Call /\ new.pc = "act" /\ new.prefix = pointer[i] /\ new.id = i
    BY <1>1 DEF TypeOK, Call
  <2>2. Become(c, new) /\ revoked' = revoked
    BY <1>5 DEF Resolve
  <2> HIDE DEF new
  <2>3. /\ call' \in [Caller -> Call] /\ call'[c] = new
        /\ \A e \in Caller : e # c => call'[e] = call[e]
    BY <1>1, <2>1, <2>2, Becomes
  <2>4. TypeOK'
    BY <1>1, <1>2, <2>2, <2>3 DEF TypeOK
  <2>5. pointer[i] = PrefixOf[i]
    BY <1>1, <1>5 DEF IInv, PointersKnow
  <2>6. CallsKnow'
    <3>1. ASSUME NEW d \in Caller
          PROVE  /\ call'[d].pc \in {"resolve", "act", "drop"} => call'[d].id \in saved'
                 /\ call'[d].pc = "act" => call'[d].prefix = PrefixOf[call'[d].id]
                 /\ call'[d].pc = "drop" => pointer'[call'[d].id] = NoPrefix
      <4>1. CASE d = c
        <5>1. call'[d].pc = "act" /\ call'[d].id = i /\ call'[d].prefix = pointer[i]
          BY <2>1, <2>3, <4>1
        <5> QED BY <1>1, <1>2, <2>5, <5>1
      <4>2. CASE d # c
        BY <1>1, <1>2, <2>3, <4>2, OthersKept DEF IInv
      <4> QED BY <4>1, <4>2
    <3> QED BY <3>1 DEF CallsKnow
  <2>7. RevokedKnow'
    BY <1>2, <2>2 DEF IInv, RevokedKnow, RevocationIsFinal
  <2> QED BY <1>3, <2>4, <2>6, <2>7 DEF IInv
<1> QED BY <1>4, <1>5

LEMMA RevokeKeeps == ASSUME IInv, NEW c \in Caller, Revoke(c) PROVE IInv'
<1> DEFINE i == call[c].id
           p == call[c].prefix
<1>1. i \in saved /\ i \in Id /\ p = PrefixOf[i] /\ p \in Prefix /\ TypeOK
  BY KeysAssumption DEF Revoke, Acting, IInv, CallsKnow, TypeOK
<1>2. /\ Finish(c) /\ revoked' = Revokes(c)
      /\ UNCHANGED <<pointer, now, saved, asked>>
  BY DEF Revoke
<1>3. revoked' \subseteq revoked \cup {i}
  BY <1>2, RevokesFacts
<1> DEFINE r == IF Exists(p) THEN [record[p] EXCEPT !.state = "revoked"] ELSE record[p]
<1>4. /\ r \in Record /\ r.id = record[p].id /\ r.state # "active"
      /\ r.state = "absent" <=> record[p].state = "absent"
  <2>1. record[p] \in Record
    BY <1>1 DEF TypeOK
  <2>2. CASE Exists(p)
    BY <2>1, <2>2, UpdateFacts DEF Exists
  <2>3. CASE ~Exists(p)
    BY <2>1, <2>3 DEF Exists
  <2> QED BY <2>2, <2>3
<1>5. record' = [record EXCEPT ![p] = r]
  BY DEF Revoke
<1> HIDE DEF r
<1>6. record'[p] = r /\ \A q \in Prefix : q # p => record'[q] = record[q]
  BY <1>1, <1>5 DEF TypeOK
<1>7. TypeOK'
  BY <1>1, <1>2, <1>3, <1>4, <1>5, Finishes DEF TypeOK
<1>8. KeysAreRevocable'
  BY <1>1, <1>2, <1>4, <1>6, PairsKept DEF IInv
<1>9. CallsKnow'
  BY <1>1, <1>2, CallsKnowAfterFinish DEF IInv
<1>10. PointersKnow'
  BY <1>2 DEF IInv, PointersKnow
<1>11. RevokedKnow'
  <2>1. ASSUME NEW q \in Prefix, record'[q].state = "active"
        PROVE  record'[q].id \notin revoked'
    <3>1. q # p /\ record'[q] = record[q] /\ Exists(q)
      BY <1>4, <1>6, <2>1 DEF Exists
    <3>2. record[q].id # i
      BY <1>1, <3>1, SavedHaveRecords
    <3>3. record[q].id \notin revoked
      BY <2>1, <3>1 DEF IInv, RevokedKnow, RevocationIsFinal
    <3> QED BY <1>3, <3>1, <3>2, <3>3
  <2>2. revoked' \subseteq saved'
    BY <1>1, <1>2, <1>3 DEF IInv, RevokedKnow
  <2> QED BY <2>1, <2>2 DEF RevokedKnow, RevocationIsFinal
<1> QED BY <1>7, <1>8, <1>9, <1>10, <1>11 DEF IInv

LEMMA UpdateLastUsedKeeps ==
  ASSUME IInv, NEW c \in Caller, UpdateLastUsed(c) PROVE IInv'
<1> DEFINE p == call[c].prefix
           t == call[c].when
<1>1. p \in Prefix /\ t \in Nat /\ TypeOK
  BY KeysAssumption DEF UpdateLastUsed, Acting, IInv, CallsKnow, TypeOK, Call
<1>2. Finish(c) /\ UNCHANGED <<pointer, now, saved, asked, revoked>>
  BY DEF UpdateLastUsed
<1> DEFINE r == IF Exists(p) /\ Stale(p, t) THEN [record[p] EXCEPT !.lastUsed = t]
                ELSE record[p]
<1>3. r \in Record /\ r.id = record[p].id /\ r.state = record[p].state
  <2>1. record[p] \in Record
    BY <1>1 DEF TypeOK
  <2>2. CASE Exists(p) /\ Stale(p, t)
    BY <1>1, <2>1, <2>2, UpdateFacts DEF Exists
  <2>3. CASE ~(Exists(p) /\ Stale(p, t))
    BY <2>1, <2>3
  <2> QED BY <2>2, <2>3
<1>4. record' = [record EXCEPT ![p] = r]
  BY DEF UpdateLastUsed
<1> HIDE DEF r
<1>5. record'[p] = r /\ \A q \in Prefix : q # p => record'[q] = record[q]
  BY <1>1, <1>4 DEF TypeOK
<1>6. TypeOK'
  BY <1>1, <1>2, <1>3, <1>4, Finishes DEF TypeOK
<1>7. KeysAreRevocable'
  BY <1>1, <1>2, <1>3, <1>5, PairsKept DEF IInv
<1>8. CallsKnow'
  BY <1>1, <1>2, CallsKnowAfterFinish DEF IInv
<1>9. PointersKnow' /\ RevokedKnow'
  BY <1>1, <1>2, <1>3, <1>5 DEF IInv, PointersKnow, RevokedKnow, RevocationIsFinal
<1> QED BY <1>6, <1>7, <1>8, <1>9 DEF IInv

LEMMA DeleteKeeps == ASSUME IInv, NEW c \in Caller, Delete(c) PROVE IInv'
<1> DEFINE i == call[c].id
           p == call[c].prefix
<1>1. i \in saved /\ i \in Id /\ p = PrefixOf[i] /\ p \in Prefix /\ TypeOK
  BY KeysAssumption DEF Delete, Acting, IInv, CallsKnow, TypeOK
<1>2. UNCHANGED <<now, saved, asked, revoked>>
  BY DEF Delete
<1>3. CASE Owns(p, i)
  <2>1. /\ record' = [record EXCEPT ![p] = NoRecord]
        /\ pointer' = [pointer EXCEPT ![i] = NoPrefix]
        /\ Finish(c)
    BY <1>3 DEF Delete
  <2>2. record'[p] = NoRecord /\ \A q \in Prefix : q # p => record'[q] = record[q]
    BY <1>1, <2>1 DEF TypeOK
  <2>3. pointer'[i] = NoPrefix /\ \A j \in Id : j # i => pointer'[j] = pointer[j]
    BY <1>1, <2>1 DEF TypeOK
  <2>4. TypeOK'
    BY <1>1, <1>2, <2>1, NoRecordFacts, Finishes DEF TypeOK
  <2>5. KeysAreRevocable'
    <3>1. ASSUME NEW q \in Prefix, record'[q].state # "absent"
          PROVE  pointer'[record'[q].id] = q
      <4>1. q # p /\ record'[q] = record[q] /\ Exists(q)
        BY <2>2, <3>1, NoRecordFacts DEF Exists
      <4>2. record[q].id # i /\ record[q].id \in Id
        BY <1>1, <4>1, SavedHaveRecords, RecordFacts DEF TypeOK, Exists
      <4> QED BY <2>3, <4>1, <4>2 DEF IInv, KeysAreRevocable
    <3>2. ASSUME NEW j \in Id, pointer'[j] # NoPrefix
          PROVE  record'[pointer'[j]].id = j
      <4>1. j # i /\ pointer'[j] = pointer[j] /\ pointer[j] \in Prefix
        BY <1>1, <2>3, <3>2 DEF TypeOK
      <4>2. record[pointer[j]].id = j
        BY <3>2, <4>1 DEF IInv, KeysAreRevocable
      <4>3. pointer[j] # p
        <5>1. CASE Exists(p)
          BY <1>3, <4>1, <4>2, <5>1 DEF Owns
        <5>2. CASE ~Exists(p)
          <6>1. record[p].id = NoId
            BY <1>1, <5>2, RecordFacts DEF TypeOK, Exists
          <6> QED BY <4>2, <6>1, KeysAssumption
        <5> QED BY <5>1, <5>2
      <4> QED BY <2>2, <4>1, <4>2, <4>3
    <3> QED BY <3>1, <3>2 DEF KeysAreRevocable, Exists
  <2>6. CallsKnow'
    BY <1>1, <1>2, <2>1, <2>3, CallsKnowAfterFinish DEF IInv, TypeOK
  <2>7. PointersKnow'
    BY <1>2, <2>3 DEF IInv, PointersKnow
  <2>8. RevokedKnow'
    BY <1>2, <2>2, NoRecordFacts DEF IInv, RevokedKnow, RevocationIsFinal
  <2> QED BY <2>4, <2>5, <2>6, <2>7, <2>8 DEF IInv
<1>4. CASE ~Owns(p, i)
  <2> DEFINE new == [call[c] EXCEPT !.pc = "drop"]
  <2>1. new \in Call /\ new.pc = "drop" /\ new.id = i
    BY <1>1 DEF TypeOK, Call
  <2>2. Become(c, new) /\ UNCHANGED <<record, pointer>>
    BY <1>4 DEF Delete
  <2> HIDE DEF new
  <2>3. /\ call' \in [Caller -> Call] /\ call'[c] = new
        /\ \A e \in Caller : e # c => call'[e] = call[e]
    BY <1>1, <2>1, <2>2, Becomes
  <2>4. TypeOK'
    BY <1>1, <1>2, <2>2, <2>3 DEF TypeOK
  <2>5. pointer[i] = NoPrefix
    <3>1. record[p].id # i
      BY <1>4 DEF Owns
    <3> QED BY <1>1, <3>1 DEF IInv, KeysAreRevocable, PointersKnow
  <2>6. CallsKnow'
    <3>1. ASSUME NEW d \in Caller
          PROVE  /\ call'[d].pc \in {"resolve", "act", "drop"} => call'[d].id \in saved'
                 /\ call'[d].pc = "act" => call'[d].prefix = PrefixOf[call'[d].id]
                 /\ call'[d].pc = "drop" => pointer'[call'[d].id] = NoPrefix
      <4>1. CASE d = c
        <5>1. call'[d].pc = "drop" /\ call'[d].id = i
          BY <2>1, <2>3, <4>1
        <5> QED BY <1>1, <1>2, <2>2, <2>5, <5>1
      <4>2. CASE d # c
        BY <1>1, <1>2, <2>2, <2>3, <4>2, OthersKept DEF IInv
      <4> QED BY <4>1, <4>2
    <3> QED BY <3>1 DEF CallsKnow
  <2>7. KeysAreRevocable' /\ PointersKnow' /\ RevokedKnow'
    BY <1>2, <2>2
    DEF IInv, KeysAreRevocable, Exists, PointersKnow, RevokedKnow, RevocationIsFinal
  <2> QED BY <2>4, <2>6, <2>7 DEF IInv
<1> QED BY <1>3, <1>4

LEMMA EndKeeps ==
  ASSUME IInv, NEW c \in Caller, DropPointer(c) \/ Abandon(c) PROVE IInv'
<1>1. Finish(c) /\ UNCHANGED <<record, now, saved, asked, revoked>> /\ TypeOK
  BY DEF DropPointer, Abandon, IInv
<1>2. pointer' = pointer
  <2>1. CASE Abandon(c)
    BY <2>1 DEF Abandon
  <2>2. CASE DropPointer(c)
    <3>1. pointer[call[c].id] = NoPrefix
      BY <2>2 DEF DropPointer, IInv, CallsKnow
    <3> QED BY <1>1, <2>2, <3>1 DEF DropPointer, TypeOK
  <2> QED BY <2>1, <2>2
<1>3. TypeOK'
  BY <1>1, <1>2, Finishes DEF TypeOK
<1>4. CallsKnow'
  BY <1>1, <1>2, CallsKnowAfterFinish DEF IInv
<1>5. KeysAreRevocable' /\ PointersKnow' /\ RevokedKnow'
  BY <1>1, <1>2
  DEF IInv, KeysAreRevocable, Exists, PointersKnow, RevokedKnow, RevocationIsFinal
<1> QED BY <1>3, <1>4, <1>5 DEF IInv

LEMMA TickKeeps == ASSUME IInv, Tick \/ UNCHANGED vars PROVE IInv'
<1>1. now' \in Nat /\ UNCHANGED <<record, pointer, call, saved, asked, revoked>>
  BY DEF Tick, vars, IInv, TypeOK
<1>2. TypeOK'
  BY <1>1 DEF IInv, TypeOK
<1>3. KeysAreRevocable' /\ CallsKnow' /\ PointersKnow' /\ RevokedKnow'
  BY <1>1
  DEF IInv, KeysAreRevocable, Exists, CallsKnow, PointersKnow, RevokedKnow,
        RevocationIsFinal
<1> QED BY <1>2, <1>3 DEF IInv

LEMMA Inductive == Spec => []IInv
<1>1. IInv /\ [Next]_vars => IInv'
  BY SaveKeeps, VerifyKeeps, AskKeeps, ResolveKeeps, RevokeKeeps, UpdateLastUsedKeeps,
     DeleteKeeps, EndKeeps, TickKeeps
  DEF Next
<1> QED BY <1>1, InitHolds, PTL DEF Spec

-----------------------------------------------------------------------------
(* Every reachable state is well typed: in particular no update brings a   *)
(* record into being, however late it comes.                               *)
THEOREM TypeCorrect == Spec => []TypeOK
<1>1. IInv => TypeOK
  BY DEF IInv
<1> QED BY <1>1, Inductive, PTL

(* A record and its pointer come and go together, through any number of    *)
(* collisions: every key that authenticates can be revoked.                *)
THEOREM KeysStayRevocable == Spec => []KeysAreRevocable
<1>1. IInv => KeysAreRevocable
  BY DEF IInv
<1> QED BY <1>1, Inductive, PTL

(* A key that Revoke has answered for never authenticates again.           *)
THEOREM RevokedForGood == Spec => []RevocationIsFinal
<1>1. IInv => RevocationIsFinal
  BY DEF IInv, RevokedKnow
<1> QED BY <1>1, Inductive, PTL

-----------------------------------------------------------------------------
(* Bindings of provider accounts.  The argument: what is bound, what a     *)
(* link id names, what a Save has observed, a Delete has resolved and a    *)
(* DeleteUser has collected, each was brought about by a Save that is done;*)
(* where ids are fresh that Save is the only one of its id, so whoever     *)
(* removes a pointer removes that of no other binding.                     *)

(* A Save that is done has carried this. *)
Minted(x, u, a) ==
  \E q \in Saver : /\ saver[q].pc = "done" /\ saver[q].id = x
                   /\ saver[q].user = u /\ saver[q].account = a

(* What the items and the calls hold, each by itself. *)
BindingSound(b) ==
  b \in Links!Binding /\ (b # Links!Unbound => b.id \in Link /\ b.user \in User)

NameSound(p) ==
  p \in Links!Pointer /\ (p # Links!NoPointer => p.user \in User /\ p.account \in Account)

SaverSound(s) ==
  /\ s \in Links!SaverState
  /\ s.pc = "idle" => s.id = NoLink
  /\ s.pc \in {"read", "write"} => s.id \in Link /\ s.user \in User /\ s.account \in Account

DeleterSound(d) ==
  /\ d \in Links!DeleterState
  /\ d.pc # "idle" => d.id \in Link
  /\ d.pc \in {"delete", "drop"} => d.account \in Account

SweeperSound(s) ==
  /\ s \in Links!SweeperState
  /\ s.pc = "idle" => s.ids = {} /\ s.accounts = {}

LinksSound ==
  /\ Links!TypeOK
  /\ \A a \in Account : BindingSound(binding[a])
  /\ \A x \in Link : NameSound(byID[x])
  /\ \A r \in Saver : SaverSound(saver[r])
  /\ \A d \in Deleter : DeleterSound(deleter[d])
  /\ \A s \in Sweeper : SweeperSound(sweeper[s])

(* What they hold of each other. *)
SaversKnow ==
  \A r \in Saver :
    saver[r].pc = "write" /\ saver[r].observed # NoLink
      => \E u \in User : Minted(saver[r].observed, u, saver[r].account)

DeletersKnow ==
  \A d \in Deleter :
    /\ deleter[d].pc \in {"delete", "drop"}
         => \E u \in User : Minted(deleter[d].id, u, deleter[d].account)
    /\ deleter[d].pc = "drop" /\ Links!FreshIds
         => \A a \in Account : binding[a].id # deleter[d].id

SweepersKnow ==
  \A s \in Sweeper : \A x \in sweeper[s].ids : \E a \in Account : Minted(x, Target[s], a)

BindingsKnow ==
  \A a \in Account :
    binding[a] # Links!Unbound => Minted(binding[a].id, binding[a].user, a)

NamesKnow ==
  \A x \in Link :
    byID[x] # Links!NoPointer => Minted(x, byID[x].user, byID[x].account)

(* What a DeleteUser has collected is its user's, or nobody's by now, or   *)
(* was bound again since.                                                  *)
OwnersKnow ==
  \A s \in Sweeper : \A a \in sweeper[s].accounts :
    binding[a].user \in {Target[s], NoUser} \/ a \in overtaken[s]

LinksKnow == SaversKnow /\ DeletersKnow /\ SweepersKnow /\ BindingsKnow /\ NamesKnow

LinkInv == LinksSound /\ LinksKnow /\ OwnersKnow /\ BindingsArePairs

-----------------------------------------------------------------------------
LEMMA NamesApart ==
  /\ NoLink \notin Link /\ NoUser \notin User /\ NoAccount \notin Account
  /\ Target \in [Sweeper -> User] /\ MaxAttempts \in Nat /\ MaxAttempts # 0
BY LinksAssumption DEF Links!namesAreApart

LEMMA NothingFacts ==
  /\ BindingSound(Links!Unbound) /\ Links!Unbound.id = NoLink /\ Links!Unbound.user = NoUser
  /\ NameSound(Links!NoPointer)
BY DEF BindingSound, NameSound, Links!Unbound, Links!NoPointer, Links!Binding, Links!Pointer

(* A binding is there if it has a link, and then it has a user.            *)
LEMMA BoundFacts ==
  ASSUME NEW b, BindingSound(b)
  PROVE  /\ b = Links!Unbound <=> b.id = NoLink
         /\ b = Links!Unbound <=> b.user = NoUser
         /\ b.id \in Link \cup {NoLink} /\ b.user \in User \cup {NoUser}
BY NamesApart DEF BindingSound, Links!Unbound, Links!Binding

LEMMA LinksInit == Links!Init => LinkInv
<1> SUFFICES ASSUME Links!Init PROVE LinkInv
  OBVIOUS
<1>1. /\ \A a \in Account : binding[a] = Links!Unbound
      /\ \A x \in Link : byID[x] = Links!NoPointer
  BY DEF Links!Init
<1>2. Links!TypeOK
  BY DEF Links!Init, Links!TypeOK, Links!Binding, Links!Unbound, Links!Pointer,
         Links!NoPointer, Links!SaverState, Links!DeleterState, Links!SweeperState
<1>3. \A r \in Saver : SaverSound(saver[r]) /\ saver[r].pc = "idle"
  BY DEF Links!Init, SaverSound, Links!SaverState
<1>4. \A d \in Deleter : DeleterSound(deleter[d]) /\ deleter[d].pc = "idle"
  BY DEF Links!Init, DeleterSound, Links!DeleterState
<1>5. \A s \in Sweeper : SweeperSound(sweeper[s]) /\ sweeper[s].ids = {}
  BY DEF Links!Init, SweeperSound, Links!SweeperState
<1>9. \A s \in Sweeper : sweeper[s].accounts = {}
  BY DEF Links!Init
<1>6. LinksSound
  BY <1>1, <1>2, <1>3, <1>4, <1>5, NothingFacts DEF LinksSound
<1>7. LinksKnow
  BY <1>1, <1>3, <1>4, <1>5
     DEF LinksKnow, SaversKnow, DeletersKnow, SweepersKnow, BindingsKnow, NamesKnow
<1>8. BindingsArePairs
  BY <1>1 DEF BindingsArePairs, Links!BindingsArePairs, Links!UnlinkableByID,
              Links!RebindLeavesNothing, Links!NothingStale
<1> QED
  BY <1>6, <1>7, <1>8, <1>9 DEF LinkInv, OwnersKnow

-----------------------------------------------------------------------------
(* What a step does to each call: nothing, or this. *)
SaverMoves(r) ==
  /\ saver[r].pc # "done" /\ saver'[r].pc # "idle"
  /\ saver[r].pc # "idle"
       => /\ saver'[r].id = saver[r].id /\ saver'[r].user = saver[r].user
          /\ saver'[r].account = saver[r].account
  /\ saver'[r].pc = "write"
       => saver[r].pc = "read" /\ saver'[r].observed = binding[saver[r].account].id
  /\ SaverSound(saver'[r])

DeleterMoves(d) ==
  /\ deleter'[d].pc = "delete"
       => /\ deleter'[d].id \in Link /\ byID[deleter'[d].id] # Links!NoPointer
          /\ deleter'[d].account = byID[deleter'[d].id].account
  /\ deleter'[d].pc = "drop"
       => /\ deleter[d].pc = "delete"
          /\ deleter'[d].id = deleter[d].id /\ deleter'[d].account = deleter[d].account
          /\ binding[deleter[d].account].id # deleter[d].id
          /\ UNCHANGED binding
  /\ DeleterSound(deleter'[d])

SweeperMoves(s) ==
  /\ sweeper'[s].pc # "idle"
  /\ \A x \in sweeper'[s].ids :
       x \in sweeper[s].ids
         \/ \E a \in Account : binding[a].user = Target[s] /\ binding[a].id = x
  /\ \A a \in sweeper'[s].accounts :
       \/ a \in sweeper[s].accounts
       \/ binding[a].user = Target[s] /\ UNCHANGED <<binding, overtaken>>
  /\ SweeperSound(sweeper'[s])

(* One call of one kind moves, the others stay. *)
LEMMA SavingMoves ==
  ASSUME LinksSound, NEW r \in Saver, NEW state, Links!Saving(r, state),
         saver' = [saver EXCEPT ![r] = state] => SaverMoves(r)
  PROVE  \A q \in Saver : saver'[q] = saver[q] \/ SaverMoves(q)
BY DEF LinksSound, Links!TypeOK, Links!Saving

LEMMA DeletingMoves ==
  ASSUME LinksSound, NEW d \in Deleter, NEW state, Links!Deleting(d, state),
         deleter' = [deleter EXCEPT ![d] = state] => DeleterMoves(d)
  PROVE  \A e \in Deleter : deleter'[e] = deleter[e] \/ DeleterMoves(e)
BY DEF LinksSound, Links!TypeOK, Links!Deleting

LEMMA SweepingMoves ==
  ASSUME LinksSound, NEW s \in Sweeper, NEW state, Links!Sweeping(s, state),
         sweeper' = [sweeper EXCEPT ![s] = state] => SweeperMoves(s)
  PROVE  \A t \in Sweeper : sweeper'[t] = sweeper[t] \/ SweeperMoves(t)
BY DEF LinksSound, Links!TypeOK, Links!Sweeping

LEMMA SaversMove ==
  ASSUME LinksSound, [Links!Next]_(Links!vars), NEW q \in Saver
  PROVE  saver'[q] = saver[q] \/ SaverMoves(q)
<1> DEFINE Goal == saver'[q] = saver[q] \/ SaverMoves(q)
<1>a. saver \in [Saver -> Links!SaverState] /\ \A r \in Saver : SaverSound(saver[r])
  BY DEF LinksSound, Links!TypeOK
<1>b. \A a \in Account : binding[a].id \in Link \cup {NoLink}
  BY BoundFacts DEF LinksSound
<1>1. ASSUME NEW r \in Saver, NEW x \in Link, NEW u \in User, NEW a \in Account,
             Links!Save(r, x, u, a)
      PROVE  Goal
  <2> DEFINE state == [saver[r] EXCEPT !.pc = "read", !.id = x, !.user = u, !.account = a]
  <2>1. saver[r].pc = "idle" /\ Links!Saving(r, state)
    BY <1>1 DEF Links!Save
  <2>2. SaverSound(state) /\ state.pc = "read"
    BY <1>a DEF SaverSound, Links!SaverState
  <2> HIDE DEF state
  <2>3. ASSUME saver' = [saver EXCEPT ![r] = state] PROVE SaverMoves(r)
    BY <1>a, <2>1, <2>2, <2>3 DEF SaverMoves
  <2> QED
    BY <2>1, <2>3, SavingMoves
<1>2. ASSUME NEW r \in Saver, Links!ReadBinding(r) PROVE Goal
  <2> DEFINE state == [saver[r] EXCEPT !.pc = "write",
                                       !.observed = binding[saver[r].account].id]
  <2>1. saver[r].pc = "read" /\ Links!Saving(r, state)
    BY <1>2 DEF Links!ReadBinding
  <2>2. binding[saver[r].account].id \in Link \cup {NoLink}
    BY <1>a, <1>b, <2>1 DEF SaverSound
  <2>3. /\ state.pc = "write" /\ state.observed = binding[saver[r].account].id
        /\ state.id = saver[r].id /\ state.user = saver[r].user
        /\ state.account = saver[r].account
        /\ state \in Links!SaverState
    BY <1>a, <2>2 DEF Links!SaverState
  <2>4. SaverSound(state)
    BY <1>a, <2>1, <2>3 DEF SaverSound
  <2> HIDE DEF state
  <2>5. ASSUME saver' = [saver EXCEPT ![r] = state] PROVE SaverMoves(r)
    BY <1>a, <2>1, <2>3, <2>4, <2>5 DEF SaverMoves
  <2> QED
    BY <2>1, <2>5, SavingMoves
(* An answer. *)
<1>3. ASSUME NEW r \in Saver, saver[r].pc \in {"read", "write"},
             NEW b \in {"none", "saved", "conflict", "taken"}, Links!AnswerSave(r, b)
      PROVE  Goal
  <2> DEFINE state == [saver[r] EXCEPT !.pc = "done", !.answer = b]
  <2>1. Links!Saving(r, state)
    BY <1>3 DEF Links!AnswerSave
  <2>2. /\ state.pc = "done" /\ state.id = saver[r].id /\ state.user = saver[r].user
        /\ state.account = saver[r].account /\ state \in Links!SaverState
    BY <1>a DEF Links!SaverState
  <2>3. SaverSound(state)
    BY <2>2 DEF SaverSound
  <2> HIDE DEF state
  <2>4. ASSUME saver' = [saver EXCEPT ![r] = state] PROVE SaverMoves(r)
    BY <1>a, <1>3, <2>2, <2>3, <2>4 DEF SaverMoves
  <2> QED
    BY <2>1, <2>4, SavingMoves
<1>4. ASSUME NEW r \in Saver, Links!Bind(r) PROVE Goal
  BY <1>3, <1>4 DEF Links!Bind
<1>5. ASSUME NEW r \in Saver, Links!RefuseBind(r) PROVE Goal
  <2> DEFINE state == [saver[r] EXCEPT !.pc = "read", !.attempt = saver[r].attempt + 1]
  <2>1. saver[r].pc = "write"
        /\ (Links!AnswerSave(r, "taken") \/ Links!AnswerSave(r, "conflict")
              \/ Links!Saving(r, state))
    BY <1>5 DEF Links!RefuseBind
  <2>2. CASE Links!Saving(r, state)
    <3>1. /\ state.pc = "read" /\ state.id = saver[r].id /\ state.user = saver[r].user
          /\ state.account = saver[r].account /\ state \in Links!SaverState
      <4>1. saver[r] \in Links!SaverState /\ saver[r].attempt + 1 \in Nat
        BY <1>a DEF Links!SaverState
      <4> QED
        BY <4>1 DEF Links!SaverState
    <3>2. SaverSound(state)
      BY <1>a, <2>1, <3>1 DEF SaverSound
    <3> HIDE DEF state
    <3>3. ASSUME saver' = [saver EXCEPT ![r] = state] PROVE SaverMoves(r)
      BY <1>a, <2>1, <3>1, <3>2, <3>3 DEF SaverMoves
    <3> QED
      BY <2>2, <3>3, SavingMoves
  <2> QED
    BY <1>3, <2>1, <2>2
<1>6. ASSUME NEW r \in Saver, saver[r].pc \in {"read", "write"}, Links!AnswerSave(r, "none")
      PROVE  Goal
  BY <1>3, <1>6
<1>7. ASSUME UNCHANGED saver PROVE Goal
  BY <1>7
<1>8. ASSUME \/ \E d \in Deleter :
                  \/ \E x \in Link : Links!Delete(d, x)
                  \/ Links!ReadPointer(d) \/ Links!Unbind(d) \/ Links!DropPointer(d)
             \/ \E s \in Sweeper :
                  \/ Links!QueryIndex(s)
                  \/ \E a \in Account : Links!ReadOwned(s, a) \/ Links!SweepBinding(s, a)
                  \/ Links!StartSweep(s)
                  \/ \E x \in Link : Links!SweepPointer(s, x)
                  \/ Links!FinishSweep(s)
             \/ \E a \in Account : Links!Propagate(a)
             \/ UNCHANGED Links!vars
      PROVE  UNCHANGED saver
  BY <1>8 DEF Links!Delete, Links!ReadPointer, Links!Unbind, Links!DropPointer,
              Links!QueryIndex, Links!ReadOwned, Links!SweepBinding, Links!StartSweep,
              Links!SweepPointer, Links!FinishSweep, Links!Propagate, Links!vars
<1>9. ASSUME Links!Abandon PROVE Goal
  <2>1. \/ UNCHANGED saver
        \/ \E r \in Saver : saver[r].pc \in {"read", "write"} /\ Links!AnswerSave(r, "none")
    BY <1>9 DEF Links!Abandon
  <2> HIDE DEF Goal
  <2> QED
    BY <1>6, <1>7, <2>1
<1> HIDE DEF Goal
<1> QED
  <2>1. Goal
    BY <1>1, <1>2, <1>4, <1>5, <1>7, <1>8, <1>9 DEF Links!Next
  <2> QED
    BY <2>1 DEF Goal

LEMMA DeletersMove ==
  ASSUME LinksSound, [Links!Next]_(Links!vars), NEW e \in Deleter
  PROVE  deleter'[e] = deleter[e] \/ DeleterMoves(e)
<1> DEFINE Goal == deleter'[e] = deleter[e] \/ DeleterMoves(e)
<1>a. /\ deleter \in [Deleter -> Links!DeleterState]
      /\ \A d \in Deleter : DeleterSound(deleter[d])
      /\ \A x \in Link : NameSound(byID[x])
  BY DEF LinksSound, Links!TypeOK
<1>1. ASSUME NEW d \in Deleter, NEW x \in Link, Links!Delete(d, x) PROVE Goal
  <2> DEFINE state == [deleter[d] EXCEPT !.pc = "read", !.id = x]
  <2>1. Links!Deleting(d, state)
    BY <1>1 DEF Links!Delete
  <2>2. DeleterSound(state) /\ state.pc = "read"
    BY <1>a DEF DeleterSound, Links!DeleterState
  <2> HIDE DEF state
  <2>3. ASSUME deleter' = [deleter EXCEPT ![d] = state] PROVE DeleterMoves(d)
    BY <1>a, <2>2, <2>3 DEF DeleterMoves
  <2> QED
    BY <2>1, <2>3, DeletingMoves
(* A Delete that ends. *)
<1>2. ASSUME NEW d \in Deleter, deleter[d].pc # "idle", NEW b \in {"none", "deleted"},
             Links!Deleting(d, [deleter[d] EXCEPT !.pc = "done", !.answer = b])
      PROVE  Goal
  <2> DEFINE state == [deleter[d] EXCEPT !.pc = "done", !.answer = b]
  <2>1. DeleterSound(state) /\ state.pc = "done"
    BY <1>a, <1>2 DEF DeleterSound, Links!DeleterState
  <2>2. Links!Deleting(d, state)
    BY <1>2
  <2> HIDE DEF state
  <2>3. ASSUME deleter' = [deleter EXCEPT ![d] = state] PROVE DeleterMoves(d)
    BY <1>a, <2>1, <2>3 DEF DeleterMoves
  <2> QED
    BY <2>2, <2>3, DeletingMoves
<1>3. ASSUME NEW d \in Deleter, Links!ReadPointer(d) PROVE Goal
  <2> DEFINE p == byID[deleter[d].id]
             state == [deleter[d] EXCEPT !.pc = "delete", !.account = p.account]
  <2>1. deleter[d].pc = "read" /\ deleter[d].id \in Link
    BY <1>a, <1>3 DEF Links!ReadPointer, DeleterSound
  <2>2. CASE p = Links!NoPointer
    <3>1. Links!Deleting(d, [deleter[d] EXCEPT !.pc = "done", !.answer = "deleted"])
      BY <1>3, <2>2 DEF Links!ReadPointer
    <3> QED
      BY <1>2, <2>1, <3>1
  <2>3. CASE p # Links!NoPointer
    <3>1. Links!Deleting(d, state)
      BY <1>3, <2>3 DEF Links!ReadPointer
    <3>2. p.account \in Account
      BY <1>a, <2>1, <2>3 DEF NameSound
    <3>3. /\ state \in Links!DeleterState
          /\ state.pc = "delete" /\ state.id = deleter[d].id /\ state.account = p.account
      BY <1>a, <3>2 DEF Links!DeleterState
    <3> HIDE DEF state
    <3>4. ASSUME deleter' = [deleter EXCEPT ![d] = state] PROVE DeleterMoves(d)
      BY <1>a, <2>1, <2>3, <3>2, <3>3, <3>4 DEF DeleterMoves, DeleterSound
    <3> QED
      BY <3>1, <3>4, DeletingMoves
  <2> QED
    BY <2>2, <2>3
<1>4. ASSUME NEW d \in Deleter, Links!Unbind(d) PROVE Goal
  <2> DEFINE state == [deleter[d] EXCEPT !.pc = "drop"]
  <2>1. deleter[d].pc = "delete"
    BY <1>4 DEF Links!Unbind
  <2>2. CASE Links!Holds(deleter[d].account, deleter[d].id)
    <3>1. Links!Deleting(d, [deleter[d] EXCEPT !.pc = "done", !.answer = "deleted"])
      BY <1>4, <2>2 DEF Links!Unbind
    <3> QED
      BY <1>2, <2>1, <3>1
  <2>3. CASE ~Links!Holds(deleter[d].account, deleter[d].id)
    <3>1. Links!Deleting(d, state) /\ UNCHANGED binding
          /\ binding[deleter[d].account].id # deleter[d].id
      BY <1>4, <2>3 DEF Links!Unbind, Links!Holds
    <3>2. /\ state \in Links!DeleterState
          /\ state.pc = "drop" /\ state.id = deleter[d].id
          /\ state.account = deleter[d].account
      BY <1>a DEF Links!DeleterState
    <3>3. DeleterSound(state)
      BY <1>a, <2>1, <3>2 DEF DeleterSound
    <3> HIDE DEF state
    <3>4. ASSUME deleter' = [deleter EXCEPT ![d] = state] PROVE DeleterMoves(d)
      BY <1>a, <2>1, <3>1, <3>2, <3>3, <3>4 DEF DeleterMoves
    <3> QED
      BY <3>1, <3>4, DeletingMoves
  <2> QED
    BY <2>2, <2>3
<1>5. ASSUME NEW d \in Deleter, Links!DropPointer(d) PROVE Goal
  BY <1>2, <1>5 DEF Links!DropPointer
<1>6. ASSUME NEW d \in Deleter, deleter[d].pc \in {"read", "delete", "drop"},
             Links!Deleting(d, [deleter[d] EXCEPT !.pc = "done"])
      PROVE  Goal
  <2> DEFINE state == [deleter[d] EXCEPT !.pc = "done"]
  <2>1. DeleterSound(state) /\ state.pc = "done"
    BY <1>a, <1>6 DEF DeleterSound, Links!DeleterState
  <2>2. Links!Deleting(d, state)
    BY <1>6
  <2> HIDE DEF state
  <2>3. ASSUME deleter' = [deleter EXCEPT ![d] = state] PROVE DeleterMoves(d)
    BY <1>a, <2>1, <2>3 DEF DeleterMoves
  <2> QED
    BY <2>2, <2>3, DeletingMoves
<1>7. ASSUME UNCHANGED deleter PROVE Goal
  BY <1>7
<1>8. ASSUME \/ \E r \in Saver :
                  \/ \E x \in Link, u \in User, a \in Account : Links!Save(r, x, u, a)
                  \/ Links!ReadBinding(r) \/ Links!Bind(r) \/ Links!RefuseBind(r)
             \/ \E s \in Sweeper :
                  \/ Links!QueryIndex(s)
                  \/ \E a \in Account : Links!ReadOwned(s, a) \/ Links!SweepBinding(s, a)
                  \/ Links!StartSweep(s)
                  \/ \E x \in Link : Links!SweepPointer(s, x)
                  \/ Links!FinishSweep(s)
             \/ \E a \in Account : Links!Propagate(a)
             \/ UNCHANGED Links!vars
      PROVE  UNCHANGED deleter
  BY <1>8 DEF Links!Save, Links!ReadBinding, Links!Bind, Links!RefuseBind,
              Links!QueryIndex, Links!ReadOwned, Links!SweepBinding, Links!StartSweep,
              Links!SweepPointer, Links!FinishSweep, Links!Propagate, Links!vars
<1>9. ASSUME Links!Abandon PROVE Goal
  <2>1. \/ UNCHANGED deleter
        \/ \E d \in Deleter : /\ deleter[d].pc \in {"read", "delete", "drop"}
                              /\ Links!Deleting(d, [deleter[d] EXCEPT !.pc = "done"])
    BY <1>9 DEF Links!Abandon
  <2> HIDE DEF Goal
  <2> QED
    BY <1>6, <1>7, <2>1
<1> HIDE DEF Goal
<1> QED
  <2>1. Goal
    BY <1>1, <1>3, <1>4, <1>5, <1>7, <1>8, <1>9 DEF Links!Next
  <2> QED
    BY <2>1 DEF Goal
LEMMA SweepersMove ==
  ASSUME LinksSound, [Links!Next]_(Links!vars), NEW t \in Sweeper
  PROVE  sweeper'[t] = sweeper[t] \/ SweeperMoves(t)
<1> DEFINE Goal == sweeper'[t] = sweeper[t] \/ SweeperMoves(t)
<1>a. /\ sweeper \in [Sweeper -> Links!SweeperState]
      /\ \A s \in Sweeper : SweeperSound(sweeper[s])
      /\ \A a \in Account : BindingSound(binding[a])
  BY DEF LinksSound, Links!TypeOK
(* A sweeper that has begun and collects nothing new. *)
<1>1. ASSUME NEW s \in Sweeper, NEW state \in Links!SweeperState, state.pc # "idle",
             state.ids \subseteq sweeper[s].ids,
             state.accounts \subseteq sweeper[s].accounts, Links!Sweeping(s, state)
      PROVE  Goal
  <2>1. SweeperSound(state)
    BY <1>1 DEF SweeperSound
  <2>2. ASSUME sweeper' = [sweeper EXCEPT ![s] = state] PROVE SweeperMoves(s)
    BY <1>1, <1>a, <2>1, <2>2 DEF SweeperMoves
  <2> QED
    BY <1>1, <2>2, SweepingMoves
<1>2. ASSUME NEW s \in Sweeper, Links!QueryIndex(s) PROVE Goal
  <2> DEFINE found == {a \in Account : index[a] = Target[s]}
             state == [sweeper[s] EXCEPT !.pc = "read", !.candidates = found]
  <2>1. Links!Sweeping(s, state)
    BY <1>2 DEF Links!QueryIndex
  <2>2. found \in SUBSET Account
    OBVIOUS
  <2> HIDE DEF found
  <2>3. /\ state \in Links!SweeperState /\ state.pc = "read"
        /\ state.ids = sweeper[s].ids /\ state.accounts = sweeper[s].accounts
    BY <1>a, <2>2 DEF Links!SweeperState
  <2> HIDE DEF state, Goal
  <2> QED
    BY <1>1, <2>1, <2>3
<1>3. ASSUME NEW s \in Sweeper, NEW a \in Account, Links!ReadOwned(s, a) PROVE Goal
  <2> DEFINE kept == [sweeper[s] EXCEPT !.candidates = sweeper[s].candidates \ {a}]
             state == [kept EXCEPT !.accounts = kept.accounts \cup {a},
                                   !.ids = kept.ids \cup {binding[a].id}]
  <2>1. sweeper[s].pc = "read" /\ UNCHANGED <<binding, overtaken>>
    BY <1>3 DEF Links!ReadOwned
  <2>2. /\ kept \in Links!SweeperState /\ kept.pc = "read"
        /\ kept.ids = sweeper[s].ids /\ kept.accounts = sweeper[s].accounts
    BY <1>a, <2>1 DEF Links!SweeperState
  <2>3. CASE binding[a].user = Target[s]
    <3>1. Links!Sweeping(s, state)
      BY <1>3, <2>3 DEF Links!ReadOwned, Links!Owned
    <3>2. binding[a].id \in Link
      <4>1. Target[s] \in User /\ NoUser \notin User
        BY NamesApart
      <4>2. binding[a] # Links!Unbound
        BY <2>3, <4>1, NothingFacts
      <4> QED
        BY <1>a, <4>2 DEF BindingSound
    <3> HIDE DEF kept
    <3>3. /\ state \in Links!SweeperState /\ state.pc = "read"
          /\ state.ids = sweeper[s].ids \cup {binding[a].id}
          /\ state.accounts = sweeper[s].accounts \cup {a}
      BY <2>2, <3>2 DEF Links!SweeperState
    <3> HIDE DEF state
    <3>4. SweeperSound(state)
      BY <3>3 DEF SweeperSound
    <3>5. ASSUME sweeper' = [sweeper EXCEPT ![s] = state] PROVE SweeperMoves(s)
      <4>1. sweeper'[s] = state
        BY <1>a, <3>5
      <4> QED
        BY <2>1, <2>3, <3>3, <3>4, <4>1 DEF SweeperMoves
    <3> QED
      BY <3>1, <3>5, SweepingMoves
  <2>4. CASE binding[a].user # Target[s]
    <3>1. Links!Sweeping(s, kept)
      BY <1>3, <2>4 DEF Links!ReadOwned, Links!Owned
    <3> HIDE DEF kept, Goal
    <3> QED
      BY <1>1, <2>2, <3>1
  <2> QED
    BY <2>3, <2>4
<1>4. ASSUME NEW s \in Sweeper, NEW pc \in {"sweep", "done"},
             NEW b \in {"none", "deleted"},
             \/ Links!Sweeping(s, [sweeper[s] EXCEPT !.pc = pc])
             \/ Links!Sweeping(s, [sweeper[s] EXCEPT !.pc = pc, !.answer = b])
      PROVE  Goal
  <2> DEFINE one == [sweeper[s] EXCEPT !.pc = pc]
             two == [sweeper[s] EXCEPT !.pc = pc, !.answer = b]
  <2>1. /\ one \in Links!SweeperState /\ one.pc = pc
        /\ one.ids = sweeper[s].ids /\ one.accounts = sweeper[s].accounts
    BY <1>a DEF Links!SweeperState
  <2>2. /\ two \in Links!SweeperState /\ two.pc = pc
        /\ two.ids = sweeper[s].ids /\ two.accounts = sweeper[s].accounts
    BY <1>a DEF Links!SweeperState
  <2>3. Links!Sweeping(s, one) \/ Links!Sweeping(s, two)
    BY <1>4
  <2> HIDE DEF one, two, Goal
  <2> QED
    BY <1>1, <2>1, <2>2, <2>3
<1>5. ASSUME NEW s \in Sweeper, Links!StartSweep(s) \/ Links!FinishSweep(s) PROVE Goal
  <2> HIDE DEF Goal
  <2> QED
    BY <1>4, <1>5 DEF Links!StartSweep, Links!FinishSweep
<1>6. ASSUME NEW s \in Sweeper, NEW a \in Account, Links!SweepBinding(s, a) PROVE Goal
  <2> DEFINE state == [sweeper[s] EXCEPT !.accounts = sweeper[s].accounts \ {a}]
  <2>1. Links!Sweeping(s, state) /\ sweeper[s].pc = "sweep"
    BY <1>6 DEF Links!SweepBinding
  <2>2. /\ state \in Links!SweeperState /\ state.pc = "sweep"
        /\ state.ids = sweeper[s].ids /\ state.accounts = sweeper[s].accounts \ {a}
    BY <1>a, <2>1 DEF Links!SweeperState
  <2> HIDE DEF state, Goal
  <2> QED
    BY <1>1, <2>1, <2>2
<1>7. ASSUME NEW s \in Sweeper, NEW x \in Link, Links!SweepPointer(s, x) PROVE Goal
  <2> DEFINE state == [sweeper[s] EXCEPT !.ids = sweeper[s].ids \ {x}]
  <2>1. Links!Sweeping(s, state) /\ sweeper[s].pc = "sweep"
    BY <1>7 DEF Links!SweepPointer
  <2>2. state \in Links!SweeperState /\ state.pc = "sweep"
        /\ state.ids = sweeper[s].ids \ {x} /\ state.accounts = sweeper[s].accounts
    BY <1>a, <2>1 DEF Links!SweeperState
  <2> HIDE DEF state, Goal
  <2> QED
    BY <1>1, <2>1, <2>2
<1>8. ASSUME UNCHANGED sweeper PROVE Goal
  BY <1>8
<1>9. ASSUME Links!Abandon PROVE Goal
  <2>1. \/ UNCHANGED sweeper
        \/ \E s \in Sweeper : Links!Sweeping(s, [sweeper[s] EXCEPT !.pc = "done"])
    BY <1>9 DEF Links!Abandon
  <2> HIDE DEF Goal
  <2> QED
    BY <1>4, <1>8, <2>1
<1>10. ASSUME \/ \E r \in Saver :
                   \/ \E x \in Link, u \in User, a \in Account : Links!Save(r, x, u, a)
                   \/ Links!ReadBinding(r) \/ Links!Bind(r) \/ Links!RefuseBind(r)
              \/ \E d \in Deleter :
                   \/ \E x \in Link : Links!Delete(d, x)
                   \/ Links!ReadPointer(d) \/ Links!Unbind(d) \/ Links!DropPointer(d)
              \/ \E a \in Account : Links!Propagate(a)
              \/ UNCHANGED Links!vars
       PROVE  UNCHANGED sweeper
  BY <1>10 DEF Links!Save, Links!ReadBinding, Links!Bind, Links!RefuseBind,
               Links!Delete, Links!ReadPointer, Links!Unbind, Links!DropPointer,
               Links!Propagate, Links!vars
<1> HIDE DEF Goal
<1> QED
  <2>1. Goal
    BY <1>2, <1>3, <1>5, <1>6, <1>7, <1>8, <1>9, <1>10 DEF Links!Next
  <2> QED
    BY <2>1 DEF Goal

(* What a step does to the items: nothing, or one of these.                *)
Binds(r) ==
  /\ saver[r].pc = "write"
  /\ byID[saver[r].id]
       \in {Links!NoPointer, [user |-> saver[r].user, account |-> saver[r].account]}
  /\ binding[saver[r].account].id \in {NoLink, saver[r].observed}
  /\ binding' = [binding EXCEPT ![saver[r].account] =
                                  [id |-> saver[r].id, user |-> saver[r].user]]
  /\ byID' = [y \in Link |->
                IF y = saver[r].id
                THEN [user |-> saver[r].user, account |-> saver[r].account]
                ELSE IF y = saver[r].observed THEN Links!NoPointer ELSE byID[y]]
  /\ saver'[r].pc = "done"
  /\ overtaken' = [w \in Sweeper |->
                     overtaken[w] \cup ({saver[r].account} \cap sweeper[w].accounts)]
  /\ sweeper' = sweeper

Unbinds(d) ==
  /\ deleter[d].pc = "delete"
  /\ binding[deleter[d].account].id = deleter[d].id
  /\ binding' = [binding EXCEPT ![deleter[d].account] = Links!Unbound]
  /\ byID' = [byID EXCEPT ![deleter[d].id] = Links!NoPointer]
  /\ deleter'[d].pc = "done"
  /\ overtaken' = overtaken

Drops(x) ==
  /\ \/ \E d \in Deleter : deleter[d].pc = "drop" /\ deleter[d].id = x
     \/ \E s \in Sweeper : sweeper[s].pc = "sweep" /\ x \in sweeper[s].ids
  /\ binding' = binding
  /\ byID' = [byID EXCEPT ![x] = Links!NoPointer]
  /\ overtaken' = overtaken

Sweeps(a) ==
  /\ \E s \in Sweeper : sweeper[s].pc = "sweep" /\ Links!Sweeps(s, a)
  /\ binding' = [binding EXCEPT ![a] = Links!Unbound]
  /\ byID' = byID
  /\ overtaken' = overtaken

LEMMA ItemsMove ==
  ASSUME LinksSound, [Links!Next]_(Links!vars)
  PROVE  \/ UNCHANGED <<binding, byID, overtaken>>
         \/ \E r \in Saver : Binds(r)
         \/ \E d \in Deleter : Unbinds(d)
         \/ \E x \in Link : Drops(x)
         \/ \E a \in Account : Sweeps(a)
<1> DEFINE Goal == \/ UNCHANGED <<binding, byID, overtaken>>
                   \/ \E r \in Saver : Binds(r)
                   \/ \E d \in Deleter : Unbinds(d)
                   \/ \E x \in Link : Drops(x)
                   \/ \E a \in Account : Sweeps(a)
<1>a. /\ saver \in [Saver -> Links!SaverState]
      /\ deleter \in [Deleter -> Links!DeleterState]
      /\ sweeper \in [Sweeper -> Links!SweeperState]
      /\ \A d \in Deleter : DeleterSound(deleter[d])
  BY DEF LinksSound, Links!TypeOK
<1>1. ASSUME NEW r \in Saver, Links!Bind(r) PROVE Goal
  <2>1. saver'[r].pc = "done"
    BY <1>1, <1>a DEF Links!Bind, Links!AnswerSave, Links!Saving, Links!SaverState
  <2>2. Binds(r)
    BY <1>1, <2>1 DEF Links!Bind, Binds, Links!NameFree, Links!StillObserved,
         Links!Repointed
  <2> QED
    BY <2>2
<1>2. ASSUME NEW d \in Deleter, Links!Unbind(d) PROVE Goal
  <2>1. CASE Links!Holds(deleter[d].account, deleter[d].id)
    <3>1. deleter'[d].pc = "done"
      BY <1>2, <1>a, <2>1 DEF Links!Unbind, Links!Deleting, Links!DeleterState
    <3>2. Unbinds(d)
      BY <1>2, <2>1, <3>1 DEF Links!Unbind, Unbinds, Links!Holds
    <3> QED
      BY <3>2
  <2>2. CASE ~Links!Holds(deleter[d].account, deleter[d].id)
    BY <1>2, <2>2 DEF Links!Unbind
  <2> QED
    BY <2>1, <2>2
<1>3. ASSUME NEW d \in Deleter, Links!DropPointer(d) PROVE Goal
  <2>1. deleter[d].id \in Link
    BY <1>3, <1>a DEF Links!DropPointer, DeleterSound
  <2>2. Drops(deleter[d].id)
    BY <1>3 DEF Links!DropPointer, Drops
  <2> QED
    BY <2>1, <2>2
<1>4. ASSUME NEW s \in Sweeper, NEW x \in Link, Links!SweepPointer(s, x) PROVE Goal
  <2>1. Drops(x)
    BY <1>4 DEF Links!SweepPointer, Drops
  <2> QED
    BY <2>1
<1>5. ASSUME NEW s \in Sweeper, NEW a \in Account, Links!SweepBinding(s, a) PROVE Goal
  <2>1. sweeper'[s].accounts = sweeper[s].accounts \ {a}
    BY <1>5, <1>a DEF Links!SweepBinding, Links!Sweeping, Links!SweeperState
  <2>2. Links!Sweeps(s, a)
    BY <1>5, <2>1 DEF Links!SweepBinding, Links!Sweeps
  <2>3. Sweeps(a)
    BY <1>5, <2>2 DEF Links!SweepBinding, Sweeps
  <2> QED
    BY <2>3
<1>6. ASSUME \/ \E r \in Saver :
                  \/ \E x \in Link, u \in User, a \in Account : Links!Save(r, x, u, a)
                  \/ Links!ReadBinding(r) \/ Links!RefuseBind(r)
             \/ \E d \in Deleter :
                  (\E x \in Link : Links!Delete(d, x)) \/ Links!ReadPointer(d)
             \/ \E s \in Sweeper :
                  \/ Links!QueryIndex(s)
                  \/ \E a \in Account : Links!ReadOwned(s, a)
                  \/ Links!StartSweep(s) \/ Links!FinishSweep(s)
             \/ \E a \in Account : Links!Propagate(a)
             \/ Links!Abandon
             \/ UNCHANGED Links!vars
      PROVE  UNCHANGED <<binding, byID, overtaken>>
  BY <1>6 DEF Links!Save, Links!ReadBinding, Links!RefuseBind, Links!Delete,
              Links!ReadPointer, Links!QueryIndex, Links!ReadOwned, Links!StartSweep,
              Links!FinishSweep, Links!Propagate, Links!Abandon, Links!vars
<1>7. ASSUME UNCHANGED <<binding, byID, overtaken>> PROVE Goal
  BY <1>7
<1> HIDE DEF Goal
<1> QED
  <2>1. Goal
    BY <1>1, <1>2, <1>3, <1>4, <1>5, <1>6, <1>7 DEF Links!Next
  <2> QED
    BY <2>1 DEF Goal

(* The history of the accounts that were bound again only grows. *)
LEMMA OnlyGrows ==
  ASSUME LinksSound, [Links!Next]_(Links!vars)
  PROVE  /\ overtaken' \in [Sweeper -> SUBSET Account]
         /\ \A s \in Sweeper : overtaken[s] \subseteq overtaken'[s]
<1>1. /\ overtaken \in [Sweeper -> SUBSET Account]
      /\ sweeper \in [Sweeper -> Links!SweeperState]
  BY DEF LinksSound, Links!TypeOK
<1>2. \A s \in Sweeper : sweeper[s].accounts \subseteq Account
  BY <1>1 DEF Links!SweeperState
<1>3. ASSUME NEW r \in Saver, Binds(r)
      PROVE  /\ overtaken' \in [Sweeper -> SUBSET Account]
             /\ \A s \in Sweeper : overtaken[s] \subseteq overtaken'[s]
  BY <1>1, <1>2, <1>3 DEF Binds
<1> QED
  BY <1>1, <1>3, ItemsMove DEF Unbinds, Drops, Sweeps

(* The items stay sound. *)
LEMMA ItemsSound ==
  ASSUME LinksSound, [Links!Next]_(Links!vars)
  PROVE  /\ binding' \in [Account -> Links!Binding] /\ byID' \in [Link -> Links!Pointer]
         /\ \A a \in Account : BindingSound(binding'[a])
         /\ \A x \in Link : NameSound(byID'[x])
<1> DEFINE Goal == /\ binding' \in [Account -> Links!Binding]
                   /\ byID' \in [Link -> Links!Pointer]
                   /\ \A a \in Account : BindingSound(binding'[a])
                   /\ \A x \in Link : NameSound(byID'[x])
<1>a. /\ binding \in [Account -> Links!Binding] /\ byID \in [Link -> Links!Pointer]
      /\ \A a \in Account : BindingSound(binding[a])
      /\ \A x \in Link : NameSound(byID[x])
      /\ \A r \in Saver : SaverSound(saver[r])
      /\ \A d \in Deleter : DeleterSound(deleter[d])
  BY DEF LinksSound, Links!TypeOK
<1>b. /\ BindingSound(Links!Unbound) /\ Links!Unbound \in Links!Binding
      /\ NameSound(Links!NoPointer) /\ Links!NoPointer \in Links!Pointer
  BY NothingFacts DEF BindingSound, NameSound
<1>1. ASSUME NEW r \in Saver, Binds(r) PROVE Goal
  <2> DEFINE b == [id |-> saver[r].id, user |-> saver[r].user]
             p == [user |-> saver[r].user, account |-> saver[r].account]
  <2>1. saver[r].id \in Link /\ saver[r].user \in User /\ saver[r].account \in Account
    BY <1>1, <1>a DEF Binds, SaverSound
  <2>2. b \in Links!Binding /\ BindingSound(b)
    BY <2>1 DEF Links!Binding, BindingSound
  <2>3. p \in Links!Pointer /\ NameSound(p)
    BY <2>1 DEF Links!Pointer, NameSound
  <2>4. /\ binding' = [binding EXCEPT ![saver[r].account] = b]
        /\ byID' = [y \in Link |-> IF y = saver[r].id THEN p
                                   ELSE IF y = saver[r].observed THEN Links!NoPointer
                                   ELSE byID[y]]
    BY <1>1 DEF Binds
  <2> HIDE DEF b, p
  <2> QED
    BY <1>a, <1>b, <2>2, <2>3, <2>4
<1>2. ASSUME NEW d \in Deleter, Unbinds(d) PROVE Goal
  BY <1>2, <1>a, <1>b DEF Unbinds
<1>3. ASSUME NEW x \in Link, Drops(x) PROVE Goal
  BY <1>3, <1>a, <1>b DEF Drops
<1>4. ASSUME NEW a \in Account, Sweeps(a) PROVE Goal
  BY <1>4, <1>a, <1>b DEF Sweeps
<1>5. ASSUME UNCHANGED <<binding, byID>> PROVE Goal
  BY <1>5, <1>a
<1> HIDE DEF Goal
<1> QED
  <2>1. Goal
    BY <1>1, <1>2, <1>3, <1>4, <1>5, ItemsMove
  <2> QED
    BY <2>1 DEF Goal

(* The calls, as functions. *)
LEMMA CallsTyped ==
  ASSUME LinksSound, [Links!Next]_(Links!vars)
  PROVE  /\ saver' \in [Saver -> Links!SaverState]
         /\ deleter' \in [Deleter -> Links!DeleterState]
         /\ sweeper' \in [Sweeper -> Links!SweeperState]
         /\ index' \in [Account -> User \cup {NoUser}]
<1>a. /\ saver \in [Saver -> Links!SaverState]
      /\ deleter \in [Deleter -> Links!DeleterState]
      /\ sweeper \in [Sweeper -> Links!SweeperState]
      /\ index \in [Account -> User \cup {NoUser}]
      /\ \A a \in Account : binding[a].user \in User \cup {NoUser}
  BY BoundFacts DEF LinksSound, Links!TypeOK
<1>1. \A r \in Saver : saver'[r] \in Links!SaverState
  BY <1>a, SaversMove DEF SaverMoves, SaverSound
<1>2. \A d \in Deleter : deleter'[d] \in Links!DeleterState
  BY <1>a, DeletersMove DEF DeleterMoves, DeleterSound
<1>3. \A s \in Sweeper : sweeper'[s] \in Links!SweeperState
  BY <1>a, SweepersMove DEF SweeperMoves, SweeperSound
<1>4. saver' = saver \/ \E r \in Saver : \E st : saver' = [saver EXCEPT ![r] = st]
  <2>1. ASSUME NEW r \in Saver,
               \/ \E x \in Link, u \in User, a \in Account : Links!Save(r, x, u, a)
               \/ Links!ReadBinding(r) \/ Links!Bind(r) \/ Links!RefuseBind(r)
        PROVE  \E st : Links!Saving(r, st)
    BY <2>1 DEF Links!Save, Links!ReadBinding, Links!Bind, Links!RefuseBind,
                  Links!AnswerSave
  <2>2. ASSUME Links!Abandon
        PROVE  saver' = saver \/ \E r \in Saver : \E st : Links!Saving(r, st)
    BY <2>2 DEF Links!Abandon, Links!AnswerSave
  <2>3. ASSUME \/ \E d \in Deleter :
                    \/ \E x \in Link : Links!Delete(d, x)
                    \/ Links!ReadPointer(d) \/ Links!Unbind(d) \/ Links!DropPointer(d)
               \/ \E s \in Sweeper :
                    \/ Links!QueryIndex(s)
                    \/ \E a \in Account : Links!ReadOwned(s, a) \/ Links!SweepBinding(s, a)
                    \/ Links!StartSweep(s)
                    \/ \E x \in Link : Links!SweepPointer(s, x)
                    \/ Links!FinishSweep(s)
               \/ \E a \in Account : Links!Propagate(a)
               \/ UNCHANGED Links!vars
        PROVE  saver' = saver
    BY <2>3 DEF Links!Delete, Links!ReadPointer, Links!Unbind, Links!DropPointer,
                Links!QueryIndex, Links!ReadOwned, Links!SweepBinding, Links!StartSweep,
                Links!SweepPointer, Links!FinishSweep, Links!Propagate, Links!vars
  <2>4. saver' = saver \/ \E r \in Saver : \E st : Links!Saving(r, st)
    BY <2>1, <2>2, <2>3 DEF Links!Next
  <2> QED
    BY <2>4 DEF Links!Saving
<1>5. deleter' = deleter \/ \E d \in Deleter : \E st : deleter' = [deleter EXCEPT ![d] = st]
  <2>1. ASSUME NEW d \in Deleter,
               \/ \E x \in Link : Links!Delete(d, x)
               \/ Links!ReadPointer(d) \/ Links!Unbind(d) \/ Links!DropPointer(d)
        PROVE  \E st : Links!Deleting(d, st)
    BY <2>1 DEF Links!Delete, Links!ReadPointer, Links!Unbind, Links!DropPointer
  <2>2. ASSUME Links!Abandon
        PROVE  deleter' = deleter \/ \E d \in Deleter : \E st : Links!Deleting(d, st)
    BY <2>2 DEF Links!Abandon
  <2>3. ASSUME \/ \E r \in Saver :
                    \/ \E x \in Link, u \in User, a \in Account : Links!Save(r, x, u, a)
                    \/ Links!ReadBinding(r) \/ Links!Bind(r) \/ Links!RefuseBind(r)
               \/ \E s \in Sweeper :
                    \/ Links!QueryIndex(s)
                    \/ \E a \in Account : Links!ReadOwned(s, a) \/ Links!SweepBinding(s, a)
                    \/ Links!StartSweep(s)
                    \/ \E x \in Link : Links!SweepPointer(s, x)
                    \/ Links!FinishSweep(s)
               \/ \E a \in Account : Links!Propagate(a)
               \/ UNCHANGED Links!vars
        PROVE  deleter' = deleter
    BY <2>3 DEF Links!Save, Links!ReadBinding, Links!Bind, Links!RefuseBind,
                Links!QueryIndex, Links!ReadOwned, Links!SweepBinding, Links!StartSweep,
                Links!SweepPointer, Links!FinishSweep, Links!Propagate, Links!vars
  <2>4. deleter' = deleter \/ \E d \in Deleter : \E st : Links!Deleting(d, st)
    BY <2>1, <2>2, <2>3 DEF Links!Next
  <2> QED
    BY <2>4 DEF Links!Deleting
<1>6. sweeper' = sweeper \/ \E s \in Sweeper : \E st : sweeper' = [sweeper EXCEPT ![s] = st]
  <2>1. ASSUME NEW s \in Sweeper,
               \/ Links!QueryIndex(s)
               \/ \E a \in Account : Links!ReadOwned(s, a) \/ Links!SweepBinding(s, a)
               \/ Links!StartSweep(s)
               \/ \E x \in Link : Links!SweepPointer(s, x)
               \/ Links!FinishSweep(s)
        PROVE  \E st : Links!Sweeping(s, st)
    BY <2>1 DEF Links!QueryIndex, Links!ReadOwned, Links!SweepBinding, Links!StartSweep,
                Links!SweepPointer, Links!FinishSweep
  <2>2. ASSUME Links!Abandon
        PROVE  sweeper' = sweeper \/ \E s \in Sweeper : \E st : Links!Sweeping(s, st)
    BY <2>2 DEF Links!Abandon
  <2>3. ASSUME \/ \E r \in Saver :
                    \/ \E x \in Link, u \in User, a \in Account : Links!Save(r, x, u, a)
                    \/ Links!ReadBinding(r) \/ Links!Bind(r) \/ Links!RefuseBind(r)
               \/ \E d \in Deleter :
                    \/ \E x \in Link : Links!Delete(d, x)
                    \/ Links!ReadPointer(d) \/ Links!Unbind(d) \/ Links!DropPointer(d)
               \/ \E a \in Account : Links!Propagate(a)
               \/ UNCHANGED Links!vars
        PROVE  sweeper' = sweeper
    BY <2>3 DEF Links!Save, Links!ReadBinding, Links!Bind, Links!RefuseBind,
                Links!Delete, Links!ReadPointer, Links!Unbind, Links!DropPointer,
                Links!Propagate, Links!vars
  <2>4. sweeper' = sweeper \/ \E s \in Sweeper : \E st : Links!Sweeping(s, st)
    BY <2>1, <2>2, <2>3 DEF Links!Next
  <2> QED
    BY <2>4 DEF Links!Sweeping
<1>7. index' = index \/ \E a \in Account : index' = [index EXCEPT ![a] = binding[a].user]
  BY DEF Links!Next, Links!Save, Links!ReadBinding, Links!Bind, Links!RefuseBind,
         Links!Delete, Links!ReadPointer, Links!Unbind, Links!DropPointer,
         Links!QueryIndex, Links!ReadOwned, Links!SweepBinding, Links!StartSweep,
         Links!SweepPointer, Links!FinishSweep, Links!Propagate, Links!Abandon, Links!vars
<1>8. saver' \in [Saver -> Links!SaverState]
  BY <1>a, <1>1, <1>4
<1>9. deleter' \in [Deleter -> Links!DeleterState]
  BY <1>a, <1>2, <1>5
<1>10. sweeper' \in [Sweeper -> Links!SweeperState]
  BY <1>a, <1>3, <1>6
<1>11. index' \in [Account -> User \cup {NoUser}]
  BY <1>a, <1>7
<1> QED
  BY <1>8, <1>9, <1>10, <1>11

LEMMA LinksSoundStep ==
  ASSUME LinksSound, [Links!Next]_(Links!vars)
  PROVE  LinksSound'
<1>a. /\ \A r \in Saver : SaverSound(saver[r])
      /\ \A d \in Deleter : DeleterSound(deleter[d])
      /\ \A s \in Sweeper : SweeperSound(sweeper[s])
  BY DEF LinksSound
<1>1. \A r \in Saver : SaverSound(saver'[r])
  BY <1>a, SaversMove DEF SaverMoves
<1>2. \A d \in Deleter : DeleterSound(deleter'[d])
  BY <1>a, DeletersMove DEF DeleterMoves
<1>3. \A s \in Sweeper : SweeperSound(sweeper'[s])
  BY <1>a, SweepersMove DEF SweeperMoves
<1>4. Links!TypeOK'
  BY CallsTyped, ItemsSound, OnlyGrows DEF Links!TypeOK
<1>5. /\ \A a \in Account : BindingSound(binding[a])'
      /\ \A x \in Link : NameSound(byID[x])'
      /\ \A r \in Saver : SaverSound(saver[r])'
      /\ \A d \in Deleter : DeleterSound(deleter[d])'
      /\ \A s \in Sweeper : SweeperSound(sweeper[s])'
  BY <1>1, <1>2, <1>3, ItemsSound DEF BindingSound, NameSound, SaverSound,
                                      DeleterSound, SweeperSound
<1> QED
  BY <1>4, <1>5 DEF LinksSound
-----------------------------------------------------------------------------
(* Minted, after the step. *)
MintedBy(x, u, a) ==
  \E q \in Saver : /\ saver'[q].pc = "done" /\ saver'[q].id = x
                   /\ saver'[q].user = u /\ saver'[q].account = a

(* What holds of a Save, and of a DeleteUser, holds from then on.          *)
LEMMA LinksSteady ==
  ASSUME LinksSound, [Links!Next]_(Links!vars)
  PROVE  /\ \A x, u, a : Minted(x, u, a) => MintedBy(x, u, a)
         /\ Links!FreshIds' => Links!FreshIds
         /\ \A u : Links!BeingDeleted(u) => Links!BeingDeleted(u)'
         /\ (\A s \in Sweeper : sweeper'[s].pc = "idle")
              => \A s \in Sweeper : sweeper[s].pc = "idle"
<1>1. \A x, u, a : Minted(x, u, a) => MintedBy(x, u, a)
  BY SaversMove DEF Minted, MintedBy, SaverMoves
<1>2. \A r \in Saver : saver[r].id # NoLink => saver'[r].id = saver[r].id
  BY SaversMove DEF SaverMoves, LinksSound, SaverSound
<1>3. Links!FreshIds' => Links!FreshIds
  BY <1>2 DEF Links!FreshIds
<1>4. \A u : Links!BeingDeleted(u) => Links!BeingDeleted(u)'
  BY SweepersMove DEF Links!BeingDeleted, SweeperMoves
<1>5. (\A s \in Sweeper : sweeper'[s].pc = "idle")
        => \A s \in Sweeper : sweeper[s].pc = "idle"
  BY SweepersMove DEF SweeperMoves
<1> QED
  BY <1>1, <1>3, <1>4, <1>5

(* An id that one Save carries alone says who it was minted for. *)
LEMMA MintedOnce ==
  ASSUME Links!FreshIds, NEW x, x # NoLink, NEW u, NEW a, Minted(x, u, a)
  PROVE  /\ \A v, b : Minted(x, v, b) => v = u /\ b = a
         /\ \A r \in Saver : saver[r].pc # "done" => saver[r].id # x
BY DEF Links!FreshIds, Minted

LEMMA LinksKnowStep ==
  ASSUME LinksSound, LinksKnow, [Links!Next]_(Links!vars)
  PROVE  LinksKnow'
<1>a. /\ \A a \in Account : BindingSound(binding[a])
      /\ \A x \in Link : NameSound(byID[x])
      /\ \A r \in Saver : SaverSound(saver[r])
      /\ \A d \in Deleter : DeleterSound(deleter[d])
      /\ NoLink \notin Link
  BY NamesApart DEF LinksSound
<1>b. /\ binding \in [Account -> Links!Binding] /\ byID \in [Link -> Links!Pointer]
  BY DEF LinksSound, Links!TypeOK
<1>c. SaversKnow /\ DeletersKnow /\ SweepersKnow /\ BindingsKnow /\ NamesKnow
  BY DEF LinksKnow
<1>d. \A a \in Account :
        binding[a].id # NoLink
          => binding[a].user \in User /\ Minted(binding[a].id, binding[a].user, a)
  BY <1>a, <1>c, BoundFacts DEF BindingSound, BindingsKnow
(* Who binds is done, and has carried it. *)
<1>e. ASSUME NEW r \in Saver, Binds(r)
      PROVE  /\ saver[r].id \in Link /\ saver[r].user \in User /\ saver[r].account \in Account
             /\ MintedBy(saver[r].id, saver[r].user, saver[r].account)
  <2>1. SaverMoves(r) /\ saver'[r].pc = "done" /\ saver[r].pc = "write"
    BY <1>e, SaversMove DEF Binds
  <2> QED
    BY <1>a, <2>1 DEF SaverMoves, SaverSound, MintedBy
<1>1. SaversKnow'
  <2> SUFFICES ASSUME NEW r \in Saver, saver'[r].pc = "write", saver'[r].observed # NoLink
               PROVE  \E u \in User : MintedBy(saver'[r].observed, u, saver'[r].account)
    BY DEF SaversKnow, Minted, MintedBy
  <2>1. \E u \in User : Minted(saver'[r].observed, u, saver'[r].account)
    <3>1. CASE saver'[r] = saver[r]
      BY <1>c, <3>1 DEF SaversKnow
    <3>2. CASE SaverMoves(r)
      <4>1. saver[r].pc = "read" /\ saver[r].account \in Account
        BY <1>a, <3>2 DEF SaverMoves, SaverSound
      <4>2. /\ saver'[r].observed = binding[saver[r].account].id
            /\ saver'[r].account = saver[r].account
        BY <3>2, <4>1 DEF SaverMoves
      <4> QED
        BY <1>d, <4>1, <4>2
    <3> QED
      BY <3>1, <3>2, SaversMove
  <2> QED
    BY <2>1, LinksSteady
<1>2. DeletersKnow'
  <2> SUFFICES ASSUME NEW d \in Deleter, deleter'[d].pc \in {"delete", "drop"}
               PROVE  /\ \E u \in User : MintedBy(deleter'[d].id, u, deleter'[d].account)
                      /\ deleter'[d].pc = "drop" /\ Links!FreshIds'
                           => \A a \in Account : binding'[a].id # deleter'[d].id
    BY DEF DeletersKnow, Minted, MintedBy, Links!FreshIds
  <2>1. \E u \in User : Minted(deleter'[d].id, u, deleter'[d].account)
    <3>1. CASE deleter'[d] = deleter[d]
      BY <1>c, <3>1 DEF DeletersKnow
    <3>2. CASE DeleterMoves(d) /\ deleter'[d].pc = "delete"
      <4>1. /\ deleter'[d].id \in Link /\ byID[deleter'[d].id] # Links!NoPointer
            /\ deleter'[d].account = byID[deleter'[d].id].account
        BY <3>2 DEF DeleterMoves
      <4>2. Minted(deleter'[d].id, byID[deleter'[d].id].user, deleter'[d].account)
        BY <1>c, <4>1 DEF NamesKnow
      <4>3. byID[deleter'[d].id].user \in User
        BY <1>a, <4>1 DEF NameSound
      <4> QED
        BY <4>2, <4>3
    <3>3. CASE DeleterMoves(d) /\ deleter'[d].pc = "drop"
      BY <1>c, <3>3 DEF DeleterMoves, DeletersKnow
    <3> QED
      BY <3>1, <3>2, <3>3, DeletersMove
  <2>2. ASSUME deleter'[d].pc = "drop", Links!FreshIds', NEW a \in Account
        PROVE  binding'[a].id # deleter'[d].id
    <3>1. Links!FreshIds
      BY <2>2, LinksSteady
    <3>2. deleter'[d].id \in Link
      BY DeletersMove, <1>a, <2>2 DEF DeleterMoves, DeleterSound
    <3>3. PICK u \in User : Minted(deleter'[d].id, u, deleter'[d].account)
      BY <2>1
    <3>4. CASE deleter'[d] = deleter[d]
      <4>1. binding[a].id # deleter'[d].id
        BY <1>c, <2>2, <3>1, <3>4 DEF DeletersKnow
      <4>2. ASSUME NEW r \in Saver, Binds(r) PROVE binding'[a].id # deleter'[d].id
        <5>1. saver[r].id # deleter'[d].id
          BY <1>a, <3>1, <3>2, <3>3, <4>2, MintedOnce DEF Binds
        <5> QED
          BY <1>b, <4>1, <4>2, <5>1 DEF Binds
      <4>3. ASSUME binding' = binding \/ binding'[a] \in {binding[a], Links!Unbound}
            PROVE  binding'[a].id # deleter'[d].id
        BY <1>a, <3>2, <4>1, <4>3, NothingFacts
      <4> QED
        BY <1>b, <4>2, <4>3, ItemsMove DEF Unbinds, Drops, Sweeps
    <3>5. CASE DeleterMoves(d)
      <4>1. /\ binding' = binding
            /\ binding[deleter'[d].account].id # deleter'[d].id
        BY <2>2, <3>5 DEF DeleterMoves
      <4>2. SUFFICES ASSUME binding[a].id = deleter'[d].id PROVE FALSE
        BY <4>1
      <4>3. Minted(deleter'[d].id, binding[a].user, a)
        BY <1>a, <1>d, <3>2, <4>2
      <4>4. a = deleter'[d].account
        BY <1>a, <3>1, <3>2, <3>3, <4>3, MintedOnce
      <4> QED
        BY <4>1, <4>2, <4>4
    <3> QED
      BY <3>4, <3>5, DeletersMove
  <2> QED
    BY <2>1, <2>2, LinksSteady
<1>3. SweepersKnow'
  <2> SUFFICES ASSUME NEW s \in Sweeper, NEW x \in sweeper'[s].ids
               PROVE  \E a \in Account : MintedBy(x, Target[s], a)
    BY DEF SweepersKnow, Minted, MintedBy
  <2>1. Target[s] \in User /\ NoUser \notin User
    BY NamesApart
  <2>2. \A a \in Account :
          binding[a].user = Target[s] => Minted(binding[a].id, binding[a].user, a)
    BY <1>a, <1>d, <2>1, BoundFacts
  <2>3. \E a \in Account : Minted(x, Target[s], a)
    BY <1>c, <2>2, SweepersMove DEF SweeperMoves, SweepersKnow
  <2> QED
    BY <2>3, LinksSteady
<1>4. BindingsKnow'
  <2> SUFFICES ASSUME NEW a \in Account, binding'[a] # Links!Unbound
               PROVE  MintedBy(binding'[a].id, binding'[a].user, a)
    BY DEF BindingsKnow, Minted, MintedBy, Links!Unbound
  <2>1. CASE binding'[a] = binding[a]
    BY <1>c, <2>1, LinksSteady DEF BindingsKnow
  <2>2. ASSUME NEW r \in Saver, Binds(r), binding'[a] # binding[a]
        PROVE  MintedBy(binding'[a].id, binding'[a].user, a)
    <3>1. a = saver[r].account /\ binding'[a] = [id |-> saver[r].id, user |-> saver[r].user]
      BY <1>b, <2>2 DEF Binds
    <3>2. binding'[a].id = saver[r].id /\ binding'[a].user = saver[r].user
      BY <3>1
    <3> QED
      BY <1>e, <2>2, <3>1, <3>2
  <2>3. binding'[a] = binding[a] \/ \E r \in Saver : Binds(r)
    BY <1>b, ItemsMove DEF Unbinds, Drops, Sweeps
  <2> QED
    BY <2>1, <2>2, <2>3
<1>5. NamesKnow'
  <2> SUFFICES ASSUME NEW x \in Link, byID'[x] # Links!NoPointer
               PROVE  MintedBy(x, byID'[x].user, byID'[x].account)
    BY DEF NamesKnow, Minted, MintedBy, Links!NoPointer
  <2>1. CASE byID'[x] = byID[x]
    BY <1>c, <2>1, LinksSteady DEF NamesKnow
  <2>2. ASSUME NEW r \in Saver, Binds(r), byID'[x] # byID[x]
        PROVE  MintedBy(x, byID'[x].user, byID'[x].account)
    <3>1. x = saver[r].id /\ byID'[x] = [user |-> saver[r].user, account |-> saver[r].account]
      BY <1>b, <2>2 DEF Binds
    <3>2. byID'[x].user = saver[r].user /\ byID'[x].account = saver[r].account
      BY <3>1
    <3> QED
      BY <1>e, <2>2, <3>1, <3>2
  <2>3. byID'[x] = byID[x] \/ \E r \in Saver : Binds(r)
    BY <1>b, ItemsMove DEF Unbinds, Drops, Sweeps
  <2> QED
    BY <2>1, <2>2, <2>3
<1> QED
  BY <1>1, <1>2, <1>3, <1>4, <1>5 DEF LinksKnow
(* Whoever is bound can unbind, and rebinding leaves nothing, after the    *)
(* step as before it.                                                      *)
LEMMA PairsStep ==
  ASSUME LinksSound, LinksKnow, BindingsArePairs, [Links!Next]_(Links!vars)
  PROVE  BindingsArePairs'
<1>a. /\ \A a \in Account : BindingSound(binding[a])
      /\ \A x \in Link : NameSound(byID[x])
      /\ \A r \in Saver : SaverSound(saver[r])
      /\ \A d \in Deleter : DeleterSound(deleter[d])
      /\ NoLink \notin Link
  BY NamesApart DEF LinksSound
<1>b. /\ binding \in [Account -> Links!Binding] /\ byID \in [Link -> Links!Pointer]
  BY DEF LinksSound, Links!TypeOK
<1>c. SaversKnow /\ DeletersKnow /\ SweepersKnow /\ BindingsKnow /\ NamesKnow
  BY DEF LinksKnow
<1>d. Links!UnlinkableByID /\ Links!RebindLeavesNothing
  BY DEF BindingsArePairs, Links!BindingsArePairs
<1>1. ASSUME NEW a \in Account, Links!FreshIds', binding'[a] # Links!Unbound,
             ~\E s \in Sweeper : Target[s] = binding'[a].user /\ sweeper'[s].pc # "idle"
      PROVE  byID'[binding'[a].id] = [user |-> binding'[a].user, account |-> a]
  <2> DEFINE Goal == byID'[binding'[a].id] = [user |-> binding'[a].user, account |-> a]
  <2>1. Links!FreshIds
    BY <1>1, LinksSteady
  <2>2. ASSUME binding'[a] = binding[a]
        PROVE  /\ binding[a].id \in Link /\ binding[a].id # NoLink
               /\ Minted(binding[a].id, binding[a].user, a)
               /\ ~Links!BeingDeleted(binding[a].user)
               /\ byID[binding[a].id] = [user |-> binding[a].user, account |-> a]
    <3>1. binding[a].id \in Link /\ Minted(binding[a].id, binding[a].user, a)
      BY <1>1, <1>a, <1>c, <2>2 DEF BindingSound, BindingsKnow
    <3>2. ~Links!BeingDeleted(binding[a].user)
      BY <1>1, <2>2, LinksSteady DEF Links!BeingDeleted
    <3> QED
      BY <1>1, <1>a, <1>d, <2>1, <2>2, <3>1, <3>2 DEF Links!UnlinkableByID
  <2>3. ASSUME binding'[a] = binding[a], byID'[binding[a].id] = byID[binding[a].id]
        PROVE  Goal
    BY <2>2, <2>3
  <2>4. ASSUME NEW r \in Saver, Binds(r) PROVE Goal
    <3>1. saver[r].pc = "write" /\ saver[r].id \in Link /\ saver[r].account \in Account
      BY <1>a, <2>4 DEF Binds, SaverSound
    <3>2. CASE a = saver[r].account
      <4>1. binding'[a] = [id |-> saver[r].id, user |-> saver[r].user]
        BY <1>b, <2>4, <3>2 DEF Binds
      <4>2. byID'[saver[r].id] = [user |-> saver[r].user, account |-> saver[r].account]
        BY <2>4, <3>1 DEF Binds
      <4> QED
        BY <3>2, <4>1, <4>2
    <3>3. CASE a # saver[r].account
      <4>1. binding'[a] = binding[a]
        BY <1>b, <2>4, <3>3 DEF Binds
      <4>2. binding[a].id # saver[r].id
        BY <2>1, <2>2, <3>1, <4>1, MintedOnce
      <4>3. binding[a].id # saver[r].observed
        <5>1. CASE saver[r].observed = NoLink
          BY <2>2, <4>1, <5>1
        <5>2. CASE saver[r].observed # NoLink
          <6>1. PICK u \in User : Minted(saver[r].observed, u, saver[r].account)
            BY <1>c, <3>1, <5>2 DEF SaversKnow
          <6> QED
            BY <2>1, <2>2, <3>3, <4>1, <6>1, MintedOnce
        <5> QED
          BY <5>1, <5>2
      <4>4. byID'[binding[a].id] = byID[binding[a].id]
        BY <2>2, <2>4, <4>1, <4>2, <4>3 DEF Binds
      <4> QED
        BY <2>3, <4>1, <4>4
    <3> QED
      BY <3>2, <3>3
  <2>5. ASSUME NEW d \in Deleter, Unbinds(d) PROVE Goal
    <3>1. a # deleter[d].account /\ binding'[a] = binding[a]
      BY <1>1, <1>b, <2>5 DEF Unbinds
    <3>2. PICK u \in User : Minted(deleter[d].id, u, deleter[d].account)
      BY <1>c, <2>5 DEF Unbinds, DeletersKnow
    <3>3. binding[a].id # deleter[d].id
      BY <2>1, <2>2, <3>1, <3>2, MintedOnce
    <3>4. byID'[binding[a].id] = byID[binding[a].id]
      BY <1>b, <2>2, <2>5, <3>1, <3>3 DEF Unbinds
    <3> QED
      BY <2>3, <3>1, <3>4
  <2>6. ASSUME NEW x \in Link, Drops(x) PROVE Goal
    <3>1. binding'[a] = binding[a]
      BY <2>6 DEF Drops
    <3>2. binding[a].id # x
      <4>1. CASE \E d \in Deleter : deleter[d].pc = "drop" /\ deleter[d].id = x
        BY <1>c, <2>1, <4>1 DEF DeletersKnow
      <4>2. ASSUME NEW s \in Sweeper, sweeper[s].pc = "sweep", x \in sweeper[s].ids,
                   binding[a].id = x
            PROVE  FALSE
        <5>1. PICK b \in Account : Minted(x, Target[s], b)
          BY <1>c, <4>2 DEF SweepersKnow
        <5>2. binding[a].user = Target[s]
          BY <2>1, <2>2, <3>1, <4>2, <5>1, MintedOnce
        <5> QED
          BY <2>2, <3>1, <4>2, <5>2 DEF Links!BeingDeleted
      <4> QED
        BY <2>6, <4>1, <4>2 DEF Drops
    <3>3. byID'[binding[a].id] = byID[binding[a].id]
      BY <1>b, <2>2, <2>6, <3>1, <3>2 DEF Drops
    <3> QED
      BY <2>3, <3>1, <3>3
  <2>7. ASSUME NEW b \in Account, Sweeps(b) PROVE Goal
    <3>1. binding'[a] = binding[a] /\ byID' = byID
      BY <1>1, <1>b, <2>7 DEF Sweeps
    <3> QED
      BY <2>3, <3>1
  <2>8. ASSUME UNCHANGED <<binding, byID>> PROVE Goal
    BY <2>3, <2>8
  <2> HIDE DEF Goal
  <2>9. Goal
    BY <2>4, <2>5, <2>6, <2>7, <2>8, ItemsMove
  <2> QED
    BY <2>9 DEF Goal
<1>2. ASSUME \A s \in Sweeper : sweeper'[s].pc = "idle", NEW x \in Link,
             byID'[x] # Links!NoPointer
      PROVE  binding'[byID'[x].account] = [id |-> x, user |-> byID'[x].user]
  <2> DEFINE Goal == binding'[byID'[x].account] = [id |-> x, user |-> byID'[x].user]
  <2>1. \A s \in Sweeper : sweeper[s].pc = "idle"
    BY <1>2, LinksSteady
  <2>2. ASSUME byID'[x] = byID[x]
        PROVE  /\ byID[x].account \in Account
               /\ binding[byID[x].account] = [id |-> x, user |-> byID[x].user]
    <3>1. ~Links!BeingDeleted(byID[x].user)
      BY <2>1 DEF Links!BeingDeleted
    <3>2. Links!NothingStale
      BY <1>d, <2>1 DEF Links!RebindLeavesNothing
    <3> QED
      BY <1>2, <1>a, <2>2, <3>1, <3>2 DEF Links!NothingStale, NameSound
  <2>3. ASSUME byID'[x] = byID[x], binding'[byID[x].account] = binding[byID[x].account]
        PROVE  Goal
    BY <2>2, <2>3
  <2>4. ASSUME NEW r \in Saver, Binds(r) PROVE Goal
    <3>1. saver[r].id \in Link /\ saver[r].account \in Account
      BY <1>a, <2>4 DEF Binds, SaverSound
    <3>2. CASE x = saver[r].id
      <4>1. byID'[x] = [user |-> saver[r].user, account |-> saver[r].account]
        BY <2>4, <3>2 DEF Binds
      <4>2. binding'[saver[r].account] = [id |-> saver[r].id, user |-> saver[r].user]
        BY <1>b, <2>4, <3>1 DEF Binds
      <4> QED
        BY <3>2, <4>1, <4>2
    <3>3. CASE x # saver[r].id
      <4>1. x # saver[r].observed /\ byID'[x] = byID[x]
        BY <1>2, <2>4, <3>3 DEF Binds
      <4>2. binding[byID[x].account].id = x
        BY <2>2, <4>1
      <4>3. byID[x].account # saver[r].account
        BY <1>a, <2>4, <4>1, <4>2 DEF Binds
      <4>4. binding'[byID[x].account] = binding[byID[x].account]
        BY <1>b, <2>2, <2>4, <4>1, <4>3 DEF Binds
      <4> QED
        BY <2>3, <4>1, <4>4
    <3> QED
      BY <3>2, <3>3
  <2>5. ASSUME NEW d \in Deleter, Unbinds(d) PROVE Goal
    <3>1. x # deleter[d].id /\ byID'[x] = byID[x]
      BY <1>2, <1>b, <2>5 DEF Unbinds
    <3>2. binding[byID[x].account].id = x
      BY <2>2, <3>1
    <3>3. byID[x].account # deleter[d].account
      BY <2>5, <3>1, <3>2 DEF Unbinds
    <3>4. binding'[byID[x].account] = binding[byID[x].account]
      BY <1>b, <2>2, <2>5, <3>1, <3>3 DEF Unbinds
    <3> QED
      BY <2>3, <3>1, <3>4
  <2>6. ASSUME NEW y \in Link, Drops(y) PROVE Goal
    <3>1. byID'[x] = byID[x] /\ binding' = binding
      BY <1>2, <1>b, <2>6 DEF Drops
    <3> QED
      BY <2>3, <3>1
  <2>7. \A b \in Account : ~Sweeps(b)
    BY <2>1 DEF Sweeps
  <2>8. ASSUME UNCHANGED <<binding, byID>> PROVE Goal
    BY <2>3, <2>8
  <2> HIDE DEF Goal
  <2>9. Goal
    BY <2>4, <2>5, <2>6, <2>7, <2>8, ItemsMove
  <2> QED
    BY <2>9 DEF Goal
<1>3. Links!UnlinkableByID'
  BY <1>1 DEF Links!UnlinkableByID, Links!FreshIds, Links!BeingDeleted, Links!Unbound
<1>4. Links!RebindLeavesNothing'
  BY <1>2 DEF Links!RebindLeavesNothing, Links!NothingStale
<1> QED
  BY <1>3, <1>4 DEF BindingsArePairs, Links!BindingsArePairs

LEMMA OwnersStep ==
  ASSUME LinkInv, [Links!Next]_(Links!vars) PROVE OwnersKnow'
<1> SUFFICES ASSUME NEW s \in Sweeper, NEW a \in sweeper'[s].accounts
             PROVE  binding'[a].user \in {Target[s], NoUser} \/ a \in overtaken'[s]
  BY DEF OwnersKnow
<1> DEFINE Goal == binding'[a].user \in {Target[s], NoUser} \/ a \in overtaken'[s]
<1>1. /\ LinksSound /\ binding \in [Account -> Links!Binding]
      /\ overtaken \in [Sweeper -> SUBSET Account]
      /\ \A t \in Sweeper : \A b \in sweeper[t].accounts :
           binding[b].user \in {Target[t], NoUser} \/ b \in overtaken[t]
  BY DEF LinkInv, LinksSound, Links!TypeOK, OwnersKnow
<1>2. overtaken[s] \subseteq overtaken'[s] /\ a \in Account
  BY <1>1, OnlyGrows, CallsTyped DEF Links!SweeperState
<1>3. CASE a \notin sweeper[s].accounts
  BY <1>1, <1>3, SweepersMove DEF SweeperMoves
<1>4. CASE a \in sweeper[s].accounts
  <2>1. CASE binding'[a] \in {binding[a], Links!Unbound}
    BY <1>1, <1>2, <1>4, <2>1, NothingFacts
  <2>2. ASSUME NEW r \in Saver, Binds(r) PROVE Goal
    <3>1. CASE a = saver[r].account
      BY <1>1, <1>4, <2>2, <3>1 DEF Binds
    <3>2. CASE a # saver[r].account
      BY <1>1, <1>2, <2>1, <2>2, <3>2 DEF Binds
    <3> QED
      BY <3>1, <3>2
  <2>3. (\E r \in Saver : Binds(r)) \/ binding'[a] \in {binding[a], Links!Unbound}
    BY <1>1, <1>2, ItemsMove DEF Unbinds, Drops, Sweeps
  <2> QED
    BY <2>1, <2>2, <2>3
<1> QED
  BY <1>3, <1>4

LEMMA LinkInvStep == LinkInv /\ [Links!Next]_(Links!vars) => LinkInv'
BY LinksSoundStep, LinksKnowStep, OwnersStep, PairsStep DEF LinkInv

LEMMA LinkInvariance == Links!Spec => []LinkInv
BY LinksInit, LinkInvStep, PTL DEF Links!Spec

-----------------------------------------------------------------------------
(* Type correctness of the bindings, and what is bound or named is bound   *)
(* or named to somebody.                                                   *)
THEOREM LinksTypeCorrect == Links!Spec => []LinksSound
<1>1. LinkInv => LinksSound
  BY DEF LinkInv
<1> QED
  BY <1>1, LinkInvariance, PTL

(* Whoever is bound can unbind by the id of the link, however Saves,       *)
(* Deletes and deletions of other users interleave, as long as no two      *)
(* Saves carry one id; and until the first DeleteUser nothing that a link  *)
(* id names is gone or another's (linked_accounts.go: Save, Delete).       *)
THEOREM PairsStayPairs == Links!Spec => []BindingsArePairs
<1>1. LinkInv => BindingsArePairs
  BY DEF LinkInv
<1> QED
  BY <1>1, LinkInvariance, PTL

(* A binding goes by a Delete of its own link id, or by the deletion of    *)
(* its own user, and not because an older link of the account is deleted   *)
(* late (linked_accounts.go: Delete's "#linkId = :id") or because the      *)
(* index still shows an earlier owner (ownedLinksForUser's second read);   *)
(* another user's deletion takes it only if it was bound between that      *)
(* read and the unconditional removal.                                     *)
THEOREM OnlyItsOwnDelete == Links!Spec => UnboundByItsOwnDelete
<1> DEFINE Goes(a) ==
      \/ \E d \in Deleter : /\ deleter[d].pc = "delete" /\ deleter'[d].pc = "done"
                            /\ deleter[d].id = binding[a].id
      \/ \E s \in Sweeper : /\ Links!Sweeps(s, a)
                            /\ Target[s] = binding[a].user \/ a \in overtaken[s]
<1>1. LinkInv /\ [Links!Next]_(Links!vars)
        => [\A a \in Account :
              binding[a] # Links!Unbound /\ binding'[a] = Links!Unbound
                => Goes(a)]_(Links!vars)
  <2> SUFFICES ASSUME LinkInv, [Links!Next]_(Links!vars), NEW a \in Account,
                      binding[a] # Links!Unbound, binding'[a] = Links!Unbound
               PROVE  Goes(a)
    OBVIOUS
  <2>1. LinksSound /\ OwnersKnow /\ binding \in [Account -> Links!Binding]
    BY DEF LinkInv, LinksSound, Links!TypeOK
  <2>2. \A r \in Saver : ~Binds(r)
    <3> SUFFICES ASSUME NEW r \in Saver, Binds(r) PROVE FALSE
      OBVIOUS
    <3>1. saver[r].id \in Link /\ NoLink \notin Link
      BY <2>1, NamesApart DEF Binds, LinksSound, SaverSound
    <3>2. binding'[a].id \in {binding[a].id, saver[r].id}
      BY <2>1 DEF Binds
    <3>3. binding'[a].id = NoLink /\ binding[a].id # NoLink
      BY <2>1, NothingFacts, BoundFacts DEF LinksSound
    <3> QED
      BY <3>1, <3>2, <3>3
  <2>3. \A x \in Link : ~Drops(x)
    BY DEF Drops
  <2>4. ASSUME NEW d \in Deleter, Unbinds(d) PROVE Goes(a)
    <3>1. a = deleter[d].account
      BY <2>1, <2>4 DEF Unbinds
    <3> QED
      BY <2>4, <3>1 DEF Unbinds
  <2>5. ASSUME NEW b \in Account, Sweeps(b) PROVE Goes(a)
    <3>1. a = b
      BY <2>1, <2>5 DEF Sweeps
    <3>2. PICK s \in Sweeper : Links!Sweeps(s, a)
      BY <2>5, <3>1 DEF Sweeps
    <3>3. binding[a].user # NoUser
      BY <2>1, BoundFacts DEF LinksSound
    <3>4. Target[s] = binding[a].user \/ a \in overtaken[s]
      BY <2>1, <3>2, <3>3 DEF OwnersKnow, Links!Sweeps
    <3> QED
      BY <3>2, <3>4
  <2>6. ~UNCHANGED <<binding, byID>>
    OBVIOUS
  <2> QED
    BY <2>1, <2>2, <2>3, <2>4, <2>5, <2>6, ItemsMove
<1>2. [][LinkInv /\ [Links!Next]_(Links!vars)]_(Links!vars)
        => Links!UnboundByItsOwnDelete
  BY <1>1, PTL DEF Links!UnboundByItsOwnDelete
<1>3. Links!Spec => [][LinkInv /\ [Links!Next]_(Links!vars)]_(Links!vars)
  BY LinkInvariance, PTL DEF Links!Spec
<1> QED
  BY <1>2, <1>3 DEF UnboundByItsOwnDelete
=============================================================================

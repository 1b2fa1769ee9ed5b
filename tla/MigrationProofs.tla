--------------------------- MODULE MigrationProofs ----------------------------
(***************************************************************************)
(* The invariants of Migration, for any persons, requests, passwords and   *)
(* listing of the pool, whichever directories the persons are in, and      *)
(* however often the import is run.                                        *)
(*                                                                         *)
(* Whether a password is acceptable changes under a request's feet, so     *)
(* each invariant says of every request what the steps it has still to     *)
(* take rely on.  A step of a request or of the import does to a row one   *)
(* of four things (Moves); what a request relies on survives each of them. *)
(***************************************************************************)
EXTENDS Migration, TLAPS

Ended == {"idle", "failed", "done", "gone"}
Answered == {"in", "refused"}

(* The rows.  An item that is not there holds nothing; the marker of the   *)
(* pool is only on rows that came from it and got no password since.       *)
RowsAreSound ==
  \A p \in Person :
    /\ row[p].id <= rows
    /\ ~Exists(p) => row[p] = NoRow /\ chosen[p] = NoPassword
    /\ row[p].marker = "here" => origin[p] = "here" /\ chosen[p] = NoPassword

(* What a request knows is not from the future, and its word is fit for    *)
(* the writes it has before it.                                            *)
Knows(r) ==
  /\ req[r].id <= rows
  /\ req[r].pc \in {"profile", "verify", "adopt", "reset"} => req[r].id # 0
  /\ req[r].dual => DualRead
  /\ req[r].pc \in {"source", "create"} => req[r].dual
  /\ req[r].pc \in Active /\ req[r].op # "login" => req[r].word # EmptyPassword
  /\ req[r].pc \in {"signup", "reset"} => req[r].op # "login"
  /\ req[r].pc = "adopt" => req[r].word # EmptyPassword

(* A login whose password was acceptable all along will not be refused.    *)
Entitled(r) ==
  req[r].op = "login" /\ hist[r].always =>
    /\ req[r].pc # "refused"
    /\ req[r].pc \in Active => Acceptable(row, req[r].who, req[r].word)
    /\ req[r].pc = "pointer" /\ ~req[r].dual => Exists(req[r].who)
    /\ req[r].pc = "profile" => row[req[r].who].id = req[r].id
    /\ req[r].pc \in {"source", "create", "verify"} =>
         PoolPassword[req[r].who] = req[r].word
    /\ req[r].pc = "verify" => Matches(r)

(* A login that is let in, or that the pool would let in, was entitled to  *)
(* it when it read the row.                                                *)
WasEntitled(r) ==
  /\ MayAsk(r) /\ PoolPassword[req[r].who] = req[r].word => hist[r].ever
  /\ req[r].pc \in {"adopt", "in"} => hist[r].ever

Hears(r) ==
  req[r].pc = "adopt" \/ MayAsk(r) =>
    \/ row[req[r].who].id # req[r].id
    \/ /\ origin[req[r].who] = "here"
       /\ chosen[req[r].who] # NoPassword => hist[r].late

Good(r) == Knows(r) /\ Entitled(r) /\ WasEntitled(r) /\ Hears(r)

(* Runs of which none had a failure have met every record of the pages     *)
(* behind them; the token is that of the page that is next.                *)
ImportKeepsUp ==
  /\ import.resume = import.page
  /\ import.pc = "complete" => ~import.failed
  /\ import.whole /\ ~import.failed =>
       /\ \A i \in 1..Len(Pages) :
            i < import.page \/ import.pc = "complete" =>
              \A j \in 1..Len(Pages[i]) : Pages[i][j] \in import.arrived
       /\ import.pc = "records" =>
            \A j \in 1..Len(Pages[import.page]) :
              j < import.at => Pages[import.page][j] \in import.arrived

IInv ==
  /\ TypeOK
  /\ RowsAreSound
  /\ \A r \in Request : Good(r)
  /\ ImportKeepsUp

-----------------------------------------------------------------------------
(* The effect of a step on the rows. *)
RowTypes ==
  /\ row \in [Person -> Row]
  /\ rows \in 0..MaxRows
  /\ chosen \in [Person -> Password \cup {NoPassword}]
  /\ origin \in [Person -> Marker]

Stays(p) == row'[p] = row[p] /\ chosen'[p] = chosen[p] /\ origin'[p] = origin[p]

Settles(p) ==
  /\ Exists(p) /\ row'[p].id = row[p].id
  /\ row'[p].hash # NoPassword /\ row'[p].marker = "none"
  /\ origin'[p] = origin[p]

Comes(p) ==
  /\ ~Exists(p) /\ row'[p].id = rows + 1 /\ rows' = rows + 1
  /\ row'[p].marker = "here" => origin'[p] = "here" /\ chosen'[p] = NoPassword

Goes(p) == Exists(p) /\ row'[p] = NoRow /\ chosen'[p] = NoPassword

Moves == 
  /\ RowTypes'
  /\ rows <= rows'
  /\ \A p \in Person : Stays(p) \/ Settles(p) \/ Comes(p) \/ Goes(p)

LEMMA QuietMoves ==
  ASSUME RowTypes, UNCHANGED <<row, rows, chosen, origin>>
  PROVE  Moves
BY DEF Moves, RowTypes, Stays

(* A row that is created: marked and without a password by dual-read and   *)
(* the import, unmarked and with the password chosen by a registration.    *)
LEMMA CreateMoves ==
  ASSUME MigrationAssumption, RowTypes, RowsAreSound, NEW p \in Person,
         NEW hash \in Password \cup {NoPassword}, NEW marker \in Marker,
         createUser(p, hash, marker),
         \/ marker = "here" /\ UNCHANGED chosen
         \/ marker = "none" /\ hash \in Password /\ chosen' = [chosen EXCEPT ![p] = hash]
  PROVE  /\ Moves
         /\ ~Exists(p) /\ row'[p] = NewRow(rows + 1, hash, marker)
         /\ origin'[p] = marker /\ chosen'[p] = IF marker = "none" THEN hash ELSE NoPassword
<1>1. /\ ~Exists(p) /\ rows < MaxRows /\ rows' = rows + 1
      /\ row' = [row EXCEPT ![p] = NewRow(rows + 1, hash, marker)]
      /\ origin' = [origin EXCEPT ![p] = marker]
  BY DEF createUser, Creatable
<1>2. NewRow(rows + 1, hash, marker) \in Row /\ rows' \in 0..MaxRows
  BY <1>1 DEF NewRow, Row, RowTypes, MigrationAssumption
<1>3. RowTypes'
  BY <1>1, <1>2 DEF RowTypes
<1>4. row'[p] = NewRow(rows + 1, hash, marker) /\ origin'[p] = marker
  BY <1>1 DEF RowTypes
<1>5. chosen[p] = NoPassword
  BY <1>1 DEF RowsAreSound
<1>6. chosen'[p] = IF marker = "none" THEN hash ELSE NoPassword
  BY <1>5 DEF RowTypes
<1>7. Comes(p)
  BY <1>1, <1>4, <1>6 DEF Comes, NewRow
<1>8. \A q \in Person \ {p} : Stays(q)
  BY <1>1 DEF RowTypes, Stays
<1>9. rows <= rows'
  BY <1>1 DEF RowTypes
<1> QED BY <1>1, <1>3, <1>4, <1>6, <1>7, <1>8, <1>9 DEF Moves

(* What a request does besides to the rows. *)
Stepped(r) ==
  /\ Moves
  /\ req' \in [Request -> RequestState]
  /\ \A s \in Request \ {r} : req'[s] = req[s]
  /\ UNCHANGED import
  /\ Good(r)'

LEMMA InitialRequest ==
  ASSUME MigrationAssumption
  PROVE  InitRequest \in RequestState
<1>1. (CHOOSE p \in Person : TRUE) \in Person
  BY DEF MigrationAssumption
<1> QED BY <1>1 DEF MigrationAssumption, InitRequest, RequestState, Nothing, Marker

LEMMA Becomes ==
  ASSUME MigrationAssumption, req \in [Request -> RequestState],
         NEW r \in Request, NEW state \in RequestState, Become(r, state)
  PROVE  /\ req' \in [Request -> RequestState]
         /\ \A s \in Request \ {r} : req'[s] = req[s]
         /\ req'[r].pc = state.pc
         /\ state.pc \in Active => req'[r] = state
         /\ state.pc \in Answered =>
              /\ req'[r].op = state.op /\ req'[r].who = state.who
              /\ req'[r].word = state.word
              /\ req'[r].id = 0 /\ ~req'[r].dual
         /\ state.pc \in Ended => req'[r].id = 0 /\ ~req'[r].dual
<1> DEFINE next == CASE state.pc \in Active -> state
                     [] state.pc \in {"in", "refused"} ->
                          [state EXCEPT !.dual = FALSE, !.id = 0, !.filed = Nothing]
                     [] OTHER -> [InitRequest EXCEPT !.pc = state.pc]
<1>1. state.pc \in Active \cup Answered \cup Ended
  BY DEF RequestState, Answered, Ended
<1>2. req' = [req EXCEPT ![r] = next]
  BY DEF Become
<1>3. CASE state.pc \in Active
  <2>1. state.pc \notin Answered /\ state.pc \notin Ended
    BY <1>3 DEF Active, Answered, Ended
  <2>2. next = state
    BY <1>3, <2>1 DEF Answered
  <2> HIDE DEF next
  <2> QED BY <1>2, <2>1, <2>2, <1>3
<1>4. CASE state.pc \in Answered
  <2>1. state.pc \notin Active /\ state.pc \notin Ended
    BY <1>4 DEF Active, Answered, Ended
  <2>2. next = [state EXCEPT !.dual = FALSE, !.id = 0, !.filed = Nothing]
    BY <1>4, <2>1 DEF Answered
  <2> HIDE DEF next
  <2>3. 0 \in 0..MaxRows /\ Nothing \in [id: 0..MaxRows, marker: Marker]
    BY DEF MigrationAssumption, Nothing, Marker
  <2>4. /\ next \in RequestState /\ next.pc = state.pc /\ next.op = state.op
        /\ next.who = state.who /\ next.word = state.word /\ next.id = 0 /\ next.dual = FALSE
    BY <2>2, <2>3 DEF RequestState
  <2> QED BY <1>2, <2>1, <2>4
<1>5. CASE state.pc \in Ended
  <2>1. state.pc \notin Active /\ state.pc \notin Answered
    BY <1>5 DEF Active, Answered, Ended
  <2>2. next = [InitRequest EXCEPT !.pc = state.pc]
    BY <2>1 DEF Answered
  <2> HIDE DEF next
  <2>3. InitRequest.id = 0 /\ InitRequest.dual = FALSE
    BY DEF InitRequest
  <2>4. /\ next \in RequestState /\ next.pc = state.pc /\ next.id = 0 /\ next.dual = FALSE
    BY <2>2, <2>3, InitialRequest DEF RequestState
  <2> QED BY <1>2, <2>1, <2>4
<1> QED BY <1>1, <1>3, <1>4, <1>5

-----------------------------------------------------------------------------
(* What a step records of a request that is under way.                     *)
Noted(r, p, w, spoiled) ==
  /\ hist'[r].always =>
       /\ hist[r].always /\ Acceptable(row', p, w) /\ r \notin spoiled
       /\ ~(row[p].id # 0 /\ row'[p].id = 0)
  /\ hist[r].ever \/ Acceptable(row, p, w) => hist'[r].ever
  /\ /\ req'[r].pc \in {"verify", "adopt"}
     /\ \/ hist[r].late
        \/ chosen'[p] # chosen[p] /\ req[r].pc \in {"verify", "adopt"}
     => hist'[r].late

LEMMA Observed ==
  ASSUME NEW spoiled, Observe(spoiled), hist \in [Request -> History]
  PROVE  /\ hist' \in [Request -> History]
         /\ \A r \in Request : req'[r].pc \notin Ended =>
              /\ req[r].pc \in Answered => hist'[r] = hist[r]
              /\ req[r].pc \notin Answered =>
                   Noted(r, req'[r].who, req'[r].word, spoiled)
<1> DEFINE next(s) ==
      IF req'[s].pc \in {"idle", "failed", "done", "gone"} THEN Untried
      ELSE IF req[s].pc \in {"in", "refused"} THEN hist[s] ELSE
      LET p == req'[s].who
          ok == Acceptable(row', p, req'[s].word) IN
      [always |-> /\ hist[s].always /\ ok /\ s \notin spoiled
                  /\ ~(row[p].id # 0 /\ row'[p].id = 0),
       ever |-> hist[s].ever \/ Acceptable(row, p, req'[s].word),
       late |-> /\ req'[s].pc \in {"verify", "adopt"}
                /\ hist[s].late \/ (chosen'[p] # chosen[p] /\ req[s].pc \in {"verify", "adopt"})]
<1>1. hist' = [s \in Request |-> next(s)]
  BY DEF Observe
<1>2. \A s \in Request : next(s) \in History
  <2> TAKE s \in Request
  <2>1. hist[s] \in History
    OBVIOUS
  <2>2. Untried \in History
    BY DEF Untried, History
  <2> QED BY <2>1, <2>2 DEF History
<1>3. hist' \in [Request -> History]
  <2> HIDE DEF next
  <2> QED BY <1>1, <1>2
<1>4. ASSUME NEW r \in Request, req'[r].pc \notin Ended
      PROVE  /\ req[r].pc \in Answered => hist'[r] = hist[r]
             /\ req[r].pc \notin Answered =>
                  Noted(r, req'[r].who, req'[r].word, spoiled)
  <2>1. hist'[r] = next(r)
    BY <1>1
  <2>2. req[r].pc \in Answered => hist'[r] = hist[r]
    BY <1>4, <2>1 DEF Ended, Answered
  <2>3. ASSUME req[r].pc \notin Answered
        PROVE  Noted(r, req'[r].who, req'[r].word, spoiled)
    <3> DEFINE p == req'[r].who
               w == req'[r].word
    <3>1. /\ hist'[r].always =
               (/\ hist[r].always /\ Acceptable(row', p, w) /\ r \notin spoiled
                /\ ~(row[p].id # 0 /\ row'[p].id = 0))
          /\ hist'[r].ever = (hist[r].ever \/ Acceptable(row, p, w))
          /\ hist'[r].late =
               (/\ req'[r].pc \in {"verify", "adopt"}
                /\ \/ hist[r].late
                   \/ chosen'[p] # chosen[p] /\ req[r].pc \in {"verify", "adopt"})
      BY <1>4, <2>1, <2>3 DEF Ended, Answered
    <3> HIDE DEF next, p, w
    <3>2. Noted(r, p, w, spoiled)
      BY <3>1, Zenon DEF Noted
    <3> QED BY <3>2 DEF p, w
  <2> QED BY <2>2, <2>3
<1> QED BY <1>3, <1>4

(* Whoever is at work on the rows, what a request that does not move       *)
(* relies on still holds.                                                  *)
LEMMA Bystander ==
  ASSUME MigrationAssumption, IInv, Moves, NEW spoiled, Observe(spoiled),
         NEW r \in Request, req'[r] = req[r]
  PROVE  Good(r)'
<1> DEFINE p == req[r].who
           w == req[r].word
<1>a. /\ req[r] \in RequestState /\ hist[r] \in History
      /\ row \in [Person -> Row] /\ rows \in Nat /\ rows' \in Nat
      /\ hist \in [Request -> History]
  BY DEF IInv, TypeOK, Moves, RowTypes, MigrationAssumption
<1>b. /\ p \in Person /\ req[r].id \in Nat /\ req[r].id <= rows
      /\ row[p].id \in Nat /\ row[p].id <= rows
      /\ Good(r)
  <2>1. Good(r) /\ req[r].id <= rows
    BY DEF IInv, Good, Knows
  <2>2. p \in Person /\ req[r].id \in Nat
    BY <1>a DEF RequestState
  <2>3. row[p].id \in Nat
    BY <1>a, <2>2 DEF Row
  <2> QED BY <2>1, <2>2, <2>3 DEF IInv, RowsAreSound
<1>c. Stays(p) \/ Settles(p) \/ Comes(p) \/ Goes(p)
  BY <1>b DEF Moves
<1>d. rows <= rows'
  BY DEF Moves
<1>e. /\ req[r].pc \in Answered => hist'[r] = hist[r]
      /\ req[r].pc \notin Answered \cup Ended => Noted(r, p, w, spoiled)
  <2>1. req'[r].pc \notin Ended =>
          /\ req[r].pc \in Answered => hist'[r] = hist[r]
          /\ req[r].pc \notin Answered => Noted(r, req'[r].who, req'[r].word, spoiled)
    BY <1>a, Observed
  <2> QED BY <2>1 DEF Answered, Ended
<1>1. Knows(r)'
  BY <1>a, <1>b, <1>d DEF Good, Knows
<1>2. Entitled(r)'
  <2>1. CASE req[r].pc \in Answered
    BY <2>1, <1>b, <1>e DEF Good, Entitled, Answered, Active
  <2>2. CASE req[r].pc \in Ended
    BY <2>2 DEF Entitled, Ended, Active
  <2>3. CASE req[r].pc \notin Answered \cup Ended
    <3> SUFFICES ASSUME req[r].op = "login", hist'[r].always
                 PROVE  /\ Acceptable(row', p, w)
                        /\ req[r].pc = "pointer" /\ ~req[r].dual => row'[p].id # 0
                        /\ req[r].pc = "profile" => row'[p].id = req[r].id
                        /\ req[r].pc \in {"source", "create", "verify"} =>
                             PoolPassword[p] = w
                        /\ req[r].pc = "verify" => Matches(r)
      BY <2>3 DEF Entitled, Exists, Matches, Answered
    <3>1. /\ hist[r].always /\ Acceptable(row', p, w)
          /\ row[p].id # 0 => row'[p].id # 0
      BY <2>3, <1>e DEF Noted
    <3>2. /\ req[r].pc = "pointer" /\ ~req[r].dual => row[p].id # 0
          /\ req[r].pc = "profile" => row[p].id = req[r].id /\ req[r].id # 0
          /\ req[r].pc \in {"source", "create", "verify"} => PoolPassword[p] = w
          /\ req[r].pc = "verify" => Matches(r)
      BY <3>1, <1>b DEF Good, Entitled, Knows, Exists
    <3>3. row[p].id # 0 => row'[p].id = row[p].id
      BY <3>1, <1>c DEF Stays, Settles, Comes, Goes, Exists, NoRow
    <3> QED BY <3>1, <3>2, <3>3
  <2> QED BY <2>1, <2>2, <2>3
<1>3. WasEntitled(r)'
  <2>1. CASE req[r].pc \in {"verify", "adopt"}
    <3>1. hist[r].ever => hist'[r].ever
      BY <2>1, <1>e DEF Noted, Answered, Ended
    <3> QED BY <2>1, <3>1, <1>b DEF Good, WasEntitled, MayAsk, Matches
  <2>2. CASE req[r].pc = "in"
    BY <2>2, <1>b, <1>e DEF Good, WasEntitled, MayAsk, Answered
  <2>3. CASE req[r].pc \notin {"verify", "adopt", "in"}
    BY <2>3 DEF WasEntitled, MayAsk
  <2> QED BY <2>1, <2>2, <2>3
<1>4. Hears(r)'
  <2> SUFFICES ASSUME req[r].pc = "adopt" \/ MayAsk(r), row'[p].id = req[r].id
               PROVE  /\ origin'[p] = "here"
                      /\ chosen'[p] # NoPassword => hist'[r].late
    BY DEF Hears, MayAsk, Matches
  <2>1. req[r].pc \in {"verify", "adopt"} /\ req[r].id # 0
    BY <1>b DEF MayAsk, Good, Knows
  <2>2. Noted(r, p, w, spoiled)
    BY <2>1, <1>e DEF Answered, Ended
  <2>3. \/ hist[r].late
        \/ chosen'[p] # chosen[p]
        => hist'[r].late
    BY <2>1, <2>2 DEF Noted
  <2>4. Stays(p) \/ Settles(p)
    BY <1>a, <1>b, <1>c, <2>1 DEF Comes, Goes, NoRow
  <2>5. row[p].id = req[r].id /\ origin'[p] = origin[p]
    BY <2>4 DEF Stays, Settles
  <2>6. origin[p] = "here" /\ (chosen[p] # NoPassword => hist[r].late)
    BY <2>5, <1>b DEF Good, Hears
  <2> QED BY <2>3, <2>5, <2>6
<1> QED BY <1>1, <1>2, <1>3, <1>4 DEF Good

-----------------------------------------------------------------------------
(* A request's own steps.  What they start from.                           *)
LEMMA Known ==
  ASSUME MigrationAssumption, IInv, NEW r \in Request
  PROVE  /\ req \in [Request -> RequestState] /\ req[r] \in RequestState
         /\ req[r].who \in Person /\ req[r].id \in 0..MaxRows
         /\ req[r].word \in Password \cup {EmptyPassword}
         /\ req[r].op \in {"login", "register", "forgot"}
         /\ row[req[r].who] \in Row
         /\ RowTypes /\ RowsAreSound /\ rows \in Nat
         /\ hist \in [Request -> History] /\ Good(r)
<1>1. TypeOK /\ RowsAreSound /\ Good(r)
  BY DEF IInv
<1>2. /\ req \in [Request -> RequestState] /\ req[r] \in RequestState
      /\ hist \in [Request -> History] /\ RowTypes
  BY <1>1 DEF TypeOK, RowTypes
<1>3. /\ req[r].who \in Person /\ req[r].id \in 0..MaxRows
      /\ req[r].word \in Password \cup {EmptyPassword}
      /\ req[r].op \in {"login", "register", "forgot"}
  BY <1>2 DEF RequestState
<1>4. row[req[r].who] \in Row /\ rows \in Nat
  BY <1>2, <1>3 DEF RowTypes, MigrationAssumption
<1> QED BY <1>1, <1>2, <1>3, <1>4

LEMMA NotedOf ==
  ASSUME MigrationAssumption, IInv, NEW r \in Request, NEW spoiled, Observe(spoiled),
         req[r].pc \notin Answered, req'[r].pc \notin Ended
  PROVE  Noted(r, req'[r].who, req'[r].word, spoiled)
<1>1. hist \in [Request -> History]
  BY Known
<1> QED BY <1>1, Observed

(* The three ways in which a request is over.                              *)
LEMMA EndsWell ==
  ASSUME NEW r \in Request, rows' \in Nat,
         req'[r].pc \in Ended, req'[r].id = 0, ~req'[r].dual
  PROVE  Good(r)'
BY DEF Good, Knows, Entitled, WasEntitled, Hears, MayAsk, Ended, Active

LEMMA AnsweredWell ==
  ASSUME NEW r \in Request, rows' \in Nat,
         req'[r].pc \in Answered, req'[r].id = 0, ~req'[r].dual,
         req'[r].pc = "in" => hist'[r].ever,
         req'[r].pc = "refused" /\ req'[r].op = "login" => ~hist'[r].always
  PROVE  Good(r)'
BY DEF Good, Knows, Entitled, WasEntitled, Hears, MayAsk, Answered, Active

LEMMA Ends ==
  ASSUME MigrationAssumption, IInv, NEW r \in Request, NEW state \in RequestState,
         Become(r, state), state.pc \in Ended, Moves, UNCHANGED import
  PROVE  Stepped(r)
<1>1. /\ req' \in [Request -> RequestState]
      /\ \A s \in Request \ {r} : req'[s] = req[s]
      /\ req'[r].pc \in Ended /\ req'[r].id = 0 /\ ~req'[r].dual
  BY Known, Becomes
<1>2. rows' \in Nat
  BY DEF Moves, RowTypes, MigrationAssumption
<1> QED BY <1>1, <1>2, EndsWell DEF Stepped

LEMMA Answers ==
  ASSUME MigrationAssumption, IInv, NEW r \in Request, NEW state \in RequestState,
         Become(r, state), state.pc \in Answered, Moves, UNCHANGED import,
         state.pc = "in" => hist'[r].ever,
         state.pc = "refused" /\ state.op = "login" => ~hist'[r].always
  PROVE  Stepped(r)
<1>1. /\ req' \in [Request -> RequestState]
      /\ \A s \in Request \ {r} : req'[s] = req[s]
      /\ req'[r].pc = state.pc /\ req'[r].op = state.op
      /\ req'[r].id = 0 /\ ~req'[r].dual
  BY Known, Becomes
<1>2. rows' \in Nat
  BY DEF Moves, RowTypes, MigrationAssumption
<1> QED BY <1>1, <1>2, AnsweredWell DEF Stepped

LEMMA Continues ==
  ASSUME MigrationAssumption, IInv, NEW r \in Request, NEW state \in RequestState,
         Become(r, state), state.pc \in Active, Moves, UNCHANGED import,
         req'[r] = state => Good(r)'
  PROVE  Stepped(r)
BY Known, Becomes DEF Stepped

LEMMA StandsStill ==
  ASSUME MigrationAssumption, IInv, Quiet
  PROVE  Moves /\ UNCHANGED import
<1>1. RowTypes
  BY DEF IInv, TypeOK, RowTypes
<1> QED BY <1>1, QuietMoves DEF Quiet

LEMMA Starts ==
  ASSUME MigrationAssumption, IInv, NEW r \in Request, Observe({}),
         NEW op \in {"login", "register", "forgot"}, NEW p \in Person,
         NEW w \in Password \cup {EmptyPassword}, Start(r, op, p, w)
  PROVE  Stepped(r)
<1> DEFINE state == [pc |-> "pointer", op |-> op, who |-> p, word |-> w,
                     dual |-> DualRead, id |-> 0, filed |-> Nothing]
<1>1. req[r].pc = "idle" /\ Become(r, state) /\ (w = EmptyPassword => op = "login")
  BY DEF Start
<1>2. Moves /\ UNCHANGED import /\ row' = row
  BY StandsStill DEF Start, Quiet
<1>3. state \in RequestState
  BY DEF RequestState, Active, MigrationAssumption, Nothing, Marker
<1>4. state.pc \in Active
  BY DEF Active
<1>5. ASSUME req'[r] = state PROVE Good(r)'
  <2>1. Noted(r, p, w, {})
    <3>1. req'[r].pc = "pointer" /\ req'[r].who = p /\ req'[r].word = w
      BY <1>5
    <3>2. req[r].pc \notin Answered /\ req'[r].pc \notin Ended
      BY <1>1, <3>1 DEF Answered, Ended
    <3>3. Noted(r, req'[r].who, req'[r].word, {})
      BY <3>2, NotedOf
    <3> QED BY <3>1, <3>3
  <2>2. hist'[r].always => Acceptable(row', p, w)
    BY <2>1 DEF Noted
  <2>3. Knows(r)'
    BY <1>1, <1>2, <1>5, Known DEF Knows, Moves, RowTypes
  <2>4. Entitled(r)'
    BY <1>5, <2>2 DEF Entitled, Acceptable, Exists
  <2>5. WasEntitled(r)' /\ Hears(r)'
    BY <1>5 DEF WasEntitled, Hears, MayAsk
  <2> QED BY <2>3, <2>4, <2>5 DEF Good
<1> HIDE DEF state
<1> QED BY <1>1, <1>2, <1>3, <1>4, <1>5, Continues

(* What a request that is under way has recorded of a step of its own,     *)
(* unless that ended it for good.                                          *)
LEMMA Records ==
  ASSUME MigrationAssumption, IInv, NEW r \in Request, NEW spoiled, Observe(spoiled),
         req[r].pc \in Active, NEW state \in RequestState, Become(r, state),
         state.pc \notin Ended
  PROVE  Noted(r, state.who, state.word, spoiled)
<1>1. req'[r].pc = state.pc /\ req'[r].who = state.who /\ req'[r].word = state.word
  <2>1. state.pc \in Active \cup Answered
    BY DEF RequestState, Answered, Ended
  <2> QED BY <2>1, Known, Becomes
<1>2. req[r].pc \notin Answered
  BY DEF Active, Answered
<1>3. Noted(r, req'[r].who, req'[r].word, spoiled)
  BY <1>1, <1>2, NotedOf
<1> QED BY <1>1, <1>3

(* A login whose password was acceptable when its step began, and so far,  *)
(* is entitled to more than a refusal.                                     *)
Deserves(r) ==
  req[r].op = "login" /\ hist[r].always /\ Acceptable(row, req[r].who, req[r].word)

(* A miss refuses a login, whose password was therefore not acceptable all *)
(* along; a registration goes on to create the row.                        *)
LEMMA MissesAnyway ==
  ASSUME MigrationAssumption, IInv, NEW r \in Request, NEW spoiled, Observe(spoiled),
         Miss(r), Moves, UNCHANGED import, req[r].pc \in Active,
         r \in spoiled \/ (row' = row /\ ~Deserves(r))
  PROVE  Stepped(r)
<1> DEFINE state == [req[r] EXCEPT !.dual = FALSE,
                       !.pc = IF req[r].op = "register" THEN "signup" ELSE "refused"]
<1>1. Become(r, state)
  BY DEF Miss
<1>2. /\ state \in RequestState /\ state.dual = FALSE
      /\ state.pc = IF req[r].op = "register" THEN "signup" ELSE "refused"
      /\ state.op = req[r].op /\ state.id = req[r].id
      /\ state.who = req[r].who /\ state.word = req[r].word
  BY Known DEF RequestState, Active
<1> HIDE DEF state
<1>3. CASE req[r].op = "register"
  <2>1. state.pc \in Active
    BY <1>2, <1>3 DEF Active
  <2>2. ASSUME req'[r] = state PROVE Good(r)'
    <3>1. Knows(r)'
      <4>1. req[r].id <= rows'
        <5>1. req[r].id <= rows /\ rows <= rows' /\ rows' \in Nat
          BY Known DEF Good, Knows, Moves, RowTypes
        <5> QED BY <5>1, Known
      <4>2. req[r].word # EmptyPassword
        BY <1>3, Known DEF Good, Knows
      <4> QED BY <1>2, <1>3, <2>2, <4>1, <4>2 DEF Knows
    <3>2. Entitled(r)' /\ WasEntitled(r)' /\ Hears(r)'
      BY <1>2, <1>3, <2>2 DEF Entitled, WasEntitled, Hears, MayAsk
    <3> QED BY <3>1, <3>2 DEF Good
  <2> QED BY <1>1, <1>2, <2>1, <2>2, Continues
<1>4. CASE req[r].op # "register"
  <2>1. state.pc = "refused" /\ state.pc \in Answered /\ state.pc \notin Ended
    BY <1>2, <1>4 DEF Answered, Ended
  <2>2. Noted(r, req[r].who, req[r].word, spoiled)
    BY <1>1, <1>2, <2>1, Records
  <2>3. state.op = "login" => ~hist'[r].always
    BY <1>2, <2>2 DEF Noted, Deserves
  <2> QED BY <1>1, <1>2, <2>1, <2>3, Answers
<1> QED BY <1>3, <1>4

LEMMA Misses ==
  ASSUME MigrationAssumption, IInv, NEW r \in Request, NEW spoiled, Observe(spoiled),
         Miss(r), Quiet, req[r].pc \in Active, Deserves(r) => r \in spoiled
  PROVE  Stepped(r)
<1>1. Moves /\ UNCHANGED import /\ row' = row
  BY StandsStill DEF Quiet
<1> QED BY <1>1, MissesAnyway

LEMMA LocallyMisses ==
  ASSUME MigrationAssumption, IInv, NEW r \in Request, Observe({}),
         LocalMiss(r), Quiet, req[r].pc \in Active,
         Deserves(r) => req[r].dual /\ PoolPassword[req[r].who] = req[r].word
  PROVE  Stepped(r)
<1>1. CASE ~req[r].dual
  <2>1. Miss(r)
    BY <1>1 DEF LocalMiss
  <2> QED BY <1>1, <2>1, Misses
<1>2. CASE req[r].dual
  <2> DEFINE state == [req[r] EXCEPT !.pc = "source"]
  <2>1. Become(r, state)
    BY <1>2 DEF LocalMiss
  <2>2. Moves /\ UNCHANGED import /\ row' = row
    BY StandsStill DEF Quiet
  <2>3. /\ state \in RequestState /\ state.pc = "source"
        /\ state.op = req[r].op /\ state.id = req[r].id /\ state.dual = req[r].dual
        /\ state.who = req[r].who /\ state.word = req[r].word
    BY Known DEF RequestState, Active
  <2> HIDE DEF state
  <2>4. state.pc \in Active /\ state.pc \notin Ended
    BY <2>3 DEF Active, Ended
  <2>5. Noted(r, req[r].who, req[r].word, {})
    BY <2>1, <2>3, <2>4, Records
  <2>6. ASSUME req'[r] = state PROVE Good(r)'
    <3>1. Knows(r)'
      <4>1. req[r].id <= rows'
        <5>1. req[r].id <= rows /\ rows <= rows' /\ rows' \in Nat
          BY <2>2, Known DEF Good, Knows, Moves, RowTypes
        <5> QED BY <5>1, Known
      <4>2. /\ req[r].op # "login" => req[r].word # EmptyPassword
            /\ DualRead
        BY <1>2, Known DEF Good, Knows
      <4> QED BY <1>2, <2>3, <2>6, <4>1, <4>2 DEF Knows
    <3>2. Entitled(r)'
      BY <2>2, <2>3, <2>5, <2>6 DEF Entitled, Noted, Deserves
    <3>3. WasEntitled(r)' /\ Hears(r)'
      BY <2>3, <2>6 DEF WasEntitled, Hears, MayAsk
    <3> QED BY <3>1, <3>2, <3>3 DEF Good
  <2> QED BY <2>1, <2>2, <2>3, <2>4, <2>6, Continues
<1> QED BY <1>1, <1>2

(* A hit: found is what the row holds after the step.                      *)
LEMMA Hits ==
  ASSUME MigrationAssumption, IInv, NEW r \in Request, Observe({}),
         req[r].pc \in Active, Moves, UNCHANGED import,
         NEW found \in Row, found = row'[req[r].who],
         Hit(r, found, [id |-> found.id, marker |-> found.marker]),
         found.id # 0, found.id <= rows',
         found.marker = "here" =>
           origin'[req[r].who] = "here" /\ chosen'[req[r].who] = NoPassword,
         \/ found.hash = req[r].word
         \/ /\ found.marker = "here" /\ PoolPassword[req[r].who] = req[r].word
            /\ req[r].word # EmptyPassword
         => Acceptable(row, req[r].who, req[r].word)
  PROVE  Stepped(r)
<1> DEFINE pc == CASE req[r].op = "register" -> "refused"
                   [] req[r].op = "forgot"   -> "reset"
                   [] req[r].op = "login" /\ found.hash = req[r].word -> "in"
                   [] OTHER -> "verify"
           filed == [id |-> found.id, marker |-> found.marker]
           state == [req[r] EXCEPT !.dual = FALSE, !.id = found.id, !.filed = filed,
                                   !.pc = pc]
           p == req[r].who
           w == req[r].word
<1>1. Become(r, state)
  BY DEF Hit
<1>2. \/ pc = "refused" /\ req[r].op # "login"
      \/ pc = "reset" /\ req[r].op # "login"
      \/ pc = "in" /\ found.hash = w
      \/ pc = "verify" /\ found.hash # w
  BY Known
<1>3. /\ state \in RequestState /\ state.pc = pc /\ state.op = req[r].op
      /\ state.who = p /\ state.word = w
      /\ state.id = found.id /\ state.dual = FALSE /\ state.filed = filed
  <2>1. found.id \in 0..MaxRows /\ filed \in [id: 0..MaxRows, marker: Marker]
    BY DEF Row
  <2>2. pc \in {"refused", "reset", "in", "verify"}
    BY <1>2
  <2> HIDE DEF filed, pc
  <2>3. req[r] \in RequestState
    BY Known
  <2>4. state \in RequestState
    BY <2>1, <2>2, <2>3 DEF RequestState, Active
  <2>5. /\ state.pc = pc /\ state.op = req[r].op /\ state.who = p /\ state.word = w
        /\ state.id = found.id /\ state.dual = FALSE /\ state.filed = filed
    BY <2>3 DEF RequestState
  <2> QED BY <2>4, <2>5
<1>4. filed.id = found.id /\ filed.marker = found.marker
  OBVIOUS
<1> HIDE DEF state, filed, pc
<1>5. state.pc \notin Ended
  BY <1>2, <1>3 DEF Ended
<1>6. Noted(r, p, w, {})
  BY <1>1, <1>3, <1>5, Records
<1>7. CASE pc \in {"refused", "in"}
  <2>1. pc = "in" => hist'[r].ever
    BY <1>2, <1>6 DEF Noted
  <2>2. pc = "refused" => req[r].op # "login"
    BY <1>2
  <2>3. state.pc \in Answered
    BY <1>3, <1>7 DEF Answered
  <2> QED BY <1>1, <1>3, <2>1, <2>2, <2>3, Answers
<1>8. CASE pc \in {"reset", "verify"}
  <2>1. state.pc \in Active
    BY <1>3, <1>8 DEF Active
  <2>2. ASSUME req'[r] = state PROVE Good(r)'
    <3>1. Knows(r)'
      <4>1. req[r].op # "login" => w # EmptyPassword
        BY Known DEF Good, Knows
      <4>2. pc = "reset" => req[r].op # "login"
        BY <1>2
      <4> QED BY <1>3, <1>8, <2>2, <4>1, <4>2 DEF Knows
    <3>2. Entitled(r)'
      <4> SUFFICES ASSUME req[r].op = "login", hist'[r].always
                   PROVE  /\ Acceptable(row', p, w)
                          /\ pc = "verify" => PoolPassword[p] = w /\ found.marker = "here"
        BY <1>3, <1>4, <1>8, <2>2 DEF Entitled, Matches
      <4>1. Acceptable(row', p, w)
        BY <1>6 DEF Noted
      <4>2. pc = "verify" => found.hash # w
        BY <1>2
      <4> QED BY <4>1, <4>2 DEF Acceptable
    <3>3. WasEntitled(r)'
      <4>1. found.marker = "here" /\ w # EmptyPassword /\ PoolPassword[p] = w
              => hist'[r].ever
        BY <1>6 DEF Noted
      <4> QED BY <1>3, <1>4, <1>8, <2>2, <4>1 DEF WasEntitled, MayAsk, Matches
    <3>4. Hears(r)'
      BY <1>3, <1>4, <1>8, <2>2 DEF Hears, MayAsk, Matches
    <3> QED BY <3>1, <3>2, <3>3, <3>4 DEF Good
  <2> QED BY <1>1, <1>3, <2>1, <2>2, Continues
<1> QED BY <1>2, <1>7, <1>8

LEMMA ReadsPointer ==
  ASSUME MigrationAssumption, IInv, NEW r \in Request, Observe({}), ReadPointer(r)
  PROVE  Stepped(r)
<1> DEFINE p == req[r].who
           w == req[r].word
<1>1. req[r].pc = "pointer" /\ req[r].pc \in Active /\ Quiet
  BY DEF ReadPointer, Active
<1>2. CASE ~Exists(p)
  <2>1. LocalMiss(r)
    BY <1>2 DEF ReadPointer
  <2>2. Deserves(r) => req[r].dual /\ PoolPassword[p] = w
    BY <1>1, <1>2, Known DEF Good, Entitled, Deserves, Acceptable, Exists
  <2> QED BY <1>1, <2>1, <2>2, LocallyMisses
<1>3. CASE Exists(p)
  <2> DEFINE state == [req[r] EXCEPT !.pc = "profile", !.id = row[p].id]
  <2>1. Become(r, state)
    BY <1>3 DEF ReadPointer
  <2>2. Moves /\ UNCHANGED import /\ row' = row
    BY <1>1, StandsStill DEF Quiet
  <2>3. req[r] \in RequestState /\ row[p].id \in 0..MaxRows
    BY Known DEF Row
  <2>4. /\ state \in RequestState /\ state.pc = "profile"
        /\ state.op = req[r].op /\ state.id = row[p].id /\ state.dual = req[r].dual
        /\ state.who = p /\ state.word = w
    BY <2>3 DEF RequestState, Active
  <2> HIDE DEF state
  <2>5. state.pc \in Active /\ state.pc \notin Ended
    BY <2>4 DEF Active, Ended
  <2>6. Noted(r, p, w, {})
    BY <1>1, <2>1, <2>4, <2>5, Records
  <2>7. ASSUME req'[r] = state PROVE Good(r)'
    <3>1. Knows(r)'
      <4>1. row[p].id <= rows' /\ row[p].id # 0
        <5>1. row[p].id <= rows /\ rows <= rows' /\ rows' \in Nat
          BY <2>2, Known DEF RowsAreSound, Moves, RowTypes
        <5> QED BY <1>3, <2>3, <5>1, Known DEF Exists
      <4>2. /\ req[r].op # "login" => w # EmptyPassword
            /\ req[r].dual => DualRead
        BY <1>1, Known DEF Good, Knows
      <4> QED BY <2>4, <2>7, <4>1, <4>2 DEF Knows
    <3>2. Entitled(r)'
      BY <2>2, <2>4, <2>6, <2>7 DEF Entitled, Noted
    <3>3. WasEntitled(r)' /\ Hears(r)'
      BY <2>4, <2>7 DEF WasEntitled, Hears, MayAsk
    <3> QED BY <3>1, <3>2, <3>3 DEF Good
  <2> QED BY <2>1, <2>2, <2>4, <2>5, <2>7, Continues
<1> QED BY <1>2, <1>3

LEMMA ReadsProfile ==
  ASSUME MigrationAssumption, IInv, NEW r \in Request, Observe({}), ReadProfile(r)
  PROVE  Stepped(r)
<1> DEFINE p == req[r].who
           w == req[r].word
           found == row[p]
<1>1. req[r].pc = "profile" /\ req[r].pc \in Active /\ Quiet
  BY DEF ReadProfile, Active
<1>2. /\ Moves /\ UNCHANGED import
      /\ row' = row /\ origin' = origin /\ chosen' = chosen /\ rows' = rows
  BY <1>1, StandsStill DEF Quiet
<1>3. req[r].id # 0 /\ (Deserves(r) => found.id = req[r].id)
  BY <1>1, Known DEF Good, Knows, Entitled, Deserves
<1>4. CASE found.id = req[r].id
  <2>1. Hit(r, found, [id |-> found.id, marker |-> found.marker])
    BY <1>4 DEF ReadProfile
  <2>2. /\ found \in Row /\ found.hash \in Password \cup {NoPassword}
        /\ found.id <= rows /\ found.id # 0
        /\ found.marker = "here" => origin[p] = "here" /\ chosen[p] = NoPassword
    BY <1>3, <1>4, Known DEF RowsAreSound, Row
  <2>3. \/ found.hash = w
        \/ found.marker = "here" /\ PoolPassword[p] = w /\ w # EmptyPassword
        => Acceptable(row, p, w)
    <3>1. found.hash = w => w # EmptyPassword
      BY <2>2, MigrationAssumption DEF MigrationAssumption
    <3> QED BY <2>2, <3>1 DEF Acceptable
  <2> QED BY <1>1, <1>2, <2>1, <2>2, <2>3, Hits
<1>5. CASE found.id # req[r].id
  <2>1. LocalMiss(r)
    BY <1>5 DEF ReadProfile
  <2> QED BY <1>1, <1>3, <1>5, <2>1, LocallyMisses
<1> QED BY <1>4, <1>5

LEMMA GetsUser ==
  ASSUME MigrationAssumption, IInv, NEW r \in Request, Observe({}), GetUser(r)
  PROVE  Stepped(r)
<1> DEFINE p == req[r].who
           w == req[r].word
<1>1. req[r].pc = "source" /\ req[r].pc \in Active /\ Quiet
  BY DEF GetUser, Active
<1>2. /\ req[r].dual /\ DualRead
      /\ req[r].op = "login" /\ hist[r].always => PoolPassword[p] = w
  BY <1>1, Known DEF Good, Knows, Entitled
<1>3. CASE ~InPool(p)
  <2>1. Miss(r)
    BY <1>3 DEF GetUser
  <2>2. ~Deserves(r)
    BY <1>2, <1>3, Known, MigrationAssumption
       DEF Deserves, InPool, Acceptable, MigrationAssumption
  <2> QED BY <1>1, <2>1, <2>2, Misses
<1>4. CASE InPool(p)
  <2> DEFINE state == [req[r] EXCEPT !.pc = "create"]
  <2>1. Become(r, state)
    BY <1>4 DEF GetUser
  <2>2. Moves /\ UNCHANGED import /\ row' = row
    BY <1>1, StandsStill DEF Quiet
  <2>3. req[r] \in RequestState
    BY Known
  <2>4. /\ state \in RequestState /\ state.pc = "create"
        /\ state.op = req[r].op /\ state.id = req[r].id /\ state.dual = req[r].dual
        /\ state.who = p /\ state.word = w
    BY <2>3 DEF RequestState, Active
  <2> HIDE DEF state
  <2>5. state.pc \in Active /\ state.pc \notin Ended
    BY <2>4 DEF Active, Ended
  <2>6. Noted(r, p, w, {})
    BY <1>1, <2>1, <2>4, <2>5, Records
  <2>7. ASSUME req'[r] = state PROVE Good(r)'
    <3>1. Knows(r)'
      <4>1. req[r].id <= rows'
        <5>1. req[r].id <= rows /\ rows <= rows' /\ rows' \in Nat
          BY <2>2, Known DEF Good, Knows, Moves, RowTypes
        <5> QED BY <5>1, Known
      <4>2. req[r].op # "login" => w # EmptyPassword
        BY <1>1, Known DEF Good, Knows
      <4> QED BY <1>2, <2>4, <2>7, <4>1, <4>2 DEF Knows
    <3>2. Entitled(r)'
      BY <1>2, <2>2, <2>4, <2>6, <2>7 DEF Entitled, Noted
    <3>3. WasEntitled(r)' /\ Hears(r)'
      BY <2>4, <2>7 DEF WasEntitled, Hears, MayAsk
    <3> QED BY <3>1, <3>2, <3>3 DEF Good
  <2> QED BY <2>1, <2>2, <2>4, <2>5, <2>7, Continues
<1> QED BY <1>3, <1>4

LEMMA SourceDoesNotAnswer ==
  ASSUME MigrationAssumption, IInv, NEW r \in Request, Observe({r}),
         SourceUnavailable(r)
  PROVE  Stepped(r)
BY Misses DEF SourceUnavailable, Active

(* What the three writes of a request do to the rows.                      *)
LEMMA ProvisionMoves ==
  ASSUME MigrationAssumption, IInv, NEW r \in Request, Provisioned(r)
  PROVE  /\ Moves /\ UNCHANGED import
         /\ ~Exists(req[r].who)
         /\ row'[req[r].who] = NewRow(rows + 1, NoPassword, "here")
         /\ origin'[req[r].who] = "here" /\ chosen'[req[r].who] = NoPassword
BY Known, CreateMoves DEF Provisioned, Marker

LEMMA SignUpMoves ==
  ASSUME MigrationAssumption, IInv, NEW r \in Request, req[r].pc = "signup", SignedUp(r)
  PROVE  Moves /\ UNCHANGED import
<1>1. req[r].word \in Password
  BY Known DEF Good, Knows, Active
<1> QED BY <1>1, Known, CreateMoves DEF SignedUp, Marker

LEMMA PasswordMoves ==
  ASSUME MigrationAssumption, IInv, NEW r \in Request,
         req[r].pc \in {"adopt", "reset"}, PasswordSet(r)
  PROVE  Moves /\ UNCHANGED import
<1> DEFINE p == req[r].who
           w == req[r].word
<1>1. /\ row[p].id = req[r].id /\ row' = [row EXCEPT ![p] = Settled(row[p], w)]
      /\ \/ chosen' = chosen
         \/ chosen' = [chosen EXCEPT ![p] = w]
      /\ UNCHANGED <<rows, import, origin>>
  BY DEF PasswordSet
<1>2. req[r].id # 0 /\ w \in Password
  BY Known DEF Good, Knows, Active
<1>3. /\ Settled(row[p], w) \in Row /\ Settled(row[p], w).id = row[p].id
      /\ Settled(row[p], w).hash = w /\ Settled(row[p], w).marker = "none"
  BY <1>2, Known DEF Settled, Row, Marker
<1>4. RowTypes /\ p \in Person
  BY Known
<1>5. RowTypes'
  BY <1>1, <1>2, <1>3, <1>4 DEF RowTypes
<1>6. Settles(p)
  BY <1>1, <1>2, <1>3, <1>4, MigrationAssumption
     DEF RowTypes, Settles, Exists, MigrationAssumption
<1>7. \A q \in Person \ {p} : Stays(q)
  BY <1>1, <1>4 DEF RowTypes, Stays
<1>8. rows <= rows'
  BY <1>1, Known
<1> QED BY <1>1, <1>5, <1>6, <1>7, <1>8 DEF Moves

(* Marked, and found as it was created; or read back from its pointer.     *)
LEMMA CreatesMigratedUser ==
  ASSUME MigrationAssumption, IInv, NEW r \in Request, Observe({}),
         CreateMigratedUser(r)
  PROVE  Stepped(r)
<1> DEFINE p == req[r].who
           w == req[r].word
<1>1. req[r].pc = "create" /\ req[r].pc \in Active
  BY DEF CreateMigratedUser, Active
<1>2. /\ DualRead
      /\ req[r].op = "login" /\ hist[r].always => PoolPassword[p] = w
  BY <1>1, Known DEF Good, Knows, Entitled
<1>3. CASE Provisioned(r) /\ Hit(r, row'[p], Filed(r, row'[p]))
  <2>1. /\ Moves /\ UNCHANGED import
        /\ ~Exists(p) /\ row'[p] = NewRow(rows + 1, NoPassword, "here")
        /\ origin'[p] = "here" /\ chosen'[p] = NoPassword
    BY <1>3, ProvisionMoves
  <2>2. /\ row'[p].id = rows + 1 /\ row'[p].marker = "here"
        /\ row'[p].hash = NoPassword
    BY <2>1 DEF NewRow
  <2>3. row' \in [Person -> Row] /\ rows' = rows + 1
    BY <1>3, <2>1 DEF Moves, RowTypes, Provisioned, createUser
  <2>4. row'[p] \in Row /\ row'[p].id # 0 /\ row'[p].id <= rows'
    BY <2>2, <2>3, Known
  <2>5. w # NoPassword
    BY Known, MigrationAssumption DEF MigrationAssumption
  <2>6. Hit(r, row'[p], [id |-> row'[p].id, marker |-> row'[p].marker])
    BY <1>3 DEF Filed
  <2>7. w # EmptyPassword /\ PoolPassword[p] = w => Acceptable(row, p, w)
    BY <1>2, <2>1 DEF Acceptable, Exists
  <2> QED BY <1>1, <1>3, <2>1, <2>2, <2>4, <2>5, <2>6, <2>7, Hits
<1>4. CASE /\ Exists(p)
           /\ Become(r, [req[r] EXCEPT !.pc = "pointer", !.dual = FALSE])
           /\ Quiet
  <2> DEFINE state == [req[r] EXCEPT !.pc = "pointer", !.dual = FALSE]
  <2>1. Become(r, state)
    BY <1>4
  <2>2. Moves /\ UNCHANGED import /\ row' = row
    BY <1>4, StandsStill DEF Quiet
  <2>3. req[r] \in RequestState
    BY Known
  <2>4. /\ state \in RequestState /\ state.pc = "pointer"
        /\ state.op = req[r].op /\ state.id = req[r].id /\ state.dual = FALSE
        /\ state.who = p /\ state.word = w
    BY <2>3 DEF RequestState, Active
  <2> HIDE DEF state
  <2>5. state.pc \in Active /\ state.pc \notin Ended
    BY <2>4 DEF Active, Ended
  <2>6. Noted(r, p, w, {})
    BY <1>1, <2>1, <2>4, <2>5, Records
  <2>7. ASSUME req'[r] = state PROVE Good(r)'
    <3>1. Knows(r)'
      <4>1. req[r].id <= rows'
        <5>1. req[r].id <= rows /\ rows <= rows' /\ rows' \in Nat
          BY <2>2, Known DEF Good, Knows, Moves, RowTypes
        <5> QED BY <5>1, Known
      <4>2. req[r].op # "login" => w # EmptyPassword
        BY <1>1, Known DEF Good, Knows
      <4> QED BY <2>4, <2>7, <4>1, <4>2 DEF Knows
    <3>2. Entitled(r)'
      BY <1>4, <2>2, <2>4, <2>6, <2>7 DEF Entitled, Noted, Exists
    <3>3. WasEntitled(r)' /\ Hears(r)'
      BY <2>4, <2>7 DEF WasEntitled, Hears, MayAsk
    <3> QED BY <3>1, <3>2, <3>3 DEF Good
  <2> QED BY <2>1, <2>2, <2>4, <2>5, <2>7, Continues
<1> QED BY <1>3, <1>4 DEF CreateMigratedUser

(* The verifier.  A refusal is not for those who deserve to come in, and   *)
(* what the pool accepted the request was entitled to.                     *)
LEMMA Takes ==
  ASSUME MigrationAssumption, IInv, NEW r \in Request, NEW spoiled, Observe(spoiled),
         NEW pc \in {"refused", "failed", "adopt"}, Taken(r, pc), Quiet,
         req[r].pc = "verify",
         pc = "refused" /\ Deserves(r) => r \in spoiled,
         pc = "adopt" => MayAsk(r) /\ PoolPassword[req[r].who] = req[r].word
  PROVE  Stepped(r)
<1> DEFINE p == req[r].who
           w == req[r].word
           state == [req[r] EXCEPT !.pc = pc, !.filed = Nothing]
<1>1. Become(r, state)
  BY DEF Taken
<1>2. Moves /\ UNCHANGED import /\ row' = row /\ origin' = origin /\ chosen' = chosen
  BY StandsStill DEF Quiet
<1>3. req[r] \in RequestState /\ req[r].pc \in Active
  BY Known DEF Active
<1>4. /\ state \in RequestState /\ state.pc = pc /\ state.op = req[r].op
      /\ state.id = req[r].id /\ state.dual = req[r].dual
      /\ state.who = p /\ state.word = w
  <2>1. Nothing \in [id: 0..MaxRows, marker: Marker]
    BY MigrationAssumption DEF MigrationAssumption, Nothing, Marker
  <2> QED BY <1>3, <2>1 DEF RequestState, Active
<1> HIDE DEF state
<1>5. CASE pc = "failed"
  BY <1>1, <1>2, <1>4, <1>5, Ends DEF Ended
<1>6. CASE pc = "refused"
  <2>1. state.pc \in Answered /\ state.pc \notin Ended
    BY <1>4, <1>6 DEF Answered, Ended
  <2>2. Noted(r, p, w, spoiled)
    BY <1>1, <1>3, <1>4, <2>1, Records
  <2>3. state.op = "login" => ~hist'[r].always
    BY <1>2, <1>4, <1>6, <2>2 DEF Noted, Deserves
  <2> QED BY <1>1, <1>2, <1>4, <1>6, <2>1, <2>3, Answers
<1>7. CASE pc = "adopt"
  <2>1. state.pc \in Active /\ state.pc \notin Ended
    BY <1>4, <1>7 DEF Active, Ended
  <2>2. Noted(r, p, w, spoiled)
    BY <1>1, <1>3, <1>4, <2>1, Records
  <2>3. /\ MayAsk(r) /\ w # EmptyPassword /\ hist[r].ever
    BY <1>7, Known DEF MayAsk, Good, WasEntitled
  <2>4. ASSUME req'[r] = state PROVE Good(r)'
    <3>1. Knows(r)'
      <4>1. req[r].id <= rows'
        <5>1. req[r].id <= rows /\ rows <= rows' /\ rows' \in Nat
          BY <1>2, Known DEF Good, Knows, Moves, RowTypes
        <5> QED BY <5>1, Known
      <4>2. req[r].id # 0 /\ (req[r].dual => DualRead)
        BY Known DEF Good, Knows
      <4> QED BY <1>4, <1>7, <2>3, <2>4, <4>1, <4>2 DEF Knows
    <3>2. Entitled(r)'
      BY <1>2, <1>4, <1>7, <2>2, <2>4 DEF Entitled, Noted
    <3>3. WasEntitled(r)'
      BY <1>4, <1>7, <2>2, <2>3, <2>4 DEF WasEntitled, MayAsk, Noted
    <3>4. Hears(r)'
      <4>1. hist[r].late => hist'[r].late
        BY <1>4, <1>7, <2>2, <2>4 DEF Noted
      <4>2. \/ row[p].id # req[r].id
            \/ origin[p] = "here" /\ (chosen[p] # NoPassword => hist[r].late)
        BY <2>3, Known DEF Good, Hears
      <4> QED BY <1>2, <1>4, <2>4, <4>1, <4>2 DEF Hears
    <3> QED BY <3>1, <3>2, <3>3, <3>4 DEF Good
  <2> QED BY <1>1, <1>2, <1>4, <2>1, <2>4, Continues
<1> QED BY <1>5, <1>6, <1>7

(* Who deserves to come in may ask, and the pool's answer is yes.          *)
LEMMA TheDeserving ==
  ASSUME MigrationAssumption, IInv, NEW r \in Request, req[r].pc = "verify",
         Deserves(r)
  PROVE  MayAsk(r) /\ Honest(r) = {"accepted"}
<1>1. PoolPassword[req[r].who] = req[r].word /\ Matches(r)
  BY Known DEF Good, Entitled, Deserves
<1>2. req[r].word # EmptyPassword
  BY DEF Deserves, Acceptable
<1> QED BY <1>1, <1>2 DEF MayAsk, Honest

LEMMA Verifies ==
  ASSUME MigrationAssumption, IInv, NEW r \in Request,
         \/ Observe({}) /\ (RefuseUnasked(r) \/ VerifyPassword(r))
         \/ Observe({r}) /\ (VerifyElsewise(r) \/ OverBudget(r))
  PROVE  Stepped(r)
<1>1. CASE Observe({}) /\ RefuseUnasked(r)
  BY <1>1, Takes, TheDeserving DEF RefuseUnasked
<1>2. CASE Observe({r}) /\ OverBudget(r)
  BY <1>2, Takes DEF OverBudget, MayAsk
<1>3. CASE Observe({r}) /\ VerifyElsewise(r)
  <2>1. PICK answer \in (Refusal \ {"rejected", "notFound"}) \cup Silence :
          Taken(r, Verdict(answer))
    BY <1>3 DEF VerifyElsewise
  <2>2. Verdict(answer) \in {"refused", "failed"}
    BY DEF Verdict, Refusal, Silence
  <2> HIDE DEF Verdict
  <2> QED BY <1>3, <2>1, <2>2, Takes DEF VerifyElsewise, MayAsk
<1>4. CASE Observe({}) /\ VerifyPassword(r)
  <2>1. MayAsk(r) /\ req[r].pc = "verify" /\ Quiet
    BY <1>4 DEF VerifyPassword, MayAsk
  <2>2. PICK answer \in Honest(r) : Taken(r, Verdict(answer))
    BY <1>4 DEF VerifyPassword
  <2>3. CASE PoolPassword[req[r].who] = req[r].word
    <3>1. answer = "accepted"
      BY <2>2, <2>3 DEF Honest
    <3>2. Verdict(answer) = "adopt"
      BY <3>1 DEF Verdict, Refusal
    <3> QED BY <1>4, <2>1, <2>2, <2>3, <3>2, Takes
  <2>4. CASE PoolPassword[req[r].who] # req[r].word
    <3>1. answer \in {"notFound", "rejected"}
      BY <2>2, <2>4 DEF Honest
    <3>2. Verdict(answer) = "refused"
      BY <3>1 DEF Verdict, Refusal
    <3>3. ~Deserves(r)
      BY <2>1, <2>4, Known DEF Good, Entitled, Deserves
    <3> QED BY <1>4, <2>1, <2>2, <3>2, <3>3, Takes
  <2> QED BY <2>3, <2>4
<1> QED BY <1>1, <1>2, <1>3, <1>4

(* A password is written: chosen by a reset, adopted by a login.           *)
LEMMA UpdatesPassword ==
  ASSUME MigrationAssumption, IInv, NEW r \in Request, Observe({}), UpdatePassword(r)
  PROVE  Stepped(r)
<1>1. /\ req[r].pc \in {"adopt", "reset"} /\ req[r].pc \in Active
      /\ req[r] \in RequestState
  BY Known DEF UpdatePassword, Active
<1>2. CASE Become(r, [req[r] EXCEPT !.pc = "failed"]) /\ Quiet
  <2> DEFINE state == [req[r] EXCEPT !.pc = "failed"]
  <2>1. Become(r, state) /\ Moves /\ UNCHANGED import
    BY <1>2, StandsStill
  <2>2. state \in RequestState /\ state.pc \in Ended
    BY <1>1 DEF RequestState, Ended
  <2> HIDE DEF state
  <2> QED BY <2>1, <2>2, Ends
<1>3. CASE /\ PasswordSet(r)
           /\ Become(r, [req[r] EXCEPT !.pc = IF req[r].pc = "reset" THEN "done" ELSE "in"])
  <2> DEFINE pc == IF req[r].pc = "reset" THEN "done" ELSE "in"
             state == [req[r] EXCEPT !.pc = pc]
  <2>1. Become(r, state)
    BY <1>3
  <2>2. Moves /\ UNCHANGED import
    BY <1>1, <1>3, PasswordMoves
  <2>3. /\ state \in RequestState /\ state.pc = pc /\ state.op = req[r].op
        /\ state.who = req[r].who /\ state.word = req[r].word
    BY <1>1 DEF RequestState, Active
  <2> HIDE DEF state
  <2>4. CASE pc = "done"
    <3>1. state.pc \in Ended
      BY <2>3, <2>4 DEF Ended
    <3> QED BY <2>1, <2>2, <2>3, <3>1, Ends
  <2>5. CASE pc = "in"
    <3>1. state.pc \in Answered /\ state.pc \notin Ended /\ req[r].pc = "adopt"
      BY <1>1, <2>3, <2>5 DEF Answered, Ended
    <3>2. Noted(r, req[r].who, req[r].word, {})
      BY <1>1, <2>1, <2>3, <3>1, Records
    <3>3. hist'[r].ever
      BY <3>1, <3>2, Known DEF Good, WasEntitled, Noted
    <3> QED BY <2>1, <2>2, <2>3, <2>5, <3>1, <3>3, Answers
  <2> QED BY <2>4, <2>5
<1> QED BY <1>2, <1>3 DEF UpdatePassword

LEMMA CreatesUser ==
  ASSUME MigrationAssumption, IInv, NEW r \in Request, Observe({}), CreateUser(r)
  PROVE  Stepped(r)
<1>1. req[r].pc = "signup" /\ req[r] \in RequestState
  BY Known DEF CreateUser
<1>2. CASE SignedUp(r) /\ Become(r, [req[r] EXCEPT !.pc = "done"])
  <2> DEFINE state == [req[r] EXCEPT !.pc = "done"]
  <2>1. Moves /\ UNCHANGED import
    BY <1>1, <1>2, SignUpMoves
  <2>2. state \in RequestState /\ state.pc \in Ended
    BY <1>1 DEF RequestState, Ended
  <2> HIDE DEF state
  <2>3. Become(r, state)
    BY <1>2 DEF state
  <2> QED BY <2>1, <2>2, <2>3, Ends
<1>3. CASE /\ Exists(req[r].who)
           /\ Become(r, [req[r] EXCEPT !.pc = "refused"])
           /\ Quiet
  <2> DEFINE state == [req[r] EXCEPT !.pc = "refused"]
  <2>1. Moves /\ UNCHANGED import
    BY <1>3, StandsStill
  <2>2. /\ state \in RequestState /\ state.pc = "refused" /\ state.pc \in Answered
        /\ state.op = req[r].op
    BY <1>1 DEF RequestState, Answered
  <2>3. req[r].op # "login"
    BY <1>1, Known DEF Good, Knows
  <2> HIDE DEF state
  <2>4. Become(r, state)
    BY <1>3 DEF state
  <2> QED BY <2>1, <2>2, <2>3, <2>4, Answers
<1> QED BY <1>2, <1>3 DEF CreateUser

(* Calls of the table that fail.  A login that one of them refuses has met *)
(* with a failure; a write that fails may have landed.                     *)
LEMMA FailsToCreate ==
  ASSUME MigrationAssumption, IInv, NEW r \in Request, Observe({r}),
         CreateMigratedUserFails(r)
  PROVE  Stepped(r)
<1>1. Moves /\ UNCHANGED import
  BY ProvisionMoves, StandsStill DEF CreateMigratedUserFails
<1> QED BY <1>1, MissesAnyway DEF CreateMigratedUserFails, Active

LEMMA FailsToLookUp ==
  ASSUME MigrationAssumption, IInv, NEW r \in Request, Observe({r}), LookupFails(r)
  PROVE  Stepped(r)
<1>1. req[r].pc \in Active /\ Quiet /\ Moves /\ UNCHANGED import
  BY StandsStill DEF LookupFails, Active
<1>2. CASE ReadingBack(r)
  BY <1>1, <1>2, Misses DEF LookupFails
<1>3. CASE ~ReadingBack(r)
  <2> DEFINE pc == IF req[r].op = "register" THEN "failed" ELSE "refused"
             state == [req[r] EXCEPT !.pc = pc]
  <2>1. Become(r, state)
    BY <1>3 DEF LookupFails
  <2>2. /\ state \in RequestState /\ state.pc = pc /\ state.op = req[r].op
        /\ state.who = req[r].who /\ state.word = req[r].word
    BY Known DEF RequestState, Active
  <2> HIDE DEF state
  <2>3. CASE pc = "failed"
    <3>1. state.pc \in Ended
      BY <2>2, <2>3 DEF Ended
    <3> QED BY <1>1, <2>1, <2>2, <3>1, Ends
  <2>4. CASE pc = "refused"
    <3>1. state.pc \in Answered /\ state.pc \notin Ended
      BY <2>2, <2>4 DEF Answered, Ended
    <3>2. ~hist'[r].always
      BY <1>1, <2>1, <2>2, <3>1, Records DEF Noted
    <3> QED BY <1>1, <2>1, <2>2, <2>4, <3>1, <3>2, Answers
  <2> QED BY <2>3, <2>4
<1> QED BY <1>2, <1>3

LEMMA FailsToWrite ==
  ASSUME MigrationAssumption, IInv, NEW r \in Request, WriteFails(r)
  PROVE  Stepped(r)
<1> DEFINE state == [req[r] EXCEPT !.pc = "failed"]
<1>1. Become(r, state)
  BY DEF WriteFails
<1>2. Moves /\ UNCHANGED import
  BY PasswordMoves, SignUpMoves, StandsStill DEF WriteFails
<1>3. state \in RequestState /\ state.pc \in Ended
  BY Known DEF RequestState, Ended
<1> HIDE DEF state
<1> QED BY <1>1, <1>2, <1>3, Ends

LEMMA Abandons ==
  ASSUME MigrationAssumption, IInv, NEW r \in Request, Observe({r}), Abandon(r)
  PROVE  Stepped(r)
<1> DEFINE state == [req[r] EXCEPT !.pc = "gone"]
<1>1. Become(r, state) /\ Moves /\ UNCHANGED import
  BY StandsStill DEF Abandon
<1>2. state \in RequestState /\ state.pc \in Ended
  BY Known DEF RequestState, Ended
<1> HIDE DEF state
<1> QED BY <1>1, <1>2, Ends

LEMMA RequestSteps ==
  ASSUME MigrationAssumption, IInv, NEW r \in Request, RequestNext(r)
  PROVE  Stepped(r) /\ \E spoiled : Observe(spoiled)
<1>1. Stepped(r)
  BY Starts, ReadsPointer, ReadsProfile, GetsUser, CreatesMigratedUser, Verifies,
     UpdatesPassword, CreatesUser, SourceDoesNotAnswer, FailsToCreate, FailsToLookUp,
     FailsToWrite, Abandons DEF RequestNext
<1>2. Observe({}) \/ Observe({r})
  BY DEF RequestNext
<1> QED BY <1>1, <1>2

-----------------------------------------------------------------------------
(* The import, and deletions.                                              *)
SameRun ==
  /\ import'.page = import.page /\ import'.resume = import.resume
  /\ import'.whole = import.whole /\ import'.failed = import.failed
  /\ import'.arrived = import.arrived

LEMMA Imports ==
  ASSUME MigrationAssumption, IInv, ImportNext
  PROVE  /\ Moves /\ req' = req /\ Observe({})
         /\ import' \in Import /\ ImportKeepsUp'
<1>a. /\ import \in Import /\ ImportKeepsUp /\ RowTypes /\ RowsAreSound
  BY DEF IInv, TypeOK, RowTypes
<1>b. /\ Observe({}) /\ req' = req /\ chosen' = chosen
  BY DEF ImportNext, StartImport, NoticeInterrupt, ListUsers, ImportUser, RecordFails,
         EndPage, Interrupt, ImportStep
<1>c. /\ import.page \in 1..Len(Pages) /\ import.at \in Nat \ {0}
      /\ import.resume = import.page /\ import.arrived \subseteq Person
      /\ import.runs \in 0..MaxRuns
      /\ import.failed \in BOOLEAN /\ import.whole \in BOOLEAN
  BY <1>a DEF Import, ImportKeepsUp
<1>d. /\ Len(Pages) \in Nat /\ 1 \in 1..Len(Pages)
      /\ \A i \in 1..Len(Pages) :
           /\ Pages[i] \in Seq(Person \cup {NoEmail}) /\ Len(Pages[i]) \in Nat
           /\ \A j \in 1..Len(Pages[i]) : Pages[i][j] \in Person \cup {NoEmail}
  BY DEF MigrationAssumption
<1>1. ASSUME Unwritten PROVE Moves
  BY <1>1, <1>a, <1>b, QuietMoves DEF Unwritten
<1>2. ASSUME NEW from \in 1..Len(Pages), StartImport(from)
      PROVE  Moves /\ import' \in Import /\ ImportKeepsUp'
  <2> DEFINE whole == from = 1 \/ (import.whole /\ ~import.failed)
             arrived == IF from = 1 THEN {} ELSE import.arrived
  <2>1. /\ Unwritten /\ import.runs < MaxRuns
        /\ import' = [import EXCEPT !.pc = "listing", !.page = from, !.resume = from,
             !.cancelled = FALSE, !.failed = FALSE, !.runs = import.runs + 1,
             !.whole = whole, !.arrived = arrived]
        /\ from = 1 \/ from = import.resume
    BY <1>2 DEF StartImport
  <2>2. /\ import.runs + 1 \in 0..MaxRuns
        /\ whole \in BOOLEAN /\ arrived \in SUBSET Person
    BY <2>1, <1>c, MigrationAssumption DEF MigrationAssumption
  <2> HIDE DEF whole, arrived
  <2>3. /\ import' \in Import /\ import'.pc = "listing"
        /\ import'.page = from /\ import'.resume = from
        /\ import'.whole = whole /\ import'.arrived = arrived
    BY <1>a, <2>1, <2>2 DEF Import
  <2>4. ImportKeepsUp'
    <3>1. ASSUME whole, NEW i \in 1..Len(Pages), i < from, NEW j \in 1..Len(Pages[i])
          PROVE  Pages[i][j] \in arrived
      <4>1. from # 1
        BY <3>1
      <4>2. import.whole /\ ~import.failed /\ from = import.page
        BY <1>c, <2>1, <3>1, <4>1 DEF whole
      <4>3. Pages[i][j] \in import.arrived
        BY <1>a, <3>1, <4>2 DEF ImportKeepsUp
      <4> QED BY <4>1, <4>3 DEF arrived
    <3> QED BY <2>3, <3>1 DEF ImportKeepsUp
  <2> QED BY <1>1, <2>1, <2>3, <2>4
<1>3. ASSUME import' \in Import, SameRun, import'.pc \notin {"complete", "records"}
      PROVE  ImportKeepsUp'
  BY <1>a, <1>3 DEF ImportKeepsUp, SameRun
<1>4. ASSUME NoticeInterrupt PROVE Moves /\ import' \in Import /\ ImportKeepsUp'
  <2>1. Unwritten /\ import' = [import EXCEPT !.pc = "interrupted"]
    BY <1>4 DEF NoticeInterrupt
  <2>2. import' \in Import /\ import'.pc = "interrupted" /\ SameRun
    BY <1>a, <2>1 DEF Import, SameRun
  <2> QED BY <1>1, <1>3, <2>1, <2>2
<1>5. ASSUME ListUsers PROVE Moves /\ import' \in Import /\ ImportKeepsUp'
  <2>1. Unwritten /\ import.pc = "listing"
    BY <1>5 DEF ListUsers
  <2>2. CASE import' = [import EXCEPT !.pc = "stopped"]
    <3>1. import' \in Import /\ import'.pc = "stopped" /\ SameRun
      BY <1>a, <2>2 DEF Import, SameRun
    <3> QED BY <1>1, <1>3, <2>1, <3>1
  <2>3. CASE import' = [import EXCEPT !.pc = "records", !.at = 1]
    <3>1. /\ import' \in Import /\ import'.pc = "records" /\ import'.at = 1 /\ SameRun
      <4>1. 1 \in Nat \ {0}
        OBVIOUS
      <4>2. import' \in Import
        BY <1>a, <2>3, <4>1 DEF Import
      <4> QED BY <1>a, <2>3, <4>2 DEF Import, SameRun
    <3>2. ImportKeepsUp'
      BY <1>a, <1>c, <1>d, <2>1, <3>1 DEF ImportKeepsUp, SameRun
    <3> QED BY <1>1, <2>1, <3>1, <3>2
  <2> QED BY <1>5, <2>2, <2>3 DEF ListUsers
<1>6. ASSUME createUser(Record, NoPassword, "here"), Record \in Person PROVE Moves
  BY <1>6, <1>a, <1>b, CreateMoves DEF Marker
<1>7. ASSUME ImportUser PROVE Moves /\ import' \in Import /\ ImportKeepsUp'
  <2>1. /\ import.pc = "records" /\ import.at <= Len(Pages[import.page])
        /\ Record # NoEmail
        /\ import' = [import EXCEPT !.at = import.at + 1,
                                    !.arrived = import.arrived \cup {Record}]
    BY <1>7 DEF ImportUser, RecordLeft
  <2>2. Record \in Person
    BY <1>c, <1>d, <2>1 DEF Record
  <2>3. Moves
    BY <1>1, <1>6, <1>7, <2>2 DEF ImportUser
  <2>4. /\ import' \in Import /\ import'.pc = "records" /\ import'.at = import.at + 1
        /\ import'.page = import.page /\ import'.resume = import.resume
        /\ import'.whole = import.whole /\ import'.failed = import.failed
        /\ import'.arrived = import.arrived \cup {Record}
    <3>1. import.at + 1 \in Nat \ {0}
      BY <1>c
    <3> QED BY <1>a, <2>1, <2>2, <3>1 DEF Import
  <2>5. ASSUME import.whole, ~import.failed,
               NEW j \in 1..Len(Pages[import.page]), j < import.at + 1
        PROVE  Pages[import.page][j] \in import'.arrived
    <3>1. CASE j < import.at
      BY <1>a, <2>1, <2>4, <2>5, <3>1 DEF ImportKeepsUp
    <3>2. CASE j = import.at
      BY <2>4, <3>2 DEF Record
    <3> QED BY <1>c, <1>d, <2>5, <3>1, <3>2
  <2>6. ImportKeepsUp'
    BY <1>a, <2>1, <2>4, <2>5 DEF ImportKeepsUp
  <2> QED BY <2>3, <2>4, <2>6
<1>8. ASSUME RecordFails PROVE Moves /\ import' \in Import /\ ImportKeepsUp'
  <2>1. /\ import.pc = "records" /\ import.at <= Len(Pages[import.page])
        /\ import' = [import EXCEPT !.at = import.at + 1, !.failed = TRUE]
    BY <1>8 DEF RecordFails, RecordLeft
  <2>2. Record \in Person \cup {NoEmail}
    BY <1>c, <1>d, <2>1 DEF Record
  <2>3. Moves
    BY <1>1, <1>6, <1>8, <2>2 DEF RecordFails
  <2>4. /\ import' \in Import /\ import'.pc = "records" /\ import'.failed = TRUE
        /\ import'.page = import.page /\ import'.resume = import.resume
    <3>1. import.at + 1 \in Nat \ {0}
      BY <1>c
    <3> QED BY <1>a, <2>1, <3>1 DEF Import
  <2>5. ImportKeepsUp'
    BY <1>a, <2>1, <2>4 DEF ImportKeepsUp
  <2> QED BY <2>3, <2>4, <2>5
<1>9. ASSUME EndPage PROVE Moves /\ import' \in Import /\ ImportKeepsUp'
  <2>1. /\ import.pc = "records" /\ Unwritten
        /\ ~(import.at <= Len(Pages[import.page]))
    BY <1>9 DEF EndPage, RecordLeft
  <2>2. ASSUME import.whole, ~import.failed,
               NEW i \in 1..Len(Pages), i <= import.page, NEW j \in 1..Len(Pages[i])
        PROVE  Pages[i][j] \in import.arrived
    <3>1. CASE i < import.page
      BY <1>a, <2>1, <2>2, <3>1 DEF ImportKeepsUp
    <3>2. CASE i = import.page
      <4>1. j < import.at
        BY <1>c, <1>d, <2>1, <2>2, <3>2
      <4> QED BY <1>a, <2>1, <2>2, <3>2, <4>1 DEF ImportKeepsUp
    <3> QED BY <1>c, <2>2, <3>1, <3>2
  <2>3. CASE LastPage(import.page)
    <3>1. import' = [import EXCEPT !.pc = IF import.failed THEN "incomplete" ELSE "complete"]
      BY <1>9, <2>3 DEF EndPage
    <3>2. /\ import' \in Import /\ SameRun
          /\ import'.pc = IF import.failed THEN "incomplete" ELSE "complete"
      BY <1>a, <3>1 DEF Import, SameRun
    <3>3. ImportKeepsUp'
      BY <1>a, <1>c, <1>d, <2>2, <2>3, <3>2 DEF ImportKeepsUp, LastPage, SameRun
    <3> QED BY <1>1, <2>1, <3>2, <3>3
  <2>4. CASE ~LastPage(import.page)
    <3>1. import' = [import EXCEPT !.pc = "listing", !.page = import.page + 1,
                                   !.resume = import.page + 1]
      BY <1>9, <2>4 DEF EndPage
    <3>2. import.page + 1 \in 1..Len(Pages)
      BY <1>c, <1>d, <2>4 DEF LastPage
    <3>3. /\ import' \in Import /\ import'.pc = "listing"
          /\ import'.page = import.page + 1 /\ import'.resume = import.page + 1
          /\ import'.whole = import.whole /\ import'.failed = import.failed
          /\ import'.arrived = import.arrived
      BY <1>a, <3>1, <3>2 DEF Import
    <3>4. \A i \in 1..Len(Pages) : i < import.page + 1 => i <= import.page
      BY <1>c, <1>d
    <3>5. ImportKeepsUp'
      BY <2>2, <3>3, <3>4 DEF ImportKeepsUp
    <3> QED BY <1>1, <2>1, <3>3, <3>5
  <2> QED BY <2>3, <2>4
<1>10. ASSUME Interrupt PROVE Moves /\ import' \in Import /\ ImportKeepsUp'
  <2>1. Unwritten /\ import' = [import EXCEPT !.cancelled = TRUE]
    BY <1>10 DEF Interrupt
  <2>2. import' \in Import /\ import'.pc = import.pc /\ import'.at = import.at /\ SameRun
    BY <1>a, <2>1 DEF Import, SameRun
  <2>3. ImportKeepsUp'
    BY <1>a, <2>2 DEF ImportKeepsUp, SameRun
  <2> QED BY <1>1, <2>1, <2>2, <2>3
<1> QED BY <1>b, <1>2, <1>4, <1>5, <1>7, <1>8, <1>9, <1>10 DEF ImportNext

LEMMA Deletes ==
  ASSUME MigrationAssumption, IInv, NEW p \in Person, DeleteUser(p)
  PROVE  Moves /\ UNCHANGED <<req, import>>
<1>1. /\ Exists(p) /\ row' = [row EXCEPT ![p] = NoRow]
      /\ chosen' = [chosen EXCEPT ![p] = NoPassword]
      /\ origin' = [origin EXCEPT ![p] = "none"]
      /\ UNCHANGED <<rows, req, import>>
  BY DEF DeleteUser
<1>2. RowTypes
  BY DEF IInv, TypeOK, RowTypes
<1>3. NoRow \in Row /\ "none" \in Marker
  BY DEF NoRow, Row, Marker, MigrationAssumption
<1>4. RowTypes'
  BY <1>1, <1>2, <1>3 DEF RowTypes
<1>5. Goes(p) /\ \A q \in Person \ {p} : Stays(q)
  BY <1>1, <1>2 DEF RowTypes, Goes, Stays
<1>6. rows <= rows'
  BY <1>1, <1>2 DEF RowTypes, MigrationAssumption
<1> QED BY <1>1, <1>4, <1>5, <1>6 DEF Moves

(* Sound rows stay sound. *)
LEMMA SoundRows ==
  ASSUME MigrationAssumption, IInv, Moves
  PROVE  RowsAreSound'
<1> SUFFICES ASSUME NEW p \in Person
             PROVE  /\ row'[p].id <= rows'
                    /\ row'[p].id = 0 => row'[p] = NoRow /\ chosen'[p] = NoPassword
                    /\ row'[p].marker = "here" =>
                         origin'[p] = "here" /\ chosen'[p] = NoPassword
  BY DEF RowsAreSound, Exists
<1>1. /\ rows \in Nat /\ rows' \in Nat /\ rows <= rows'
      /\ Stays(p) \/ Settles(p) \/ Comes(p) \/ Goes(p)
  BY DEF IInv, TypeOK, Moves, RowTypes, MigrationAssumption
<1>2. /\ row[p].id \in Nat /\ row[p].id <= rows
      /\ ~Exists(p) => row[p] = NoRow /\ chosen[p] = NoPassword
      /\ row[p].marker = "here" => origin[p] = "here" /\ chosen[p] = NoPassword
  BY DEF IInv, TypeOK, RowsAreSound, Row
<1>3. CASE Stays(p)
  BY <1>1, <1>2, <1>3 DEF Stays, Exists
<1>4. CASE Settles(p)
  BY <1>1, <1>2, <1>4 DEF Settles, Exists
<1>5. CASE Comes(p)
  BY <1>1, <1>5 DEF Comes
<1>6. CASE Goes(p)
  BY <1>1, <1>6 DEF Goes, NoRow
<1> QED BY <1>1, <1>3, <1>4, <1>5, <1>6

LEMMA Initially == ASSUME MigrationAssumption, Init PROVE IInv
<1>1. /\ \A p \in Person :
           row[p] = IF p \in FromElsewhere
                      THEN [id |-> 1, hash |-> NoPassword, marker |-> "elsewhere"] ELSE NoRow
      /\ rows = IF FromElsewhere = {} THEN 0 ELSE 1
      /\ chosen = [p \in Person |-> NoPassword]
      /\ origin = [p \in Person |-> row[p].marker]
      /\ DOMAIN row = Person
      /\ row = [p \in Person |-> row[p]]
  BY DEF Init
<1>2. rows \in 0..MaxRows /\ rows \in {0, 1} /\ (FromElsewhere # {} => 1 \in 0..MaxRows)
  BY <1>1 DEF MigrationAssumption
<1>3. ASSUME NEW p \in Person
      PROVE  /\ row[p] \in Row /\ row[p].id <= rows /\ row[p].marker # "here"
             /\ row[p].id = 0 => row[p] = NoRow
  <2>1. CASE p \in FromElsewhere
    <3>1. row[p] = [id |-> 1, hash |-> NoPassword, marker |-> "elsewhere"]
      BY <1>1, <2>1
    <3>2. 1 \in 0..MaxRows /\ rows = 1
      BY <1>1, <1>2, <2>1
    <3> QED BY <3>1, <3>2 DEF Row, Marker
  <2>2. CASE p \notin FromElsewhere
    <3>1. row[p] = NoRow
      BY <1>1, <2>2
    <3>2. 0 \in 0..MaxRows /\ 0 <= rows
      BY <1>2
    <3> QED BY <3>1, <3>2 DEF Row, NoRow, Marker
  <2> QED BY <2>1, <2>2
<1>4. row \in [Person -> Row]
  BY <1>1, <1>3
<1>5. \A p \in Person : row[p].marker \in Marker
  BY <1>3 DEF Row
<1>6. RowTypes
  BY <1>1, <1>2, <1>4, <1>5 DEF RowTypes
<1>7. RowsAreSound
  BY <1>1, <1>3 DEF RowsAreSound, Exists
<1>8. /\ req \in [Request -> RequestState] /\ hist \in [Request -> History]
  BY InitialRequest DEF Init, History, Untried
<1>9. import \in Import /\ ImportKeepsUp
  BY DEF Init, Import, ImportKeepsUp, MigrationAssumption
<1>10. ASSUME NEW r \in Request PROVE Good(r)
  <2>1. req[r].pc = "idle" /\ req[r].id = 0 /\ req[r].dual = FALSE
    BY DEF Init, InitRequest
  <2> QED BY <1>2, <2>1 DEF Good, Knows, Entitled, WasEntitled, Hears, MayAsk, Active
<1> QED BY <1>6, <1>7, <1>8, <1>9, <1>10 DEF IInv, TypeOK, RowTypes

LEMMA Inductive == ASSUME MigrationAssumption, IInv, [Next]_vars PROVE IInv'
<1>a. TypeOK /\ hist \in [Request -> History] /\ RowTypes
  BY DEF IInv, TypeOK, RowTypes
<1>1. ASSUME NEW r \in Request, RequestNext(r) PROVE IInv'
  <2>1. PICK spoiled : Observe(spoiled)
    BY <1>1, RequestSteps
  <2>2. Stepped(r)
    BY <1>1, RequestSteps
  <2>3. /\ Moves /\ import' = import /\ req' \in [Request -> RequestState]
        /\ \A s \in Request \ {r} : req'[s] = req[s]
    BY <2>2 DEF Stepped
  <2>4. hist' \in [Request -> History]
    BY <1>a, <2>1, Observed
  <2>5. \A s \in Request : Good(s)'
    BY <2>1, <2>2, <2>3, Bystander DEF Stepped
  <2>6. import' \in Import /\ ImportKeepsUp'
    BY <1>a, <2>3 DEF TypeOK, IInv, ImportKeepsUp
  <2> QED BY <2>3, <2>4, <2>5, <2>6, SoundRows DEF IInv, TypeOK, Moves, RowTypes
<1>2. CASE ImportNext
  <2>1. /\ Moves /\ req' = req /\ Observe({})
        /\ import' \in Import /\ ImportKeepsUp'
    BY <1>2, Imports
  <2>2. hist' \in [Request -> History]
    BY <1>a, <2>1, Observed
  <2>3. \A s \in Request : Good(s)'
    BY <2>1, Bystander
  <2>4. req' \in [Request -> RequestState]
    BY <1>a, <2>1 DEF TypeOK
  <2> QED BY <2>1, <2>2, <2>3, <2>4, SoundRows DEF IInv, TypeOK, Moves, RowTypes
<1>3. ASSUME NEW p \in Person, DeleteUser(p), Observe({}) PROVE IInv'
  <2>1. /\ Moves /\ req' = req /\ import' = import
    BY <1>3, Deletes
  <2>2. hist' \in [Request -> History]
    BY <1>3, <1>a, Observed
  <2>3. \A s \in Request : Good(s)'
    BY <1>3, <2>1, Bystander
  <2>4. /\ req' \in [Request -> RequestState]
        /\ import' \in Import /\ ImportKeepsUp'
    BY <1>a, <2>1 DEF TypeOK, IInv, ImportKeepsUp
  <2> QED BY <2>1, <2>2, <2>3, <2>4, SoundRows DEF IInv, TypeOK, Moves, RowTypes
<1>4. CASE UNCHANGED vars
  <2>1. TypeOK' /\ RowsAreSound' /\ ImportKeepsUp'
    BY <1>4 DEF vars, IInv, TypeOK, RowsAreSound, Exists, ImportKeepsUp
  <2>2. ASSUME NEW s \in Request PROVE Good(s)'
    <3>1. Good(s)
      BY DEF IInv
    <3> QED BY <1>4, <3>1
           DEF vars, Good, Knows, Entitled, WasEntitled, Hears, MayAsk, Matches, Exists
  <2> QED BY <2>1, <2>2 DEF IInv
<1> QED BY <1>1, <1>2, <1>3, <1>4 DEF Next

LEMMA Invariant == Spec => []IInv
<1>1. Init => IInv
  BY Initially, MigrationAssumption
<1>2. IInv /\ [Next]_vars => IInv'
  BY Inductive, MigrationAssumption
<1> QED BY <1>1, <1>2, PTL DEF Spec

-----------------------------------------------------------------------------
(* Every reachable state is well typed. *)
THEOREM TypeCorrect == Spec => []TypeOK
<1>1. IInv => TypeOK
  BY DEF IInv
<1> QED BY <1>1, Invariant, PTL

(* A login that is refused was, at some moment while it ran, not entitled  *)
(* to come in, or met with a pool, a budget or a call of the table that    *)
(* failed it, whoever created the row and however the environments, the    *)
(* import and registrations interleaved (GetUserByEmail,                   *)
(* provisionFromSource, PasswordVerifier).                                 *)
THEOREM TheRightPasswordGetsIn == Spec => []RightPasswordGetsIn
<1>1. IInv => RightPasswordGetsIn
  BY DEF IInv, Good, Entitled, RightPasswordGetsIn
<1> QED BY <1>1, Invariant, PTL

(* A login that is let in presented a password that was acceptable at some *)
(* moment while it ran, whatever the pool answers to wrong ones.           *)
THEOREM AWrongPasswordStaysOut == Spec => []WrongPasswordStaysOut
<1>1. IInv => WrongPasswordStaysOut
  BY DEF IInv, Good, WasEntitled, WrongPasswordStaysOut
<1> QED BY <1>1, Invariant, PTL

(* A pool is sent passwords only for accounts that came from it and had no *)
(* password of their own when the request read the profile (the marker of  *)
(* migrationScope is of the row that was read).                            *)
THEOREM ThePoolHearsOnlyOfItsOwn == Spec => []PoolHearsOnlyOfItsOwn
<1>1. IInv => PoolHearsOnlyOfItsOwn
  BY DEF IInv, Good, Hears, PoolHearsOnlyOfItsOwn
<1> QED BY <1>1, Invariant, PTL

(* An import that exits 0 has met every record of every page, in one run   *)
(* or resumed from where runs without a failure stopped (importAll).       *)
THEOREM CompletionMeansEveryone == Spec => []CompleteMeansEveryone
<1>1. IInv => CompleteMeansEveryone
  BY DEF IInv, ImportKeepsUp, CompleteMeansEveryone
<1> QED BY <1>1, Invariant, PTL

(* A password, once an account has one, is kept: neither import, dual-read *)
(* nor a registration rewrites a row that is there.                        *)
THEOREM PasswordsStay == Spec => PasswordsAreKept
<1> DEFINE Kept ==
      \A p \in Person :
        row[p].hash # NoPassword /\ Exists(p)' =>
          row'[p].id = row[p].id /\ row'[p].hash # NoPassword
<1>1. ASSUME IInv, Moves PROVE Kept
  <2> SUFFICES ASSUME NEW p \in Person, row[p].hash # NoPassword, row'[p].id # 0
               PROVE  row'[p].id = row[p].id /\ row'[p].hash # NoPassword
    BY DEF Exists
  <2>1. Stays(p) \/ Settles(p) \/ Comes(p) \/ Goes(p)
    BY <1>1 DEF Moves
  <2>2. Exists(p)
    BY <1>1 DEF IInv, RowsAreSound, NoRow
  <2> QED BY <2>1, <2>2 DEF Stays, Settles, Comes, Goes, NoRow
<1>2. ASSUME IInv, Next PROVE Moves
  <2>1. ASSUME NEW r \in Request, RequestNext(r) PROVE Moves
    BY <1>2, <2>1, RequestSteps, MigrationAssumption DEF Stepped
  <2>2. CASE ImportNext
    BY <1>2, <2>2, Imports, MigrationAssumption
  <2>3. ASSUME NEW p \in Person, DeleteUser(p) PROVE Moves
    BY <1>2, <2>3, Deletes, MigrationAssumption
  <2> QED BY <1>2, <2>1, <2>2, <2>3 DEF Next
<1>3. IInv /\ [Next]_vars => [Kept]_vars
  BY <1>1, <1>2
<1> QED BY <1>3, Invariant, PTL DEF Spec, PasswordsAreKept
=============================================================================

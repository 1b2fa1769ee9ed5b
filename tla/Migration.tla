------------------------------ MODULE Migration -------------------------------
(***************************************************************************)
(* Users that arrive from a Cognito user pool                              *)
(* (internal/store/migrating: GetUserByEmail, provisionFromSource,         *)
(* PasswordVerifier; internal/store/dynamodb: CreateMigratedUser, the      *)
(* migration scope, UpdatePassword; cmd/migrate: importAll, importUser).   *)
(*                                                                         *)
(* A row without a password carries a marker that names the pool its owner *)
(* came from.  A login that proves the pool's password adopts it: hash and *)
(* marker change in one write.  Rows come from the bulk import, from the   *)
(* lookup of any request while dual-read is on, or from a registration.    *)
(* The limiter is MigrationLimiter's business: here it may refuse at will. *)
(***************************************************************************)
EXTENDS Naturals, Sequences

CONSTANTS
  Person,        \* normalised addresses
  Request,       \* requests that look a person up, each in its environment
  Password, EmptyPassword, NoPassword,
  PoolPassword,  \* [Person -> what the pool accepts, NoPassword: not in it]
  FromElsewhere, \* the persons imported earlier from another pool
  Pages, NoEmail,\* the pool's listing; NoEmail is a record without an address
  DualRead,      \* stores.migration.mode is dual-read
  RecordsFail,   \* writes of the import may fail other than by an interrupt
  MaxRows, MaxRuns

ASSUME MigrationAssumption ==
  /\ NoPassword \notin Password /\ EmptyPassword \notin Password
  /\ NoPassword # EmptyPassword /\ NoEmail \notin Person
  /\ PoolPassword \in [Person -> Password \cup {NoPassword}]
  /\ FromElsewhere \subseteq Person
  /\ Pages \in Seq(Seq(Person \cup {NoEmail})) /\ Len(Pages) > 0
  /\ {DualRead, RecordsFail} \subseteq BOOLEAN
  /\ MaxRows \in Nat /\ MaxRuns \in Nat
  /\ Person # {} /\ (FromElsewhere # {} => MaxRows > 0)

VARIABLES
  row,      \* a person's EMAIL# item and profile: id, passwordHash, migration
  rows,     \* how many ids were handed out
  req,      \* what each request is doing
  import,   \* cmd/migrate
  chosen,   \* history: the password set last by other means than adoption
  origin,   \* history: the pool each person's row was created from
  hist      \* history: what was true of the password each request presents

vars == <<row, rows, req, import, chosen, origin, hist>>

Marker == {"none", "here", "elsewhere"}

(* An id of 0 is an item that is not there. *)
Row == [id: 0..MaxRows, hash: Password \cup {NoPassword}, marker: Marker]
NoRow == [id |-> 0, hash |-> NoPassword, marker |-> "none"]

Active == {"pointer", "profile", "source", "create", "signup", "verify",
           "adopt", "reset"}

(* filed is the request's migration scope: a marker under a user id.       *)
RequestState ==
  [pc: Active \cup {"idle", "in", "refused", "failed", "done", "gone"},
   op: {"login", "register", "forgot"}, who: Person,
   word: Password \cup {EmptyPassword}, dual: BOOLEAN, id: 0..MaxRows,
   filed: [id: 0..MaxRows, marker: Marker]]

Nothing == [id |-> 0, marker |-> "none"]

(* History: whole, the run began at the beginning, or went on where such a *)
(* one ended with nothing failed; arrived, who was met since.              *)
Import ==
  [pc: {"off", "listing", "records", "interrupted", "stopped", "complete",
        "incomplete"},
   page: 1..Len(Pages), at: Nat \ {0}, resume: 1..Len(Pages),
   cancelled: BOOLEAN, failed: BOOLEAN, runs: 0..MaxRuns,
   whole: BOOLEAN, arrived: SUBSET Person]

(* always, ever: the password presented was acceptable throughout, or once; *)
(* late: a password was chosen after the request read the profile.          *)
History == [always: BOOLEAN, ever: BOOLEAN, late: BOOLEAN]

TypeOK ==
  /\ row \in [Person -> Row]
  /\ rows \in 0..MaxRows
  /\ req \in [Request -> RequestState]
  /\ import \in Import
  /\ chosen \in [Person -> Password \cup {NoPassword}]
  /\ origin \in [Person -> Marker]
  /\ hist \in [Request -> History]

Exists(p) == row[p].id # 0

-----------------------------------------------------------------------------
(* The three writes of a row that the migration knows.                     *)

(* createUser builds the item; a zero marker writes no attribute.          *)
NewRow(id, hash, marker) == [id |-> id, hash |-> hash, marker |-> marker]

(* Mutant: the put of the address is not conditional. *)
Overwritable(p) == rows < MaxRows

(* attribute_not_exists(PK) on the profile and on the EMAIL# item.         *)
Creatable(p) == ~Exists(p) /\ rows < MaxRows

createUser(p, hash, marker) ==
  /\ Creatable(p)
  /\ rows' = rows + 1
  /\ row' = [row EXCEPT ![p] = NewRow(rows + 1, hash, marker)]
  /\ origin' = [origin EXCEPT ![p] = marker]

(* SET passwordHash REMOVE migration, in one UpdateItem. *)
Settled(r, hash) == [r EXCEPT !.hash = hash, !.marker = "none"]

-----------------------------------------------------------------------------
(* A request asks for a person: to log in, to register, or for the link of *)
(* a forgotten password (the link's token is SingleUseTokens' business).   *)
InitRequest ==
  [pc |-> "idle", op |-> "login", who |-> CHOOSE p \in Person : TRUE,
   word |-> EmptyPassword, dual |-> FALSE, id |-> 0, filed |-> Nothing]

(* A request that was answered keeps nothing but what was asked of it.     *)
Become(r, state) ==
  req' = [req EXCEPT ![r] =
    CASE state.pc \in Active -> state
      [] state.pc \in {"in", "refused"} ->
           [state EXCEPT !.dual = FALSE, !.id = 0, !.filed = Nothing]
      [] OTHER -> [InitRequest EXCEPT !.pc = state.pc]]

Quiet == UNCHANGED <<row, rows, import, chosen, origin>>

Start(r, op, p, w) ==
  /\ req[r].pc = "idle"
  /\ w = EmptyPassword => op = "login"
  /\ Become(r, [pc |-> "pointer", op |-> op, who |-> p, word |-> w,
                dual |-> DualRead, id |-> 0, filed |-> Nothing])
  /\ Quiet

(* The lookup missed for good: only a registration has a use for that.     *)
Miss(r) ==
  Become(r, [req[r] EXCEPT !.dual = FALSE,
    !.pc = IF req[r].op = "register" THEN "signup" ELSE "refused"])

(* A local miss falls through to the pool once, if dual-read is on.        *)
LocalMiss(r) ==
  IF req[r].dual THEN Become(r, [req[r] EXCEPT !.pc = "source"]) ELSE Miss(r)

(* Mutant: a created row leaves nothing in the scope. *)
FiledByReads(r, found) == req[r].filed

(* recordMigrationMarker: one slot, which the last profile read fills.     *)
Filed(r, found) == [id |-> found.id, marker |-> found.marker]

(* The lookup answers a user, whose password a login then compares.        *)
Hit(r, found, filed) ==
  Become(r, [req[r] EXCEPT !.dual = FALSE, !.id = found.id, !.filed = filed,
    !.pc = CASE req[r].op = "register" -> "refused"
             [] req[r].op = "forgot"   -> "reset"
             [] req[r].op = "login" /\ found.hash = req[r].word -> "in"
             [] OTHER -> "verify"])

(* GetUserByEmail's two reads. *)
ReadPointer(r) ==
  /\ req[r].pc = "pointer"
  /\ IF Exists(req[r].who)
       THEN Become(r, [req[r] EXCEPT !.pc = "profile", !.id = row[req[r].who].id])
       ELSE LocalMiss(r)
  /\ Quiet

ReadProfile(r) ==
  LET found == row[req[r].who] IN
  /\ req[r].pc = "profile"
  /\ IF found.id = req[r].id THEN Hit(r, found, [id |-> found.id, marker |-> found.marker])
                             ELSE LocalMiss(r)
  /\ Quiet

(* AdminGetUser finds the person. *)
InPool(p) == PoolPassword[p] # NoPassword

(* provisionFromSource: the budget, then the pool. *)
GetUser(r) ==
  /\ req[r].pc = "source"
  /\ IF InPool(req[r].who)
       THEN Become(r, [req[r] EXCEPT !.pc = "create"]) ELSE Miss(r)
  /\ Quiet

(* Over budget, no answer of the pool, or a record that does not map: the  *)
(* lookup stays a miss.                                                    *)
SourceUnavailable(r) == req[r].pc = "source" /\ Miss(r) /\ Quiet

(* What CreateMigratedUser writes, whether or not its answer arrives.      *)
Provisioned(r) ==
  createUser(req[r].who, NoPassword, "here") /\ UNCHANGED <<import, chosen>>

(* The row is created marked; if another environment or the import was     *)
(* first, its row is read back.                                            *)
CreateMigratedUser(r) ==
  /\ req[r].pc = "create"
  /\ \/ /\ Provisioned(r)
        /\ Hit(r, row'[req[r].who], Filed(r, row'[req[r].who]))
     \/ /\ Exists(req[r].who)
        /\ Become(r, [req[r] EXCEPT !.pc = "pointer", !.dual = FALSE])
        /\ Quiet

(* The create fails, or lands unheard: the answer is the original miss.    *)
CreateMigratedUserFails(r) ==
  /\ req[r].pc = "create"
  /\ Miss(r)
  /\ Provisioned(r) \/ Quiet

(* The lookup under way is the winner's row being read back.               *)
ReadingBack(r) == DualRead /\ ~req[r].dual

(* A read of the table fails.  Reading the winner's row back, the original *)
(* miss is the answer; else the failure is, in which a login sees wrong    *)
(* credentials.                                                            *)
LookupFails(r) ==
  /\ req[r].pc \in {"pointer", "profile"}
  /\ IF ReadingBack(r) THEN Miss(r)
     ELSE Become(r, [req[r] EXCEPT
            !.pc = IF req[r].op = "register" THEN "failed" ELSE "refused"])
  /\ Quiet

-----------------------------------------------------------------------------
(* PasswordVerifier.  The marker is taken from the scope first.            *)

(* Mutant: any marker will do. *)
MatchesAny(r) == req[r].filed.id = req[r].id /\ req[r].filed.marker # "none"

(* SourceRef.Matches of the marker filed for this user on this request.    *)
Matches(r) == req[r].filed.id = req[r].id /\ req[r].filed.marker = "here"

MayAsk(r) == req[r].pc = "verify" /\ Matches(r) /\ req[r].word # EmptyPassword

Taken(r, pc) == Become(r, [req[r] EXCEPT !.pc = pc, !.filed = Nothing])

RefuseUnasked(r) ==
  /\ req[r].pc = "verify" /\ ~MayAsk(r)
  /\ Taken(r, "refused")
  /\ Quiet

(* What the pool says of a person's password, after mapError.              *)
Refusal == {"rejected", "notFound", "notConfirmed", "resetRequired", "challenge"}
Silence == {"throttled", "clientHasSecret", "unavailable"}

(* The answers of a pool that is well: AdminInitiateAuth's tokens, or none.*)
Honest(r) ==
  IF PoolPassword[req[r].who] = req[r].word THEN {"accepted"}
  ELSE IF PoolPassword[req[r].who] = NoPassword THEN {"notFound"} ELSE {"rejected"}

(* Mutant: every answer that is not a failure is taken for a yes. *)
VerdictOfAnswer(answer) == IF answer \in Silence THEN "failed" ELSE "adopt"

(* A refusal is a wrong password, silence is a 500. *)
Verdict(answer) ==
  CASE answer = "accepted" -> "adopt"
    [] answer \in Refusal -> "refused"
    [] OTHER -> "failed"

VerifyPassword(r) ==
  /\ MayAsk(r)
  /\ \E answer \in Honest(r) : Taken(r, Verdict(answer))
  /\ Quiet

(* The pool has another reason to refuse, or does not answer.              *)
VerifyElsewise(r) ==
  /\ MayAsk(r)
  /\ \E answer \in (Refusal \ {"rejected", "notFound"}) \cup Silence :
       Taken(r, Verdict(answer))
  /\ Quiet

(* The pool is not asked over budget, and the answer is a refusal.         *)
OverBudget(r) == MayAsk(r) /\ Taken(r, "refused") /\ Quiet

(* What UpdatePassword writes; only the reset of a password chooses one.   *)
PasswordSet(r) ==
  LET p == req[r].who IN
  /\ row[p].id = req[r].id
  /\ row' = [row EXCEPT ![p] = Settled(row[p], req[r].word)]
  /\ chosen' = IF req[r].pc = "reset" THEN [chosen EXCEPT ![p] = req[r].word]
                                     ELSE chosen
  /\ UNCHANGED <<rows, import, origin>>

(* UpdatePassword, of an adoption or a reset: the row need only be there.  *)
UpdatePassword(r) ==
  /\ req[r].pc \in {"adopt", "reset"}
  /\ \/ /\ PasswordSet(r)
        /\ Become(r, [req[r] EXCEPT !.pc = IF req[r].pc = "reset" THEN "done" ELSE "in"])
     \/ /\ row[req[r].who].id # req[r].id
        /\ Become(r, [req[r] EXCEPT !.pc = "failed"])
        /\ Quiet

(* What CreateUser writes. *)
SignedUp(r) ==
  /\ createUser(req[r].who, req[r].word, "none")
  /\ chosen' = [chosen EXCEPT ![req[r].who] = req[r].word]
  /\ UNCHANGED import

(* CreateUser of a registration whose lookup missed. *)
CreateUser(r) ==
  /\ req[r].pc = "signup"
  /\ \/ SignedUp(r) /\ Become(r, [req[r] EXCEPT !.pc = "done"])
     \/ /\ Exists(req[r].who)
        /\ Become(r, [req[r] EXCEPT !.pc = "refused"])
        /\ Quiet

(* Either write fails, or lands unheard, and is answered as a failure.     *)
WriteFails(r) ==
  /\ \/ req[r].pc \in {"adopt", "reset"} /\ (PasswordSet(r) \/ Quiet)
     \/ req[r].pc = "signup" /\ (SignedUp(r) \/ Quiet)
  /\ Become(r, [req[r] EXCEPT !.pc = "failed"])

(* The invocation ends before it answers. *)
Abandon(r) ==
  /\ req[r].pc \in Active
  /\ Become(r, [req[r] EXCEPT !.pc = "gone"])
  /\ Quiet

(* Both items go; that they go one by one is the business of Emails.       *)
DeleteUser(p) ==
  /\ Exists(p)
  /\ row' = [row EXCEPT ![p] = NoRow]
  /\ chosen' = [chosen EXCEPT ![p] = NoPassword]
  /\ origin' = [origin EXCEPT ![p] = "none"]
  /\ UNCHANGED <<rows, req, import>>

-----------------------------------------------------------------------------
(* cmd/migrate: page by page, record by record.                            *)
Importing == import.pc \in {"listing", "records"}

ImportStep == UNCHANGED <<req, chosen>>
Unwritten == UNCHANGED <<row, rows, origin>>

(* A run from the beginning, or from the token that an interrupted or      *)
(* stopped run printed (the first page's token is empty and not printed).  *)
StartImport(from) ==
  /\ ~Importing /\ import.runs < MaxRuns
  /\ \/ from = 1
     \/ import.pc \in {"interrupted", "stopped"} /\ from = import.resume
  /\ import' = [import EXCEPT !.pc = "listing", !.page = from, !.resume = from,
       !.cancelled = FALSE, !.failed = FALSE, !.runs = import.runs + 1,
       !.whole = from = 1 \/ (import.whole /\ ~import.failed),
       !.arrived = IF from = 1 THEN {} ELSE import.arrived]
  /\ ImportStep /\ Unwritten

(* An interrupt is noticed before a page is asked for.                     *)
NoticeInterrupt ==
  /\ import.pc = "listing" /\ import.cancelled
  /\ import' = [import EXCEPT !.pc = "interrupted"]
  /\ ImportStep /\ Unwritten

ListUsers ==
  /\ import.pc = "listing" /\ ~import.cancelled
  /\ \/ import' = [import EXCEPT !.pc = "records", !.at = 1]
     \/ import' = [import EXCEPT !.pc = "stopped"]
  /\ ImportStep /\ Unwritten

Record == Pages[import.page][import.at]
RecordLeft == import.pc = "records" /\ import.at <= Len(Pages[import.page])

(* importUser: created marked, or already there and skipped.               *)
ImportUser ==
  /\ RecordLeft /\ ~import.cancelled
  /\ Record # NoEmail
  /\ \/ createUser(Record, NoPassword, "here")
     \/ Exists(Record) /\ Unwritten
  /\ import' = [import EXCEPT !.at = import.at + 1,
                              !.arrived = import.arrived \cup {Record}]
  /\ ImportStep

(* Mutant: what the interrupt cut off is not counted among the failures.   *)
InterruptedUncounted ==
  /\ RecordLeft
  /\ Record = NoEmail \/ import.cancelled \/ RecordsFail
  /\ \/ Unwritten
     \/ Record # NoEmail /\ createUser(Record, NoPassword, "here")
  /\ import' = [import EXCEPT !.at = import.at + 1,
                              !.failed = import.failed \/ ~import.cancelled]
  /\ ImportStep

(* No address, or a write that fails, as every write does once interrupted;*)
(* it may have landed all the same.                                        *)
RecordFails ==
  /\ RecordLeft
  /\ Record = NoEmail \/ import.cancelled \/ RecordsFail
  /\ \/ Unwritten
     \/ Record # NoEmail /\ createUser(Record, NoPassword, "here")
  /\ import' = [import EXCEPT !.at = import.at + 1, !.failed = TRUE]
  /\ ImportStep

(* Mutant: the last page's end is taken for the end of the whole listing.  *)
EndsEarly(page) == page > 0

LastPage(page) == page = Len(Pages)

EndPage ==
  /\ import.pc = "records" /\ ~RecordLeft
  /\ import' =
       IF LastPage(import.page)
         THEN [import EXCEPT !.pc = IF import.failed THEN "incomplete" ELSE "complete"]
         ELSE [import EXCEPT !.pc = "listing", !.page = import.page + 1,
                             !.resume = import.page + 1]
  /\ ImportStep /\ Unwritten

(* SIGINT or SIGTERM. *)
Interrupt ==
  /\ Importing /\ ~import.cancelled
  /\ import' = [import EXCEPT !.cancelled = TRUE]
  /\ ImportStep /\ Unwritten

-----------------------------------------------------------------------------
Acceptable(rs, p, w) ==
  /\ w # EmptyPassword
  /\ IF rs[p].id = 0 THEN DualRead /\ PoolPassword[p] = w
     ELSE \/ rs[p].hash = w
          \/ rs[p].marker = "here" /\ PoolPassword[p] = w

Untried == [always |-> TRUE, ever |-> FALSE, late |-> FALSE]

(* What a step does to the history of each request; spoiled holds the      *)
(* requests it hindered.                                                   *)
Observe(spoiled) ==
  hist' = [r \in Request |->
    IF req'[r].pc \in {"idle", "failed", "done", "gone"} THEN Untried
    ELSE IF req[r].pc \in {"in", "refused"} THEN hist[r] ELSE
    LET p == req'[r].who
        ok == Acceptable(row', p, req'[r].word) IN
    [always |-> /\ hist[r].always /\ ok /\ r \notin spoiled
                /\ ~(row[p].id # 0 /\ row'[p].id = 0),
     ever |-> hist[r].ever \/ Acceptable(row, p, req'[r].word),
     late |-> /\ req'[r].pc \in {"verify", "adopt"}
              /\ hist[r].late \/ (chosen'[p] # chosen[p] /\ req[r].pc \in {"verify", "adopt"})]]

Init ==
  /\ row = [p \in Person |-> IF p \in FromElsewhere
              THEN [id |-> 1, hash |-> NoPassword, marker |-> "elsewhere"] ELSE NoRow]
  /\ rows = IF FromElsewhere = {} THEN 0 ELSE 1
  /\ req = [r \in Request |-> InitRequest]
  /\ import = [pc |-> "off", page |-> 1, at |-> 1, resume |-> 1,
               cancelled |-> FALSE, failed |-> FALSE, runs |-> 0,
               whole |-> TRUE, arrived |-> {}]
  /\ chosen = [p \in Person |-> NoPassword]
  /\ origin = [p \in Person |-> row[p].marker]
  /\ hist = [r \in Request |-> Untried]

RequestNext(r) ==
  \/ /\ \/ \E op \in {"login", "register", "forgot"}, p \in Person,
             w \in Password \cup {EmptyPassword} : Start(r, op, p, w)
        \/ ReadPointer(r)
        \/ ReadProfile(r)
        \/ GetUser(r)
        \/ CreateMigratedUser(r)
        \/ RefuseUnasked(r)
        \/ VerifyPassword(r)
        \/ UpdatePassword(r)
        \/ CreateUser(r)
     /\ Observe({})
  \/ /\ \/ SourceUnavailable(r)
        \/ VerifyElsewise(r)
        \/ OverBudget(r)
        \/ CreateMigratedUserFails(r)
        \/ LookupFails(r)
        \/ WriteFails(r)
        \/ Abandon(r)
     /\ Observe({r})

ImportNext ==
  /\ \/ \E from \in 1..Len(Pages) : StartImport(from)
     \/ NoticeInterrupt
     \/ ListUsers
     \/ ImportUser
     \/ RecordFails
     \/ EndPage
     \/ Interrupt
  /\ Observe({})

Next ==
  \/ \E r \in Request : RequestNext(r)
  \/ ImportNext
  \/ \E p \in Person : DeleteUser(p) /\ Observe({})

Spec == Init /\ [][Next]_vars

-----------------------------------------------------------------------------
(* A login refused was not entitled to come in: at some moment while it    *)
(* ran, its password was not the account's nor, for an account still in    *)
(* migration, the pool's, or the account was deleted, or the pool, its     *)
(* budget or a call of the table failed it.  Whoever creates the row, and  *)
(* in whatever order.                                                      *)
RightPasswordGetsIn ==
  \A r \in Request :
    req[r].op = "login" /\ req[r].pc = "refused" => ~hist[r].always

(* A login let in presented a password that was the account's, or the      *)
(* pool's for an account in migration, at some moment while it ran.        *)
WrongPasswordStaysOut ==
  \A r \in Request : req[r].op = "login" /\ req[r].pc = "in" => hist[r].ever

(* A pool is sent passwords only for accounts that came from it, and that  *)
(* had no password of their own when the request read the profile.         *)
PoolHearsOnlyOfItsOwn ==
  \A r \in Request :
    req[r].pc = "adopt" \/ MayAsk(r) =>
      \/ row[req[r].who].id # req[r].id
      \/ /\ origin[req[r].who] = "here"
         /\ chosen[req[r].who] # NoPassword => hist[r].late

(* An account that has a password keeps one: neither import, dual-read nor *)
(* a registration rewrites a row, however often the import is repeated.    *)
PasswordsAreKept ==
  [][\A p \in Person :
       row[p].hash # NoPassword /\ Exists(p)' =>
         row'[p].id = row[p].id /\ row'[p].hash # NoPassword]_vars

(* An import that exits 0 has met every person of the pool, be it one run, *)
(* or runs of which each but the last ended between two pages with nothing *)
(* failed, resumed where the one before stopped (cmd/migrate/main.go:      *)
(* "Re-running the whole command is therefore always safe, and is the      *)
(* recommended way to recover from anything").                             *)
CompleteMeansEveryone ==
  import.pc = "complete" /\ import.whole =>
    \A i \in 1..Len(Pages) : \A j \in 1..Len(Pages[i]) :
      Pages[i][j] \in import.arrived

(* The token an interrupted run prints skips no record of the pages before *)
(* it (cmd/migrate/cognito.go: "printing the token of a page that was only *)
(* half written would skip the other half").  False of the code.           *)
ResumeSkipsNothing ==
  import.pc = "interrupted" /\ import.whole =>
    \A i \in 1..(import.resume - 1) : \A j \in 1..Len(Pages[i]) :
      Pages[i][j] \in import.arrived \cup {NoEmail}

(* A password chosen here outlives the adoption of the pool's (tokens.go:  *)
(* "the old directory has nothing left to say about it").  False of the    *)
(* code: an adoption under way when the password is chosen overwrites it.  *)
ChosenPasswordStays ==
  \A p \in Person : chosen[p] # NoPassword => row[p].hash = chosen[p]
=============================================================================

---------------------------- MODULE EmailsProofs -----------------------------
(***************************************************************************)
(* What holds of addresses for any number of users, confirmations and      *)
(* deletions, whoever moves or is deleted, and however often: no address   *)
(* is held in vain but by who moved while being deleted; and the items     *)
(* implement the directory, from which a user drops out by being robbed,   *)
(* of which only an overtaken user is capable.                             *)
(***************************************************************************)
EXTENDS Emails, TLAPS

-----------------------------------------------------------------------------
(* What is known of a request at its stage.                                *)
Known ==
  /\ \A u \in User : Exists(u) => profile[u].email \in Email
  /\ \A t \in Token : asked[t].user \in Changeable \cup {NoUser}
  /\ \A c \in Confirmation :
       /\ conf[c].pc \in {"consume", "read", "apply", "clear"}
            => conf[c].user \in Changeable
       /\ conf[c].pc = "apply"
            => conf[c].old \in Email /\ conf[c].new \in Email
                 /\ conf[c].old # conf[c].new
  /\ \A d \in Deletion :
       /\ del[d].pc \in {"idle", "sweeping"} <=> del[d].answer = "none"
       /\ del[d].pc # "sweeping" => del[d].todo = {}
       /\ del[d].pc = "sweeping" => del[d].email \in Email

Typed == TypeOK /\ Known

(* A step does one of these to who has which address.                      *)
Keeps ==
  /\ UNCHANGED <<emailItem, del, moved, robbed>>
  /\ \A u \in User : /\ profile'[u].state = profile[u].state
                     /\ profile'[u].email = profile[u].email

Registers(u, e) ==
  /\ NewId(u) /\ Available(e)
  /\ profile'[u].state = "present" /\ profile'[u].email = e
  /\ \A v \in User \ {u} : profile'[v] = profile[v]
  /\ emailItem' = [emailItem EXCEPT ![e] = u]
  /\ UNCHANGED <<del, moved, robbed>>

Moves(u, e) ==
  /\ u \in Changeable /\ Exists(u) /\ Available(e) /\ profile[u].email # e
  /\ profile'[u].state = "present" /\ profile'[u].email = e
  /\ \A v \in User \ {u} : profile'[v] = profile[v]
  /\ emailItem' = Moved(u, profile[u].email, e)
  /\ moved' = IF Doomed(u) THEN moved \cup {u} ELSE moved
  /\ Removes(u, profile[u].email)
  /\ del' = del

Begins(d) ==
  /\ del[d].pc = "idle" /\ Exists(Target[d])
  /\ Deleting(d, [pc |-> "sweeping", todo |-> {"profile", "email"},
                  email |-> profile[Target[d]].email, answer |-> "none"])
  /\ UNCHANGED <<profile, emailItem, moved, robbed>>

Misses(d) ==
  /\ del[d].pc = "idle" /\ ~Exists(Target[d])
  /\ Deleting(d, [del[d] EXCEPT !.pc = "done", !.answer = "notFound"])
  /\ UNCHANGED <<profile, emailItem, moved, robbed>>

LEMMA TypedInit == Init => Typed
BY NamesAssumption
   DEF Init, Typed, TypeOK, Known, Profile, NoProfile, ConfState, DelState, Ask, Exists

LEMMA TypedFacts ==
  ASSUME Typed
  PROVE  /\ profile \in [User -> Profile]
         /\ emailItem \in [Email -> User \cup {NoUser}]
         /\ conf \in [Confirmation -> ConfState]
         /\ del \in [Deletion -> DelState]
         /\ asked \in [Token -> Ask]
         /\ moved \subseteq User /\ robbed \subseteq User
         /\ NoProfile \in Profile
         /\ Changeable \subseteq User /\ NoUser \notin User /\ NoEmail \notin Email
         /\ NoToken \notin Token
         /\ \A d \in Deletion : Target[d] \in User
         /\ Known
BY NamesAssumption DEF Typed, TypeOK, Profile, NoProfile

(* A confirmation goes on, and with it its profile at most.                *)
LEMMA ConfirmationStep ==
  ASSUME Typed, NEW c \in Confirmation, NEW st \in ConfState, Confirming(c, st),
         st.pc \in {"consume", "read", "apply", "clear"} => st.user \in Changeable,
         st.pc = "apply" => st.old \in Email /\ st.new \in Email /\ st.old # st.new,
         profile' \in [User -> Profile],
         \A u \in User : Exists(u)' => profile'[u].email \in Email,
         emailItem' \in [Email -> User \cup {NoUser}],
         moved' \subseteq User, robbed' \subseteq User,
         UNCHANGED <<del, asked>>
  PROVE  Typed'
<1>1. /\ conf' \in [Confirmation -> ConfState] /\ conf'[c] = st
      /\ \A x \in Confirmation : x # c => conf'[x] = conf[x]
  BY TypedFacts DEF Confirming
<1>2. TypeOK'
  BY <1>1, TypedFacts DEF TypeOK
<1>3. Known'
  <2>1. ASSUME NEW x \in Confirmation
        PROVE  /\ conf'[x].pc \in {"consume", "read", "apply", "clear"}
                    => conf'[x].user \in Changeable
               /\ conf'[x].pc = "apply"
                    => conf'[x].old \in Email /\ conf'[x].new \in Email
                         /\ conf'[x].old # conf'[x].new
    BY <1>1, TypedFacts DEF Known
  <2> QED BY <2>1, TypedFacts DEF Known
<1> QED BY <1>2, <1>3 DEF Typed

(* A deletion goes on.                                                     *)
LEMMA DeletionStep ==
  ASSUME Typed, NEW d \in Deletion, NEW st \in DelState, Deleting(d, st),
         st.pc \in {"idle", "sweeping"} <=> st.answer = "none",
         st.pc # "sweeping" => st.todo = {},
         st.pc = "sweeping" => st.email \in Email,
         profile' \in [User -> Profile],
         \A u \in User : Exists(u)' => profile'[u].email \in Email,
         emailItem' \in [Email -> User \cup {NoUser}],
         moved' \subseteq User, robbed' \subseteq User,
         UNCHANGED <<conf, asked>>
  PROVE  /\ Typed'
         /\ del'[d] = st
         /\ \A x \in Deletion : x # d => del'[x] = del[x]
<1>1. /\ del' \in [Deletion -> DelState] /\ del'[d] = st
      /\ \A x \in Deletion : x # d => del'[x] = del[x]
  BY TypedFacts DEF Deleting
<1>2. TypeOK'
  BY <1>1, TypedFacts DEF TypeOK
<1>3. Known'
  <2>1. ASSUME NEW x \in Deletion
        PROVE  /\ del'[x].pc \in {"idle", "sweeping"} <=> del'[x].answer = "none"
               /\ del'[x].pc # "sweeping" => del'[x].todo = {}
               /\ del'[x].pc = "sweeping" => del'[x].email \in Email
    BY <1>1, TypedFacts DEF Known
  <2> QED BY <2>1, TypedFacts DEF Known
<1> QED BY <1>1, <1>2, <1>3 DEF Typed
-----------------------------------------------------------------------------
(* The actions: each keeps the types, and does to the addresses one of the *)
(* above or is a step of a deletion.                                       *)
Steps ==
  \/ Keeps
  \/ \E u \in User, e \in Email : Registers(u, e) \/ Moves(u, e)
  \/ \E d \in Deletion :
       Begins(d) \/ Misses(d) \/ deleteProfile(d) \/ deleteEmail(d)
         \/ FinishDeletion(d) \/ FailDeletion(d)

(* A profile changes, to that of the same address.                         *)
LEMMA ProfileKept ==
  ASSUME Typed, NEW u \in User, NEW p \in Profile, profile' = [profile EXCEPT ![u] = p],
         p.state = profile[u].state, p.email = profile[u].email
  PROVE  /\ profile' \in [User -> Profile]
         /\ \A v \in User : /\ profile'[v].state = profile[v].state
                            /\ profile'[v].email = profile[v].email
                            /\ Exists(v)' => profile'[v].email \in Email
<1>1. /\ profile' \in [User -> Profile] /\ profile'[u] = p
      /\ \A v \in User : v # u => profile'[v] = profile[v]
  BY TypedFacts
<1>2. ASSUME NEW v \in User
      PROVE  profile'[v].state = profile[v].state /\ profile'[v].email = profile[v].email
  BY <1>1
<1> QED BY <1>1, <1>2, TypedFacts DEF Known, Exists

LEMMA ConfFacts ==
  ASSUME Typed, NEW c \in Confirmation
  PROVE  /\ conf[c] \in ConfState
         /\ \A a \in {"none", "applied", "invalid", "notFound", "noPending", "exists"} :
              LET st == [conf[c] EXCEPT !.pc = "done", !.answer = a]
              IN st \in ConfState /\ st.pc = "done"
         /\ conf[c].answer
              \in {"none", "applied", "invalid", "notFound", "noPending", "exists"}
BY TypedFacts DEF ConfState

(* Whoever answers leaves the profile and the address alone, or clears.    *)
LEMMA AnswerStep ==
  ASSUME Typed, NEW c \in Confirmation,
         NEW a \in {"none", "applied", "invalid", "notFound", "noPending", "exists"},
         AnswerConf(c, a), UNCHANGED <<emailItem, del, asked, moved, robbed>>,
         profile' \in [User -> Profile],
         \A v \in User : /\ profile'[v].state = profile[v].state
                         /\ profile'[v].email = profile[v].email
                         /\ Exists(v)' => profile'[v].email \in Email
  PROVE  Typed' /\ Steps
<1> DEFINE st == [conf[c] EXCEPT !.pc = "done", !.answer = a]
<1>1. Confirming(c, st) /\ st \in ConfState /\ st.pc = "done"
  BY ConfFacts DEF AnswerConf
<1> HIDE DEF st
<1>2. emailItem' \in [Email -> User \cup {NoUser}]
  BY TypedFacts
<1>3. Typed'
  BY <1>1, <1>2, TypedFacts, ConfirmationStep
<1>4. Keeps
  BY DEF Keeps
<1> QED BY <1>3, <1>4 DEF Steps

LEMMA ProfileStays ==
  ASSUME Typed, profile' = profile
  PROVE  /\ profile' \in [User -> Profile]
         /\ \A v \in User : /\ profile'[v].state = profile[v].state
                            /\ profile'[v].email = profile[v].email
                            /\ Exists(v)' => profile'[v].email \in Email
BY TypedFacts DEF Known, Exists

LEMMA CreateUserStep ==
  ASSUME Typed, NEW u \in User, NEW e \in Email, CreateUser(u, e)
  PROVE  Typed' /\ Steps
<1> DEFINE p == [state |-> "present", email |-> e, pending |-> NoEmail, token |-> NoToken]
<1>1. p \in Profile /\ p.state = "present" /\ p.email = e
  BY DEF Profile
<1>2. /\ NewId(u) /\ Available(e) /\ profile' = [profile EXCEPT ![u] = p]
      /\ emailItem' = [emailItem EXCEPT ![e] = u] /\ UNCHANGED <<conf, del, asked, moved, robbed>>
  BY DEF CreateUser
<1> HIDE DEF p
<1>3. /\ profile' \in [User -> Profile] /\ profile'[u] = p
      /\ \A v \in User : v # u => profile'[v] = profile[v]
      /\ emailItem' \in [Email -> User \cup {NoUser}]
  BY <1>1, <1>2, TypedFacts
<1>4. TypeOK'
  BY <1>2, <1>3, TypedFacts DEF TypeOK
<1>5. Known'
  <2>1. \A v \in User : Exists(v)' => profile'[v].email \in Email
    BY <1>1, <1>3, TypedFacts DEF Known, Exists
  <2> QED BY <1>2, <2>1, TypedFacts DEF Known
<1>6. Registers(u, e)
  BY <1>1, <1>2, <1>3 DEF Registers
<1> QED BY <1>4, <1>5, <1>6 DEF Typed, Steps

LEMMA AskStep ==
  ASSUME Typed, NEW u \in User, NEW e \in Email, NEW t \in Token,
         UpdateEmailChangeToken(u, e, t)
  PROVE  Typed' /\ Steps
<1> DEFINE p == [profile[u] EXCEPT !.token = t, !.pending = e]
<1>1. p \in Profile /\ p.state = profile[u].state /\ p.email = profile[u].email
  BY TypedFacts DEF Profile
<1>2. /\ u \in Changeable /\ profile' = [profile EXCEPT ![u] = p]
      /\ asked' = [asked EXCEPT ![t] = [user |-> u, email |-> e]]
      /\ UNCHANGED <<emailItem, conf, del, moved, robbed>>
  BY DEF UpdateEmailChangeToken
<1> HIDE DEF p
<1>3. /\ profile' \in [User -> Profile]
      /\ \A v \in User : /\ profile'[v].state = profile[v].state
                         /\ profile'[v].email = profile[v].email
                         /\ Exists(v)' => profile'[v].email \in Email
  BY <1>1, <1>2, ProfileKept
<1>4. /\ asked' \in [Token -> Ask]
      /\ \A x \in Token : asked'[x].user \in Changeable \cup {NoUser}
  <2>1. [user |-> u, email |-> e] \in Ask
    BY DEF Ask
  <2> QED BY <1>2, <2>1, TypedFacts DEF Known
<1>5. TypeOK'
  BY <1>2, <1>3, <1>4, TypedFacts DEF TypeOK
<1>6. Known'
  BY <1>2, <1>3, <1>4, TypedFacts DEF Known
<1>7. Keeps
  BY <1>2, <1>3 DEF Keeps
<1> QED BY <1>5, <1>6, <1>7 DEF Typed, Steps

LEMMA ConfirmStep ==
  ASSUME Typed, NEW c \in Confirmation, NEW t \in Token, Confirm(c, t)
  PROVE  Typed' /\ Steps
<1>t. conf[c] \in ConfState
  BY TypedFacts
<1> DEFINE st == [conf[c] EXCEPT !.pc = "consume", !.token = t, !.user = asked[t].user]
<1>1. asked[t].user \in Changeable /\ asked[t].user \in User
  BY TypedFacts DEF Known, Confirm
<1>2. st \in ConfState /\ st.pc = "consume" /\ st.user \in Changeable
  BY <1>t, <1>1 DEF ConfState
<1>3. Confirming(c, st) /\ UNCHANGED <<profile, emailItem, del, asked, moved, robbed>>
  BY DEF Confirm
<1> HIDE DEF st
<1>4. emailItem' \in [Email -> User \cup {NoUser}]
  BY <1>3, TypedFacts
<1>5. Typed'
  BY <1>2, <1>3, <1>4, ProfileStays, TypedFacts, ConfirmationStep
<1>6. Keeps
  BY <1>3 DEF Keeps
<1> QED BY <1>5, <1>6 DEF Steps

LEMMA ConsumeStep ==
  ASSUME Typed, NEW c \in Confirmation, ConsumeToken(c)
  PROVE  Typed' /\ Steps
<1>t. conf[c] \in ConfState
  BY TypedFacts
<1>a. UNCHANGED <<emailItem, del, asked, moved, robbed>> /\ conf[c].pc = "consume"
  BY DEF ConsumeToken
<1>1. CASE AnswerConf(c, "invalid") /\ UNCHANGED profile
  BY <1>a, <1>1, ProfileStays, AnswerStep
<1>2. ASSUME profile' = [profile EXCEPT ![conf[c].user] = [@ EXCEPT !.token = NoToken]],
             Confirming(c, [conf[c] EXCEPT !.pc = "read"])
      PROVE  Typed' /\ Steps
  <2> DEFINE st == [conf[c] EXCEPT !.pc = "read"]
             u  == conf[c].user
             p  == [profile[u] EXCEPT !.token = NoToken]
  <2>0. u \in Changeable /\ u \in User
    BY <1>a, TypedFacts DEF Known
  <2>1. st \in ConfState /\ st.pc = "read" /\ st.user = conf[c].user
    BY <1>t DEF ConfState
  <2>2. p \in Profile /\ p.state = profile[u].state /\ p.email = profile[u].email
    BY <2>0, TypedFacts DEF Profile
  <2>3. Confirming(c, st) /\ profile' = [profile EXCEPT ![u] = p]
    BY <1>2
  <2> HIDE DEF st, p
  <2>4. /\ profile' \in [User -> Profile]
        /\ \A v \in User : /\ profile'[v].state = profile[v].state
                           /\ profile'[v].email = profile[v].email
                           /\ Exists(v)' => profile'[v].email \in Email
    BY <2>0, <2>2, <2>3, ProfileKept
  <2>5. emailItem' \in [Email -> User \cup {NoUser}]
    BY <1>a, TypedFacts
  <2>6. Typed'
    BY <1>a, <2>0, <2>1, <2>3, <2>4, <2>5, TypedFacts, ConfirmationStep
  <2>7. Keeps
    BY <1>a, <2>4 DEF Keeps
  <2> QED BY <2>6, <2>7 DEF Steps
<1> QED BY <1>1, <1>2 DEF ConsumeToken

LEMMA ReadStep ==
  ASSUME Typed, NEW c \in Confirmation, ReadPending(c)
  PROVE  Typed' /\ Steps
<1>t. conf[c] \in ConfState
  BY TypedFacts
<1>a. UNCHANGED <<profile, emailItem, del, asked, moved, robbed>> /\ conf[c].pc = "read"
  BY DEF ReadPending
<1> DEFINE p == profile[conf[c].user]
<1>1. ASSUME NEW a \in {"notFound", "noPending", "exists"}, AnswerConf(c, a)
      PROVE  Typed' /\ Steps
  BY <1>a, <1>1, ProfileStays, AnswerStep
<1>2. ASSUME p.state = "present", p.pending \notin {NoEmail, p.email},
             Confirming(c, [conf[c] EXCEPT !.pc = "apply", !.old = p.email,
                                           !.new = p.pending])
      PROVE  Typed' /\ Steps
  <2> DEFINE st == [conf[c] EXCEPT !.pc = "apply", !.old = p.email, !.new = p.pending]
  <2>1. conf[c].user \in Changeable /\ conf[c].user \in User
    BY <1>a, TypedFacts DEF Known
  <2>2. p.email \in Email /\ p.pending \in Email
    BY <1>2, <2>1, TypedFacts DEF Known, Exists, Profile
  <2>3. /\ st \in ConfState /\ st.pc = "apply" /\ st.user = conf[c].user
        /\ st.old = p.email /\ st.new = p.pending
    BY <1>t, <2>2 DEF ConfState
  <2>4. Confirming(c, st)
    BY <1>2
  <2> HIDE DEF st, p
  <2>5. emailItem' \in [Email -> User \cup {NoUser}]
    BY <1>a, TypedFacts
  <2>6. st.old \in Email /\ st.new \in Email /\ st.old # st.new
    BY <1>2, <2>2, <2>3
  <2>7. Typed'
    BY <1>a, <2>1, <2>3, <2>4, <2>5, <2>6, ProfileStays, TypedFacts, ConfirmationStep
  <2>8. Keeps
    BY <1>a DEF Keeps
  <2> QED BY <2>7, <2>8 DEF Steps
<1> QED BY <1>1, <1>2 DEF ReadPending

LEMMA ApplyStep ==
  ASSUME Typed, NEW c \in Confirmation, ApplyEmailChange(c)
  PROVE  Typed' /\ Steps
<1>t. conf[c] \in ConfState
  BY TypedFacts
<1> DEFINE u   == conf[c].user
           old == conf[c].old
           new == conf[c].new
           p   == [profile[u] EXCEPT !.email = new, !.pending = NoEmail]
           st  == [conf[c] EXCEPT !.pc = "clear", !.answer = "applied"]
<1>1. /\ Available(new) /\ StillPending(c) /\ emailItem' = Moved(u, old, new)
      /\ profile' = [profile EXCEPT ![u] = p] /\ Confirming(c, st)
      /\ moved' = (IF Doomed(u) THEN moved \cup {u} ELSE moved) /\ Removes(u, old)
      /\ UNCHANGED <<del, asked>> /\ conf[c].pc = "apply"
  BY DEF ApplyEmailChange
<1>2. /\ u \in Changeable /\ u \in User
      /\ old \in Email /\ new \in Email /\ old # new
  BY <1>1, TypedFacts DEF Known
<1>3. /\ p \in Profile /\ p.email = new /\ p.state = "present"
      /\ profile[u].state = "present" /\ profile[u].email = old
  BY <1>1, <1>2, TypedFacts DEF Profile, StillPending
<1>4. st \in ConfState /\ st.pc = "clear" /\ st.user = u
  BY <1>t DEF ConfState
<1> HIDE DEF u, old, new, p, st
<1>5. /\ profile' \in [User -> Profile] /\ profile'[u] = p
      /\ \A v \in User : v # u => profile'[v] = profile[v]
  BY <1>1, <1>2, <1>3, TypedFacts
<1>6. emailItem' \in [Email -> User \cup {NoUser}]
  BY <1>1, <1>2, TypedFacts DEF Moved
<1>7. \A v \in User : Exists(v)' => profile'[v].email \in Email
  BY <1>2, <1>3, <1>5, TypedFacts DEF Known, Exists
<1>h. moved' \subseteq User /\ robbed' \subseteq User
  BY <1>1, <1>2, TypedFacts DEF Removes
<1>8. Typed'
  BY <1>1, <1>2, <1>4, <1>5, <1>6, <1>7, <1>h, TypedFacts, ConfirmationStep
<1>9. Moves(u, new)
  BY <1>1, <1>2, <1>3, <1>5 DEF Moves, Exists
<1> QED BY <1>2, <1>8, <1>9 DEF Steps

LEMMA RefuseStep ==
  ASSUME Typed, NEW c \in Confirmation, RefuseEmailChange(c)
  PROVE  Typed' /\ Steps
<1>1. PICK a \in {"exists", "invalid", "notFound"} : AnswerConf(c, a)
  BY DEF RefuseEmailChange
<1>2. UNCHANGED <<profile, emailItem, del, asked, moved, robbed>>
  BY DEF RefuseEmailChange
<1> QED BY <1>1, <1>2, ProfileStays, AnswerStep

LEMMA ClearStep ==
  ASSUME Typed, NEW c \in Confirmation, ClearEmailChangeToken(c)
  PROVE  Typed' /\ Steps
<1> DEFINE u == conf[c].user
           p == [profile[u] EXCEPT !.token = NoToken, !.pending = NoEmail]
<1>1. /\ AnswerConf(c, conf[c].answer) /\ UNCHANGED <<emailItem, del, asked, moved, robbed>>
      /\ conf[c].pc = "clear"
  BY DEF ClearEmailChangeToken
<1>2. u \in User
  BY <1>1, TypedFacts DEF Known
<1>3. p \in Profile /\ p.state = profile[u].state /\ p.email = profile[u].email
  BY <1>2, TypedFacts DEF Profile
<1>4. profile' = [profile EXCEPT ![u] = p] \/ profile' = profile
  BY DEF ClearEmailChangeToken
<1> HIDE DEF u, p
<1>5. /\ profile' \in [User -> Profile]
      /\ \A v \in User : /\ profile'[v].state = profile[v].state
                         /\ profile'[v].email = profile[v].email
                         /\ Exists(v)' => profile'[v].email \in Email
  BY <1>2, <1>3, <1>4, ProfileKept, ProfileStays
<1> QED BY <1>1, <1>5, ConfFacts, AnswerStep

LEMMA AbandonStep ==
  ASSUME Typed, NEW c \in Confirmation, AbandonConfirmation(c)
  PROVE  Typed' /\ Steps
<1>1. AnswerConf(c, conf[c].answer) /\ UNCHANGED <<profile, emailItem, del, asked, moved, robbed>>
  BY DEF AbandonConfirmation
<1> QED BY <1>1, ConfFacts, ProfileStays, AnswerStep
LEMMA DeleteUserStep ==
  ASSUME Typed, NEW d \in Deletion, DeleteUser(d)
  PROVE  Typed' /\ Steps
<1>a. UNCHANGED <<profile, emailItem, conf, asked, moved, robbed>> /\ del[d].pc = "idle"
  BY DEF DeleteUser
<1>b. emailItem' \in [Email -> User \cup {NoUser}] /\ Target[d] \in User
  BY <1>a, TypedFacts
<1>1. CASE Exists(Target[d])
  <2> DEFINE st == [pc |-> "sweeping", todo |-> {"profile", "email"},
                    email |-> profile[Target[d]].email, answer |-> "none"]
  <2>1. /\ st \in DelState /\ st.pc = "sweeping" /\ st.answer = "none"
        /\ st.email \in Email
    BY <1>b, <1>1, TypedFacts DEF DelState, Known
  <2>2. Deleting(d, st)
    BY <1>1 DEF DeleteUser
  <2>3. Begins(d)
    BY <1>a, <1>1 DEF Begins, DeleteUser
  <2> HIDE DEF st
  <2>4. Typed'
    BY <1>a, <1>b, <2>1, <2>2, ProfileStays, TypedFacts, DeletionStep
  <2> QED BY <2>3, <2>4 DEF Steps
<1>2. CASE ~Exists(Target[d])
  <2> DEFINE st == [del[d] EXCEPT !.pc = "done", !.answer = "notFound"]
  <2>1. /\ st \in DelState /\ st.pc = "done" /\ st.answer = "notFound" /\ st.todo = {}
    BY <1>a, TypedFacts DEF DelState, Known
  <2>2. Deleting(d, st)
    BY <1>2 DEF DeleteUser
  <2>3. Misses(d)
    BY <1>a, <1>2, <2>2 DEF Misses
  <2> HIDE DEF st
  <2>4. Typed'
    BY <1>a, <1>b, <2>1, <2>2, ProfileStays, TypedFacts, DeletionStep
  <2> QED BY <2>3, <2>4 DEF Steps
<1> QED BY <1>1, <1>2

(* What is left of a sweep is of a sweep under way. *)
LEMMA SweepFacts ==
  ASSUME Typed, NEW d \in Deletion
  PROVE  /\ del[d] \in DelState /\ Target[d] \in User
         /\ del[d].todo # {} => del[d].pc = "sweeping"
         /\ del[d].pc = "sweeping" => del[d].answer = "none" /\ del[d].email \in Email
         /\ del[d].pc = "idle" => del[d].answer = "none"
         /\ del[d].pc = "done" => del[d].todo = {} /\ del[d].answer # "none"
BY TypedFacts DEF Known, DelState

LEMMA DeleteProfileStep ==
  ASSUME Typed, NEW d \in Deletion, deleteProfile(d)
  PROVE  Typed' /\ Steps
<1> DEFINE st == [del[d] EXCEPT !.todo = @ \ {"profile"}]
<1>1. /\ Deleting(d, st) /\ UNCHANGED <<emailItem, conf, asked, moved, robbed>>
      /\ profile' = [profile EXCEPT ![Target[d]] = NoProfile]
      /\ "profile" \in del[d].todo
  BY DEF deleteProfile
<1>2. st \in DelState /\ st.pc = "sweeping" /\ st.answer = "none" /\ st.email \in Email
  BY <1>1, SweepFacts DEF DelState
<1> HIDE DEF st
<1>3. /\ emailItem' \in [Email -> User \cup {NoUser}]
      /\ profile' \in [User -> Profile]
      /\ \A v \in User : v # Target[d] => profile'[v] = profile[v]
      /\ profile'[Target[d]] = NoProfile
  BY <1>1, TypedFacts
<1>4. \A u \in User : Exists(u)' => profile'[u].email \in Email
  BY <1>3, TypedFacts DEF Known, Exists, NoProfile
<1>5. Typed'
  BY <1>1, <1>2, <1>3, <1>4, TypedFacts, DeletionStep
<1> QED BY <1>5 DEF Steps

LEMMA DeleteEmailStep ==
  ASSUME Typed, NEW d \in Deletion, deleteEmail(d)
  PROVE  Typed' /\ Steps
<1> DEFINE st == [del[d] EXCEPT !.todo = @ \ {"email"}]
<1>1. /\ Deleting(d, st) /\ UNCHANGED <<profile, conf, asked, moved>>
      /\ Removes(Target[d], del[d].email)
      /\ emailItem' = [emailItem EXCEPT ![del[d].email] = NoUser]
      /\ "email" \in del[d].todo
  BY DEF deleteEmail
<1>2. st \in DelState /\ st.pc = "sweeping" /\ st.answer = "none" /\ st.email \in Email
  BY <1>1, SweepFacts DEF DelState
<1> HIDE DEF st
<1>3. /\ emailItem' \in [Email -> User \cup {NoUser}]
      /\ moved' \subseteq User /\ robbed' \subseteq User
  BY <1>1, TypedFacts DEF Removes
<1>4. Typed'
  BY <1>1, <1>2, <1>3, ProfileStays, TypedFacts, DeletionStep
<1> QED BY <1>4 DEF Steps

LEMMA EndStep ==
  ASSUME Typed, NEW d \in Deletion, FinishDeletion(d) \/ FailDeletion(d)
  PROVE  Typed' /\ Steps
<1>a. UNCHANGED <<profile, emailItem, conf, asked, moved, robbed>>
  BY DEF FinishDeletion, FailDeletion
<1>b. emailItem' \in [Email -> User \cup {NoUser}]
  BY <1>a, TypedFacts
<1>1. CASE FinishDeletion(d)
  <2> DEFINE st == [del[d] EXCEPT !.pc = "done", !.answer = "deleted"]
  <2>1. Deleting(d, st) /\ del[d].todo = {}
    BY <1>1 DEF FinishDeletion
  <2>2. st \in DelState /\ st.pc = "done" /\ st.answer = "deleted" /\ st.todo = {}
    BY <2>1, SweepFacts DEF DelState
  <2> HIDE DEF st
  <2>3. Typed'
    BY <1>a, <1>b, <2>1, <2>2, ProfileStays, TypedFacts, DeletionStep
  <2> QED BY <1>1, <2>3 DEF Steps
<1>2. CASE FailDeletion(d)
  <2> DEFINE st == [del[d] EXCEPT !.pc = "done", !.todo = {}, !.answer = "error"]
  <2>1. Deleting(d, st)
    BY <1>2 DEF FailDeletion
  <2>2. st \in DelState /\ st.pc = "done" /\ st.answer = "error" /\ st.todo = {}
    BY SweepFacts DEF DelState
  <2> HIDE DEF st
  <2>3. Typed'
    BY <1>a, <1>b, <2>1, <2>2, ProfileStays, TypedFacts, DeletionStep
  <2> QED BY <1>2, <2>3 DEF Steps
<1> QED BY <1>1, <1>2

LEMMA TypedStep == ASSUME Typed, [Next]_vars PROVE Typed' /\ Steps
<1>1. CASE UNCHANGED vars
  <2>1. Typed'
    BY <1>1 DEF vars, Typed, TypeOK, Known, Exists
  <2>2. Keeps
    BY <1>1 DEF vars, Keeps
  <2> QED BY <2>1, <2>2 DEF Steps
<1>2. CASE Next
  BY <1>2, CreateUserStep, AskStep, ConfirmStep, ConsumeStep, ReadStep, ApplyStep,
     RefuseStep, ClearStep, AbandonStep, DeleteUserStep, DeleteProfileStep,
     DeleteEmailStep, EndStep
     DEF Next
<1> QED BY <1>1, <1>2

(* Every reachable state is well typed. *)
THEOREM TypeCorrect == Spec => []TypeOK
<1>1. Typed /\ [Next]_vars => Typed'
  BY TypedStep
<1>2. Typed => TypeOK
  BY DEF Typed
<1> QED BY TypedInit, <1>1, <1>2, PTL DEF Spec
-----------------------------------------------------------------------------
(* What a step of a deletion does to the deletion, and to who is doomed.   *)
LEMMA DeletionMoves ==
  ASSUME Typed, NEW d \in Deletion
  PROVE  /\ Begins(d) \/ Misses(d) \/ deleteProfile(d) \/ deleteEmail(d)
              \/ FinishDeletion(d) \/ FailDeletion(d)
              => \A x \in Deletion : x # d => del'[x] = del[x]
         /\ Begins(d) =>
              /\ del'[d].pc = "sweeping" /\ del'[d].todo = {"profile", "email"}
              /\ del'[d].email = profile[Target[d]].email /\ del'[d].answer = "none"
         /\ Misses(d) =>
              /\ del'[d].pc = "done" /\ del'[d].answer = "notFound"
              /\ del'[d].todo = {}
         /\ deleteProfile(d) =>
              /\ del[d].pc = "sweeping" /\ del[d].answer = "none"
              /\ del'[d].pc = "sweeping" /\ del'[d].answer = "none"
              /\ del'[d].email = del[d].email
              /\ del'[d].todo = del[d].todo \ {"profile"}
         /\ deleteEmail(d) =>
              /\ del[d].pc = "sweeping" /\ del[d].answer = "none"
              /\ del'[d].pc = "sweeping" /\ del'[d].answer = "none"
              /\ del'[d].email = del[d].email
              /\ del'[d].todo = del[d].todo \ {"email"}
         /\ FinishDeletion(d) =>
              /\ del[d].pc = "sweeping" /\ del[d].answer = "none" /\ del[d].todo = {}
              /\ del'[d].pc = "done" /\ del'[d].answer = "deleted"
              /\ del'[d].todo = {}
         /\ FailDeletion(d) =>
              /\ del[d].pc = "sweeping" /\ del[d].answer = "none"
              /\ del'[d].pc = "done" /\ del'[d].answer = "error"
              /\ del'[d].todo = {}
<1>a. del \in [Deletion -> DelState] /\ del[d] \in DelState
  BY TypedFacts
<1>1. Begins(d) \/ Misses(d) \/ deleteProfile(d) \/ deleteEmail(d)
        \/ FinishDeletion(d) \/ FailDeletion(d)
        => \A x \in Deletion : x # d => del'[x] = del[x]
  BY <1>a DEF Begins, Misses, deleteProfile, deleteEmail, FinishDeletion, FailDeletion,
              Deleting
<1>2. Begins(d) =>
        /\ del'[d].pc = "sweeping" /\ del'[d].todo = {"profile", "email"}
        /\ del'[d].email = profile[Target[d]].email /\ del'[d].answer = "none"
  BY <1>a DEF Begins, Deleting
<1>3. Misses(d) => /\ del'[d].pc = "done" /\ del'[d].answer = "notFound"
                   /\ del'[d].todo = {}
  BY <1>a, SweepFacts, TypedFacts DEF Misses, Deleting, DelState, Known
<1>4. deleteProfile(d) =>
        /\ del[d].pc = "sweeping" /\ del[d].answer = "none"
        /\ del'[d].pc = "sweeping" /\ del'[d].answer = "none"
        /\ del'[d].email = del[d].email
        /\ del'[d].todo = del[d].todo \ {"profile"}
  BY <1>a, SweepFacts DEF deleteProfile, Deleting, DelState
<1>5. deleteEmail(d) =>
        /\ del[d].pc = "sweeping" /\ del[d].answer = "none"
        /\ del'[d].pc = "sweeping" /\ del'[d].answer = "none"
        /\ del'[d].email = del[d].email
        /\ del'[d].todo = del[d].todo \ {"email"}
  BY <1>a, SweepFacts DEF deleteEmail, Deleting, DelState
<1>6. FinishDeletion(d) =>
        /\ del[d].pc = "sweeping" /\ del[d].answer = "none" /\ del[d].todo = {}
        /\ del'[d].pc = "done" /\ del'[d].answer = "deleted" /\ del'[d].todo = {}
  BY <1>a, SweepFacts DEF FinishDeletion, Deleting, DelState
<1>7. FailDeletion(d) =>
        /\ del[d].pc = "sweeping" /\ del[d].answer = "none"
        /\ del'[d].pc = "done" /\ del'[d].answer = "error" /\ del'[d].todo = {}
  BY <1>a, SweepFacts DEF FailDeletion, Deleting, DelState
<1> QED BY <1>1, <1>2, <1>3, <1>4, <1>5, <1>6, <1>7

LEMMA WhoHasBegun ==
  ASSUME Typed
  PROVE  /\ del' = del => \A x \in Deletion : Begun(x)' <=> Begun(x)
         /\ \A d \in Deletion :
              /\ Misses(d) \/ deleteProfile(d) \/ deleteEmail(d) \/ FinishDeletion(d)
                   \/ FailDeletion(d) => \A x \in Deletion : Begun(x)' <=> Begun(x)
              /\ Begins(d) => /\ ~Begun(d)
                              /\ \A x \in Deletion : Begun(x)' <=> Begun(x) \/ x = d
<1>1. del' = del => \A x \in Deletion : Begun(x)' <=> Begun(x)
  BY DEF Begun
<1>2. ASSUME NEW d \in Deletion,
             Misses(d) \/ deleteProfile(d) \/ deleteEmail(d) \/ FinishDeletion(d)
               \/ FailDeletion(d)
      PROVE  \A x \in Deletion : Begun(x)' <=> Begun(x)
  <2>1. \A x \in Deletion : x # d => del'[x] = del[x]
    BY <1>2, DeletionMoves
  <2>2. (del'[d].pc # "idle" /\ del'[d].answer # "notFound")
          <=> (del[d].pc # "idle" /\ del[d].answer # "notFound")
    <3>1. CASE Misses(d)
      BY <3>1, DeletionMoves DEF Misses
    <3>2. CASE ~Misses(d)
      BY <1>2, <3>2, DeletionMoves
    <3> QED BY <3>1, <3>2
  <2> QED BY <2>1, <2>2 DEF Begun
<1>3. ASSUME NEW d \in Deletion, Begins(d)
      PROVE  /\ ~Begun(d)
             /\ \A x \in Deletion : Begun(x)' <=> Begun(x) \/ x = d
  <2>1. /\ \A x \in Deletion : x # d => del'[x] = del[x]
        /\ del'[d].pc = "sweeping" /\ del'[d].answer = "none" /\ del[d].pc = "idle"
    BY <1>3, DeletionMoves DEF Begins
  <2> QED BY <2>1 DEF Begun
<1> QED BY <1>1, <1>2, <1>3

LEMMA Doom ==
  ASSUME Typed, NEW u \in User
  PROVE  /\ del' = del => (Doomed(u)' <=> Doomed(u)) /\ (Twice(u)' <=> Twice(u))
         /\ \A d \in Deletion :
              /\ Misses(d) \/ deleteProfile(d) \/ deleteEmail(d) \/ FinishDeletion(d)
                   \/ FailDeletion(d)
                   => (Doomed(u)' <=> Doomed(u)) /\ (Twice(u)' <=> Twice(u))
              /\ Begins(d) => /\ Doomed(u)' <=> Doomed(u) \/ u = Target[d]
                              /\ Twice(u)' <=> Twice(u) \/ (Doomed(u) /\ u = Target[d])
<1>1. (\A x \in Deletion : Begun(x)' <=> Begun(x))
        => (Doomed(u)' <=> Doomed(u)) /\ (Twice(u)' <=> Twice(u))
  BY DEF Doomed, Twice
<1>2. ASSUME NEW d \in Deletion, Begins(d)
      PROVE  /\ Doomed(u)' <=> Doomed(u) \/ u = Target[d]
             /\ Twice(u)' <=> Twice(u) \/ (Doomed(u) /\ u = Target[d])
  <2>1. ~Begun(d) /\ \A x \in Deletion : Begun(x)' <=> Begun(x) \/ x = d
    BY <1>2, WhoHasBegun
  <2> QED BY <2>1 DEF Doomed, Twice
<1> QED BY <1>1, <1>2, WhoHasBegun

(* A sweep that is under way has begun, and its user is on the way out.    *)
LEMMA Sweeping ==
  ASSUME Typed, NEW d \in Deletion, del[d].pc = "sweeping"
  PROVE  Begun(d) /\ Doomed(Target[d])
BY SweepFacts DEF Begun, Doomed

-----------------------------------------------------------------------------
(* No address is held in vain.  Whoever an item names has its address, or  *)
(* is on the way out; and then the item is the one that a sweep is still   *)
(* to delete, unless the sweep has failed or its user has moved on.        *)
HeldByOwner ==
  \A e \in Email, u \in User :
    emailItem[e] = u =>
      /\ Exists(u) => profile[u].email = e
      /\ Exists(u) \/ Doomed(u)

HeldForSweep ==
  \A d \in Deletion, e \in Email :
    emailItem[e] = Target[d] /\ Target[d] \notin moved =>
      /\ del[d].pc = "sweeping" => e = del[d].email /\ "email" \in del[d].todo
      /\ del[d].answer # "deleted"

HeldInv == Typed /\ HeldByOwner /\ HeldForSweep

LEMMA HeldInit == Init => HeldInv
BY TypedInit, NamesAssumption DEF Init, HeldInv, HeldByOwner, HeldForSweep

LEMMA HeldKeeps == ASSUME HeldInv, Keeps PROVE HeldByOwner' /\ HeldForSweep'
<1>1. \A u \in User : (Doomed(u)' <=> Doomed(u)) /\ (Exists(u)' <=> Exists(u))
  BY Doom DEF HeldInv, Keeps, Exists
<1>2. HeldByOwner'
  BY <1>1 DEF HeldInv, HeldByOwner, Keeps
<1>3. HeldForSweep'
  BY DEF HeldInv, HeldForSweep, Keeps
<1> QED BY <1>2, <1>3

LEMMA HeldRegisters ==
  ASSUME HeldInv, NEW u \in User, NEW e \in Email, Registers(u, e)
  PROVE  HeldByOwner' /\ HeldForSweep'
<1>a. /\ \A x \in Email : emailItem'[x] = IF x = e THEN u ELSE emailItem[x]
      /\ emailItem[e] = NoUser
  BY TypedFacts DEF HeldInv, Registers, Available
<1>b. /\ Exists(u)' /\ profile'[u].email = e /\ ~Exists(u) /\ ~Doomed(u)
      /\ \A v \in User : v # u => profile'[v] = profile[v] /\ (Exists(v)' <=> Exists(v))
  BY DEF Registers, Exists, NewId
<1>c. \A v \in User : Doomed(v)' <=> Doomed(v)
  BY Doom DEF HeldInv, Registers
<1>1. \A x \in Email : emailItem[x] # u
  BY <1>b DEF HeldInv, HeldByOwner
<1>2. HeldByOwner'
  <2>1. ASSUME NEW x \in Email, NEW v \in User, emailItem'[x] = v
        PROVE  (Exists(v)' => profile'[v].email = x) /\ (Exists(v)' \/ Doomed(v)')
    <3>1. CASE v = u
      BY <1>a, <1>b, <1>1, <2>1, <3>1
    <3>2. CASE v # u
      <4>1. emailItem[x] = v
        BY <1>a, <2>1, <3>2
      <4> QED BY <1>b, <1>c, <3>2, <4>1 DEF HeldInv, HeldByOwner
    <3> QED BY <3>1, <3>2
  <2> QED BY <2>1 DEF HeldByOwner
<1>3. HeldForSweep'
  <2>1. ASSUME NEW d \in Deletion, NEW x \in Email, emailItem'[x] = Target[d],
               Target[d] \notin moved
        PROVE  /\ del[d].pc = "sweeping" => x = del[d].email /\ "email" \in del[d].todo
               /\ del[d].answer # "deleted"
    <3>1. CASE Target[d] = u
      <4>1. del[d].pc = "idle" \/ del[d].answer = "notFound"
        BY <1>b, <3>1 DEF Doomed, Begun
      <4> QED BY <4>1, SweepFacts DEF HeldInv
    <3>2. CASE Target[d] # u
      <4>1. emailItem[x] = Target[d]
        BY <1>a, <2>1, <3>2
      <4> QED BY <2>1, <4>1 DEF HeldInv, HeldForSweep
    <3> QED BY <3>1, <3>2
  <2> QED BY <2>1 DEF HeldForSweep, Registers
<1> QED BY <1>2, <1>3

LEMMA HeldMoves ==
  ASSUME HeldInv, NEW u \in User, NEW e \in Email, Moves(u, e)
  PROVE  HeldByOwner' /\ HeldForSweep'
<1> DEFINE old == profile[u].email
<1>a. old \in Email
  BY TypedFacts DEF HeldInv, Known, Moves
<1>b. \A x \in Email : emailItem'[x] = IF x = old THEN NoUser
                                       ELSE IF x = e THEN u ELSE emailItem[x]
  BY <1>a, TypedFacts DEF HeldInv, Moves, Moved
<1>c. /\ Exists(u)' /\ profile'[u].email = e /\ Exists(u)
      /\ \A v \in User : v # u => profile'[v] = profile[v] /\ (Exists(v)' <=> Exists(v))
  BY DEF Moves, Exists
<1>d. \A v \in User : Doomed(v)' <=> Doomed(v)
  BY Doom DEF HeldInv, Moves
<1>e. NoUser \notin User /\ \A d \in Deletion : Target[d] \in User
  BY TypedFacts DEF HeldInv
<1>f. \A x \in Email : emailItem[x] = u => x = old
  BY <1>c DEF HeldInv, HeldByOwner
<1> HIDE DEF old
<1>2. HeldByOwner'
  <2>1. ASSUME NEW x \in Email, NEW v \in User, emailItem'[x] = v
        PROVE  (Exists(v)' => profile'[v].email = x) /\ (Exists(v)' \/ Doomed(v)')
    <3>1. CASE v = u
      <4>1. x = e
        BY <1>b, <1>e, <1>f, <2>1, <3>1
      <4> QED BY <1>c, <3>1, <4>1
    <3>2. CASE v # u
      <4>1. emailItem[x] = v
        BY <1>b, <1>e, <2>1, <3>2
      <4> QED BY <1>c, <1>d, <3>2, <4>1 DEF HeldInv, HeldByOwner
    <3> QED BY <3>1, <3>2
  <2> QED BY <2>1 DEF HeldByOwner
<1>3. HeldForSweep'
  <2>1. moved' = (IF Doomed(u) THEN moved \cup {u} ELSE moved) /\ del' = del
    BY DEF Moves
  <2>2. ASSUME NEW d \in Deletion, NEW x \in Email, emailItem'[x] = Target[d],
               Target[d] \notin moved'
        PROVE  /\ del[d].pc = "sweeping" => x = del[d].email /\ "email" \in del[d].todo
               /\ del[d].answer # "deleted"
    <3>1. CASE Target[d] = u
      <4>1. ~Begun(d)
        BY <2>1, <2>2, <3>1 DEF Doomed
      <4> QED BY <4>1, SweepFacts DEF HeldInv, Begun
    <3>2. CASE Target[d] # u
      <4>1. emailItem[x] = Target[d] /\ Target[d] \notin moved
        BY <1>b, <1>e, <2>1, <2>2, <3>2
      <4> QED BY <4>1 DEF HeldInv, HeldForSweep
    <3> QED BY <3>1, <3>2
  <2> QED BY <2>1, <2>2 DEF HeldForSweep
<1> QED BY <1>2, <1>3

LEMMA HeldDeletion ==
  ASSUME HeldInv, NEW d \in Deletion,
         Begins(d) \/ Misses(d) \/ deleteProfile(d) \/ deleteEmail(d)
           \/ FinishDeletion(d) \/ FailDeletion(d)
  PROVE  HeldByOwner' /\ HeldForSweep'
<1>a. Typed /\ Target[d] \in User /\ NoUser \notin User
      /\ \A x \in Deletion : Target[x] \in User
  BY TypedFacts DEF HeldInv
<1>b. \A x \in Deletion : x # d => del'[x] = del[x]
  BY <1>a, DeletionMoves
<1>c. \A u \in User : Doomed(u) => Doomed(u)'
  BY <1>a, Doom
<1>d. Target[d] \in User /\ (deleteProfile(d) => Doomed(Target[d])')
  BY <1>a, <1>c, DeletionMoves, Sweeping
(* No item is anybody's that was not before.                               *)
<1>1. \A e \in Email, u \in User : emailItem'[e] = u => emailItem[e] = u
  <2>1. CASE deleteEmail(d)
    BY <2>1, <1>a, TypedFacts DEF deleteEmail
  <2>2. CASE ~deleteEmail(d)
    BY <2>2 DEF Begins, Misses, deleteProfile, FinishDeletion, FailDeletion
  <2> QED BY <2>1, <2>2
<1>2. HeldByOwner'
  <2>1. ASSUME NEW u \in User
        PROVE  /\ Exists(u)' => Exists(u) /\ profile'[u] = profile[u]
               /\ Exists(u) => Exists(u)' \/ Doomed(u)'
    <3>1. CASE deleteProfile(d)
      BY <3>1, <1>a, <1>d, TypedFacts DEF deleteProfile, Exists, NoProfile
    <3>2. CASE ~deleteProfile(d)
      BY <3>2 DEF Begins, Misses, deleteEmail, FinishDeletion, FailDeletion, Exists
    <3> QED BY <3>1, <3>2
  <2> QED BY <1>1, <1>c, <2>1 DEF HeldInv, HeldByOwner
<1>3. HeldForSweep'
  <2> SUFFICES ASSUME NEW x \in Deletion, NEW e \in Email, emailItem'[e] = Target[x],
                      Target[x] \notin moved
               PROVE  /\ del'[x].pc = "sweeping"
                           => e = del'[x].email /\ "email" \in del'[x].todo
                      /\ del'[x].answer # "deleted"
    BY DEF HeldForSweep, Begins, Misses, deleteProfile, deleteEmail, FinishDeletion,
           FailDeletion
  <2>0. emailItem[e] = Target[x]
    BY <1>1, <1>a
  <2>1. CASE x # d
    BY <1>b, <2>0, <2>1 DEF HeldInv, HeldForSweep
  <2>2. CASE x = d /\ Begins(d)
    <3>1. profile[Target[d]].email = e
      BY <1>a, <2>0, <2>2 DEF HeldInv, HeldByOwner, Begins
    <3> QED BY <1>a, <2>2, <3>1, DeletionMoves
  <2>3. CASE x = d /\ Misses(d)
    BY <1>a, <2>3, DeletionMoves
  <2>4. CASE x = d /\ deleteProfile(d)
    <3>1. e = del[d].email /\ "email" \in del[d].todo
      BY <1>a, <2>0, <2>4, DeletionMoves DEF HeldInv, HeldForSweep
    <3> QED BY <1>a, <2>4, <3>1, DeletionMoves
  <2>5. CASE x = d /\ deleteEmail(d)
    <3>1. e = del[d].email
      BY <1>a, <2>0, <2>5, DeletionMoves DEF HeldInv, HeldForSweep
    <3>2. emailItem'[e] = NoUser
      BY <2>5, <3>1, TypedFacts DEF HeldInv, deleteEmail
    <3> QED BY <1>a, <3>2
  <2>6. CASE x = d /\ FinishDeletion(d)
    BY <1>a, <2>0, <2>6, DeletionMoves DEF HeldInv, HeldForSweep
  <2>7. CASE x = d /\ FailDeletion(d)
    BY <1>a, <2>7, DeletionMoves
  <2> QED BY <2>1, <2>2, <2>3, <2>4, <2>5, <2>6, <2>7
<1> QED BY <1>2, <1>3

(* For any number of registrations, changes and deletions, retries of a    *)
(* deletion included: an address is held only for a user that has it,      *)
(* whose deletion is not done, or that moved while it was being deleted    *)
(* (ApplyEmailChange, DeleteUser).                                         *)
THEOREM AddressesAreReleased == Spec => []NoAddressHeldInVain
<1>1. HeldInv /\ [Next]_vars => HeldInv'
  <2> SUFFICES ASSUME HeldInv, [Next]_vars PROVE HeldInv'
    OBVIOUS
  <2>1. Typed' /\ Steps
    BY TypedStep DEF HeldInv
  <2>2. HeldByOwner' /\ HeldForSweep'
    BY <2>1, HeldKeeps, HeldRegisters, HeldMoves, HeldDeletion DEF Steps
  <2> QED BY <2>1, <2>2 DEF HeldInv
<1>2. HeldInv => NoAddressHeldInVain
  <2> SUFFICES ASSUME HeldInv, NEW e \in Email, emailItem[e] # NoUser,
                      \A d \in Deletion : Target[d] = emailItem[e] =>
                        del[d].pc = "idle" \/ del[d].answer \in {"deleted", "notFound"}
               PROVE  \/ Exists(emailItem[e]) /\ profile[emailItem[e]].email = e
                      \/ emailItem[e] \in moved
    BY DEF NoAddressHeldInVain
  <2>1. PICK u \in User : emailItem[e] = u
    BY TypedFacts DEF HeldInv
  <2>2. ~Doomed(u) \/ u \in moved
    BY <2>1 DEF Doomed, Begun, HeldInv, HeldForSweep
  <2> QED BY <2>1, <2>2 DEF HeldInv, HeldByOwner
<1> QED BY HeldInit, <1>1, <1>2, PTL DEF Spec
-----------------------------------------------------------------------------
(* The directory.  Whoever stays and was not robbed is found by the        *)
(* address, and what a sweep is still to delete is its own user's item,    *)
(* unless that user may be overtaken.                                      *)
Astray(u) == u \in moved \cup robbed \/ Twice(u)

SweepsItsOwn ==
  \A d \in Deletion :
    "email" \in del[d].todo /\ ~Astray(Target[d]) =>
      emailItem[del[d].email] = Target[d]

(* The first to be robbed was robbed by one that had moved or was deleted  *)
(* twice.                                                                  *)
SomebodyWasOvertaken == moved # {} \/ \E u \in User : Twice(u)

FoundInv ==
  /\ Typed
  /\ FoundByEmail
  /\ SweepsItsOwn
  /\ robbed # {} => SomebodyWasOvertaken

LEMMA FoundInit == Init => FoundInv
BY TypedInit, NamesAssumption
   DEF Init, FoundInv, FoundByEmail, SweepsItsOwn, Exists, NoProfile

LEMMA FoundFacts ==
  ASSUME FoundInv
  PROVE  /\ Typed
         /\ \A u \in User : Exists(u) /\ ~Doomed(u) => profile[u].email \in Email
         /\ \A u \in User : Exists(u) /\ ~Doomed(u) /\ u \notin robbed =>
              emailItem[profile[u].email] = u
         /\ \A d \in Deletion : "email" \in del[d].todo =>
              /\ del[d].email \in Email
              /\ ~Astray(Target[d]) => emailItem[del[d].email] = Target[d]
BY SweepFacts, TypedFacts DEF FoundInv, FoundByEmail, SweepsItsOwn, Known

(* An address that is free is nobody's who stays and was not robbed.       *)
LEMMA FreeIsNobodys ==
  ASSUME FoundInv, NEW e \in Email, Available(e),
         NEW u \in User, Exists(u), ~Doomed(u), u \notin robbed
  PROVE  profile[u].email # e
BY FoundFacts, NamesAssumption DEF Available

LEMMA FoundKeeps ==
  ASSUME FoundInv, Keeps
  PROVE  FoundByEmail' /\ SweepsItsOwn' /\ (robbed' # {} => SomebodyWasOvertaken')
<1>1. \A u \in User : /\ Doomed(u)' <=> Doomed(u)
                      /\ Twice(u)' <=> Twice(u)
                      /\ Exists(u)' <=> Exists(u)
  BY Doom DEF FoundInv, Keeps, Exists
<1>2. FoundByEmail'
  BY <1>1 DEF FoundInv, FoundByEmail, Keeps
<1>3. SweepsItsOwn'
  <2>1. \A d \in Deletion : Target[d] \in User
    BY TypedFacts DEF FoundInv
  <2> QED BY <1>1, <2>1 DEF FoundInv, SweepsItsOwn, Astray, Keeps
<1>4. robbed' # {} => SomebodyWasOvertaken'
  BY <1>1 DEF FoundInv, SomebodyWasOvertaken, Keeps
<1> QED BY <1>2, <1>3, <1>4

LEMMA FoundRegisters ==
  ASSUME FoundInv, NEW u \in User, NEW e \in Email, Registers(u, e)
  PROVE  FoundByEmail' /\ SweepsItsOwn' /\ (robbed' # {} => SomebodyWasOvertaken')
<1>a. /\ \A x \in Email : emailItem'[x] = IF x = e THEN u ELSE emailItem[x]
      /\ emailItem[e] = NoUser /\ NoUser \notin User
      /\ \A d \in Deletion : Target[d] \in User
      /\ UNCHANGED <<del, moved, robbed>>
  BY TypedFacts DEF FoundInv, Registers, Available
<1>b. /\ profile'[u].email = e
      /\ \A v \in User : v # u => profile'[v] = profile[v] /\ (Exists(v)' <=> Exists(v))
      /\ \A v \in User : (Doomed(v)' <=> Doomed(v)) /\ (Twice(v)' <=> Twice(v))
  BY Doom DEF FoundInv, Registers, Exists
<1>1. FoundByEmail'
  <2>1. ASSUME NEW v \in User, Exists(v)', ~Doomed(v)', v \notin robbed'
        PROVE  emailItem'[profile'[v].email] = v
    <3>1. CASE v = u
      BY <1>a, <1>b, <3>1
    <3>2. CASE v # u
      <4>1. emailItem[profile[v].email] = v /\ profile[v].email \in Email
        BY <1>a, <1>b, <2>1, <3>2, FoundFacts
      <4>2. profile[v].email # e
        BY <1>a, <4>1
      <4> QED BY <1>a, <1>b, <3>2, <4>1, <4>2
    <3> QED BY <3>1, <3>2
  <2> QED BY <2>1 DEF FoundByEmail
<1>2. SweepsItsOwn'
  <2>1. ASSUME NEW d \in Deletion, "email" \in del[d].todo, ~Astray(Target[d])
        PROVE  emailItem'[del[d].email] = Target[d]
    BY <1>a, <2>1, FoundFacts
  <2> QED BY <1>a, <1>b, <2>1 DEF SweepsItsOwn, Astray
<1>3. robbed' # {} => SomebodyWasOvertaken'
  BY <1>a, <1>b DEF FoundInv, SomebodyWasOvertaken
<1> QED BY <1>1, <1>2, <1>3

(* Who moves releases the own item; or has been overtaken, and then the    *)
(* owner of the item is robbed of it.                                      *)
LEMMA MoverReleases ==
  ASSUME FoundInv, NEW u \in User, NEW e \in Email, Moves(u, e)
  PROVE  /\ profile[u].email \in Email
         /\ \/ /\ ~Doomed(u) /\ u \notin robbed
               /\ emailItem[profile[u].email] = u /\ robbed' = robbed
            \/ /\ Doomed(u) \/ u \in robbed
               /\ robbed' = robbed \cup {v \in User \ {u} :
                                           emailItem[profile[u].email] = v}
<1>1. profile[u].email \in Email
  BY TypedFacts DEF FoundInv, Known, Moves
<1>2. CASE Doomed(u) \/ u \in robbed
  <2>1. Overtaken(u)
    BY <1>2 DEF Overtaken, Moves
  <2> QED BY <1>1, <1>2, <2>1 DEF Moves, Removes
<1>3. CASE ~Doomed(u) /\ u \notin robbed
  <2>1. emailItem[profile[u].email] = u
    BY <1>3, FoundFacts DEF Moves
  <2> QED BY <1>1, <1>3, <2>1 DEF Moves, Removes
<1> QED BY <1>2, <1>3

LEMMA FoundMoves ==
  ASSUME FoundInv, NEW u \in User, NEW e \in Email, Moves(u, e)
  PROVE  FoundByEmail' /\ SweepsItsOwn' /\ (robbed' # {} => SomebodyWasOvertaken')
<1> DEFINE old == profile[u].email
           Owned == ~Doomed(u) /\ u \notin robbed /\ emailItem[old] = u /\ robbed' = robbed
           Other == /\ Doomed(u) \/ u \in robbed
                    /\ robbed' = robbed \cup {v \in User \ {u} : emailItem[old] = v}
<1>m. old \in Email /\ (Owned \/ Other)
  BY MoverReleases
<1>e. /\ NoUser \notin User /\ \A d \in Deletion : Target[d] \in User
      /\ emailItem[e] = NoUser /\ old # e
      /\ moved' = (IF Doomed(u) THEN moved \cup {u} ELSE moved) /\ del' = del
  BY TypedFacts DEF FoundInv, Moves, Available
<1>b. \A x \in Email : emailItem'[x] = IF x = old THEN NoUser
                                       ELSE IF x = e THEN u ELSE emailItem[x]
  BY <1>m, TypedFacts DEF FoundInv, Moves, Moved
<1>c. /\ profile'[u].email = e
      /\ \A v \in User : v # u => profile'[v] = profile[v] /\ (Exists(v)' <=> Exists(v))
      /\ \A v \in User : (Doomed(v)' <=> Doomed(v)) /\ (Twice(v)' <=> Twice(v))
  BY Doom DEF FoundInv, Moves, Exists
<1>d. robbed \subseteq robbed' /\ moved \subseteq moved'
  BY <1>m, <1>e
<1> HIDE DEF old
<1>1. FoundByEmail'
  <2>1. ASSUME NEW v \in User, Exists(v)', ~Doomed(v)', v \notin robbed'
        PROVE  emailItem'[profile'[v].email] = v
    <3>1. CASE v = u
      BY <1>b, <1>c, <1>e, <3>1
    <3>2. CASE v # u
      <4>1. emailItem[profile[v].email] = v /\ profile[v].email \in Email
        BY <1>c, <1>d, <2>1, <3>2, FoundFacts
      <4>2. profile[v].email # e
        BY <1>e, <4>1
      <4>3. profile[v].email # old
        BY <1>m, <2>1, <3>2, <4>1
      <4> QED BY <1>b, <1>c, <3>2, <4>1, <4>2, <4>3
    <3> QED BY <3>1, <3>2
  <2> QED BY <2>1 DEF FoundByEmail
<1>2. SweepsItsOwn'
  <2>1. ASSUME NEW d \in Deletion, "email" \in del[d].todo, ~Astray(Target[d])'
        PROVE  emailItem'[del[d].email] = Target[d]
    <3>a. Target[d] \notin moved' \cup robbed' /\ ~Astray(Target[d]) /\ Doomed(Target[d])
      BY <1>c, <1>d, <1>e, <2>1, Sweeping, SweepFacts DEF Astray, FoundInv
    <3>b. del[d].email \in Email /\ emailItem[del[d].email] = Target[d]
      BY <2>1, <3>a, FoundFacts
    <3>c. Target[d] # u
      BY <1>d, <1>e, <3>a
    <3>d. del[d].email # e /\ del[d].email # old
      BY <1>m, <1>e, <3>a, <3>b, <3>c
    <3> QED BY <1>b, <3>b, <3>d
  <2> QED BY <1>e, <2>1 DEF SweepsItsOwn
<1>3. robbed' # {} => SomebodyWasOvertaken'
  <2>1. robbed # {} \/ Doomed(u) => moved' # {} \/ \E v \in User : Twice(v)
    BY <1>e, <1>d DEF FoundInv, SomebodyWasOvertaken
  <2> QED BY <1>m, <1>c, <2>1 DEF SomebodyWasOvertaken
<1> QED BY <1>1, <1>2, <1>3

(* A sweep removes the item of its own user; or that user may have been    *)
(* overtaken, and then the owner of the item is robbed of it.              *)
LEMMA SweepRemoves ==
  ASSUME FoundInv, NEW d \in Deletion, deleteEmail(d)
  PROVE  /\ del[d].email \in Email /\ Doomed(Target[d]) /\ Begun(d)
         /\ emailItem' = [emailItem EXCEPT ![del[d].email] = NoUser]
         /\ \/ emailItem[del[d].email] = Target[d] /\ robbed' = robbed
            \/ /\ Astray(Target[d])
               /\ robbed' = robbed \cup {v \in User \ {Target[d]} :
                                           emailItem[del[d].email] = v}
<1>1. Begun(d) /\ Doomed(Target[d])
  BY Sweeping, SweepFacts DEF FoundInv, deleteEmail
<1>2. del[d].email \in Email /\ emailItem' = [emailItem EXCEPT ![del[d].email] = NoUser]
  BY FoundFacts DEF deleteEmail
<1>3. CASE Astray(Target[d])
  <2>1. Overtaken(Target[d])
    BY <1>3 DEF Overtaken, Astray, deleteEmail
  <2> QED BY <1>1, <1>2, <1>3, <2>1 DEF deleteEmail, Removes
<1>4. CASE ~Astray(Target[d])
  <2>1. emailItem[del[d].email] = Target[d]
    BY <1>4, FoundFacts DEF deleteEmail
  <2> QED BY <1>1, <1>2, <2>1 DEF deleteEmail, Removes
<1> QED BY <1>3, <1>4

LEMMA FoundDeleteEmail ==
  ASSUME FoundInv, NEW d \in Deletion, deleteEmail(d)
  PROVE  FoundByEmail' /\ SweepsItsOwn' /\ (robbed' # {} => SomebodyWasOvertaken')
<1> DEFINE t == Target[d]
           e == del[d].email
<1>a. Typed /\ NoUser \notin User /\ \A x \in Deletion : Target[x] \in User
  BY TypedFacts DEF FoundInv
<1>b. \A x \in Deletion : x # d => del'[x] = del[x]
  BY <1>a, DeletionMoves
<1>c. \A u \in User : (Doomed(u)' <=> Doomed(u)) /\ (Twice(u)' <=> Twice(u))
  BY <1>a, Doom
<1>m. /\ e \in Email /\ Doomed(t) /\ Begun(d)
      /\ emailItem' = [emailItem EXCEPT ![e] = NoUser]
      /\ \/ emailItem[e] = t /\ robbed' = robbed
         \/ Astray(t) /\ robbed' = robbed \cup {v \in User \ {t} : emailItem[e] = v}
  BY SweepRemoves
<1>n. profile' = profile /\ moved' = moved /\ robbed \subseteq robbed'
  BY <1>m DEF deleteEmail
<1>x. \A y \in Email : emailItem'[y] = IF y = e THEN NoUser ELSE emailItem[y]
  BY <1>a, <1>m, TypedFacts
<1> HIDE DEF t, e
<1>1. FoundByEmail'
  <2>1. ASSUME NEW u \in User, Exists(u)', ~Doomed(u)', u \notin robbed'
        PROVE  emailItem'[profile'[u].email] = u
    <3>1. profile[u].email \in Email /\ emailItem[profile[u].email] = u /\ u # t
      BY <1>c, <1>m, <1>n, <2>1, FoundFacts DEF Exists
    <3>2. profile[u].email # e
      BY <1>m, <2>1, <3>1
    <3> QED BY <1>n, <1>x, <3>1, <3>2
  <2> QED BY <2>1 DEF FoundByEmail
<1>2. SweepsItsOwn'
  <2> SUFFICES ASSUME NEW x \in Deletion, "email" \in del'[x].todo, ~Astray(Target[x])'
               PROVE  emailItem'[del'[x].email] = Target[x]
    BY DEF SweepsItsOwn
  <2>1. x # d
    BY <1>a, DeletionMoves
  <2>2. del'[x] = del[x] /\ "email" \in del[x].todo /\ Begun(x)
    BY <1>a, <1>b, <2>1, Sweeping, SweepFacts
  <2>3. Target[x] \notin robbed' /\ ~Astray(Target[x]) /\ ~Twice(Target[x])
    BY <1>a, <1>c, <1>n DEF Astray
  <2>4. Target[x] # t
    BY <1>a, <1>m, <2>1, <2>2, <2>3 DEF Twice, t
  <2>5. del[x].email \in Email /\ emailItem[del[x].email] = Target[x]
    BY <2>2, <2>3, FoundFacts
  <2>6. del[x].email # e
    BY <1>a, <1>m, <2>3, <2>4, <2>5
  <2> QED BY <1>x, <2>2, <2>5, <2>6
<1>3. robbed' # {} => SomebodyWasOvertaken'
  <2>1. t \in User
    BY <1>a DEF t
  <2>2. robbed # {} \/ Astray(t) => SomebodyWasOvertaken
    BY <2>1 DEF FoundInv, Astray, SomebodyWasOvertaken
  <2>3. SomebodyWasOvertaken => SomebodyWasOvertaken'
    BY <1>c, <1>n DEF SomebodyWasOvertaken
  <2> QED BY <1>m, <2>2, <2>3
<1> QED BY <1>1, <1>2, <1>3

LEMMA FoundDeletion ==
  ASSUME FoundInv, NEW d \in Deletion,
         Begins(d) \/ Misses(d) \/ deleteProfile(d) \/ FinishDeletion(d) \/ FailDeletion(d)
  PROVE  FoundByEmail' /\ SweepsItsOwn' /\ (robbed' # {} => SomebodyWasOvertaken')
<1>a. Typed /\ NoUser \notin User /\ \A x \in Deletion : Target[x] \in User
  BY TypedFacts DEF FoundInv
<1>b. \A x \in Deletion : x # d => del'[x] = del[x]
  BY <1>a, DeletionMoves
<1>c. \A u \in User : (Doomed(u) => Doomed(u)') /\ (Twice(u) => Twice(u)')
  BY <1>a, Doom
<1>d. UNCHANGED <<emailItem, moved, robbed>>
  BY DEF Begins, Misses, deleteProfile, FinishDeletion, FailDeletion
<1>1. FoundByEmail'
  <2>1. ASSUME NEW u \in User, Exists(u)', ~Doomed(u)', u \notin robbed'
        PROVE  emailItem'[profile'[u].email] = u
    <3>1. Exists(u) /\ profile'[u] = profile[u]
      <4>1. CASE deleteProfile(d)
        BY <4>1, <1>a, <2>1, TypedFacts DEF deleteProfile, Exists, NoProfile
      <4>2. CASE ~deleteProfile(d)
        BY <4>2, <2>1 DEF Begins, Misses, FinishDeletion, FailDeletion, Exists
      <4> QED BY <4>1, <4>2
    <3> QED BY <1>c, <1>d, <2>1, <3>1, FoundFacts
  <2> QED BY <2>1 DEF FoundByEmail
<1>2. SweepsItsOwn'
  <2> SUFFICES ASSUME NEW x \in Deletion, "email" \in del'[x].todo, ~Astray(Target[x])'
               PROVE  emailItem'[del'[x].email] = Target[x]
    BY DEF SweepsItsOwn
  <2>0. ~Astray(Target[x]) /\ Target[x] \notin robbed
    BY <1>a, <1>c, <1>d DEF Astray
  <2>1. CASE x # d
    BY <1>b, <1>d, <2>0, <2>1, FoundFacts
  <2>2. CASE x = d /\ Begins(d)
    <3>1. ~Doomed(Target[d])
      BY <1>a, <2>2, Doom DEF Astray
    <3>2. emailItem[profile[Target[d]].email] = Target[d]
      BY <1>a, <2>0, <2>2, <3>1, FoundFacts DEF Begins
    <3>3. del'[d].email = profile[Target[d]].email
      BY <1>a, <2>2, DeletionMoves
    <3> QED BY <1>d, <2>2, <3>2, <3>3
  <2>3. CASE x = d /\ deleteProfile(d)
    <3>1. "email" \in del[d].todo /\ del'[d].email = del[d].email
      BY <1>a, <2>3, DeletionMoves
    <3> QED BY <1>d, <2>0, <2>3, <3>1, FoundFacts
  <2>4. CASE x = d /\ (Misses(d) \/ FinishDeletion(d) \/ FailDeletion(d))
    BY <1>a, <2>4, DeletionMoves
  <2> QED BY <2>1, <2>2, <2>3, <2>4
<1>3. robbed' # {} => SomebodyWasOvertaken'
  BY <1>c, <1>d DEF FoundInv, SomebodyWasOvertaken
<1> QED BY <1>1, <1>2, <1>3

LEMMA FoundStep == ASSUME FoundInv, [Next]_vars PROVE FoundInv' /\ Steps
<1>1. Typed' /\ Steps
  BY TypedStep DEF FoundInv
<1>2. FoundByEmail' /\ SweepsItsOwn' /\ (robbed' # {} => SomebodyWasOvertaken')
  BY <1>1, FoundKeeps, FoundRegisters, FoundMoves, FoundDeleteEmail, FoundDeletion
     DEF Steps
<1> QED BY <1>1, <1>2 DEF FoundInv

(* However many users register, move and are deleted: who stays and was    *)
(* not robbed is found by the address on the profile; and two users that   *)
(* stay have one address only if before that some user moved while being   *)
(* deleted, or was deleted twice (ApplyEmailChange and deleteKeys remove   *)
(* the EMAIL# item of the address that was read, whosever it is by now).   *)
THEOREM AddressesAreUnique ==
  Spec => [](FoundByEmail /\ (UniqueEmail \/ SomebodyWasOvertaken))
<1>1. FoundInv /\ [Next]_vars => FoundInv'
  BY FoundStep
<1>2. FoundInv => FoundByEmail /\ (UniqueEmail \/ SomebodyWasOvertaken)
  BY FoundFacts DEF UniqueEmail, FoundInv
<1> QED BY FoundInit, <1>1, <1>2, PTL DEF Spec

-----------------------------------------------------------------------------
(* The directory of the items.  Who was robbed was in it.                  *)
RobbedWereMembers == \A u \in robbed : ~NewId(u)

LEMMA RobbedStep ==
  ASSUME HeldInv, RobbedWereMembers, Steps PROVE RobbedWereMembers'
<1>a. Typed /\ NoUser \notin User
  BY TypedFacts DEF HeldInv
<1>1. \A u \in User : Doomed(u) => Doomed(u)'
  BY <1>a, Doom DEF Steps, Keeps, Registers, Moves
<1>2. \A u \in User : Exists(u) => Exists(u)' \/ Doomed(u)'
  <2>1. ASSUME NEW d \in Deletion, deleteProfile(d), NEW u \in User, Exists(u)
        PROVE  Exists(u)' \/ Doomed(u)'
    <3>1. Doomed(Target[d])' /\ Target[d] \in User
      BY <1>a, <1>1, <2>1, DeletionMoves, Sweeping, TypedFacts
    <3> QED BY <1>a, <2>1, <3>1, TypedFacts DEF deleteProfile, Exists
  <2> QED BY <2>1 DEF Steps, Keeps, Registers, Moves, Begins, Misses, deleteEmail,
                      FinishDeletion, FailDeletion, Exists
<1>3. /\ robbed' \subseteq User
      /\ \A u \in robbed' : u \in robbed \/ \E e \in Email : emailItem[e] = u
  <2>1. ASSUME NEW u \in User, NEW e \in Email, Moves(u, e)
        PROVE  /\ robbed' \subseteq User
               /\ \A v \in robbed' : v \in robbed \/ emailItem[profile[u].email] = v
    BY <1>a, <2>1, TypedFacts DEF Moves, Removes
  <2>2. ASSUME NEW u \in User, NEW e \in Email, Moves(u, e) PROVE profile[u].email \in Email
    BY <1>a, <2>2, TypedFacts DEF Moves, Known
  <2>3. ASSUME NEW d \in Deletion, deleteEmail(d)
        PROVE  /\ del[d].email \in Email /\ robbed' \subseteq User
               /\ \A v \in robbed' : v \in robbed \/ emailItem[del[d].email] = v
    BY <1>a, <2>3, SweepFacts, TypedFacts DEF deleteEmail, Removes
  <2> QED BY <1>a, <2>1, <2>2, <2>3, TypedFacts
          DEF Steps, Keeps, Registers, Begins, Misses, deleteProfile, FinishDeletion,
              FailDeletion
<1>4. \A u \in robbed' : Exists(u) \/ Doomed(u)
  BY <1>3 DEF HeldInv, HeldByOwner, RobbedWereMembers, NewId
<1> QED BY <1>1, <1>2, <1>3, <1>4 DEF RobbedWereMembers, NewId

DirectoryInv == FoundInv /\ HeldInv /\ RobbedWereMembers

LEMMA DirectoryStep ==
  ASSUME DirectoryInv, [Next]_vars PROVE DirectoryInv' /\ Steps
<1>1. FoundInv' /\ Steps
  BY FoundStep DEF DirectoryInv
<1>2. HeldInv'
  BY <1>1, HeldKeeps, HeldRegisters, HeldMoves, HeldDeletion
     DEF DirectoryInv, Steps, HeldInv, FoundInv
<1>3. RobbedWereMembers'
  BY <1>1, RobbedStep DEF DirectoryInv
<1> QED BY <1>1, <1>2, <1>3 DEF DirectoryInv

(* Who is in the directory: the mapping of ImplementsDirectory.            *)
Listed(u) == Exists(u) /\ ~Doomed(u) /\ u \notin robbed

(* If one robs another, nobody but the other drops out.                    *)
LEMMA RobberyIsLeave ==
  ASSUME DirectoryInv, NEW e \in Email, NEW t \in User, Doomed(t) \/ t \in robbed,
         robbed' = robbed \cup {v \in User \ {t} : emailItem[e] = v},
         \A u \in User : Doomed(u)' <=> Doomed(u),
         \A u \in User \ {t} : profile'[u] = profile[u]
  PROVE  LET addr == [u \in User |-> IF Listed(u) THEN profile[u].email ELSE NoEmail]
         IN  addr' = addr \/ \E v \in User : /\ addr[v] # NoEmail
                                             /\ addr' = [addr EXCEPT ![v] = NoEmail]
<1> DEFINE addr == [u \in User |-> IF Listed(u) THEN profile[u].email ELSE NoEmail]
<1>1. ~Listed(t) /\ ~Listed(t)'
  BY DEF Listed
<1>2. \A u \in User \ {t} : Listed(u)' <=> Listed(u) /\ u \notin robbed'
  BY DEF Listed, Exists
<1>3. CASE \E v \in User \ {t} : Listed(v) /\ emailItem[e] = v
  <2>1. PICK v \in User \ {t} : Listed(v) /\ emailItem[e] = v
    BY <1>3
  <2>2. \A u \in User \ {v} : Listed(u)' <=> Listed(u)
    BY <1>1, <1>2, <2>1 DEF Listed
  <2>3. ~Listed(v)'
    BY <2>1 DEF Listed
  <2>4. addr' = [addr EXCEPT ![v] = NoEmail]
    BY <1>1, <2>1, <2>2, <2>3
  <2>5. addr[v] # NoEmail
    BY <2>1, FoundFacts, NamesAssumption DEF DirectoryInv, Listed
  <2> QED BY <2>1, <2>4, <2>5
<1>4. CASE ~\E v \in User \ {t} : Listed(v) /\ emailItem[e] = v
  <2>1. \A u \in User : Listed(u)' <=> Listed(u)
    BY <1>1, <1>2, <1>4 DEF Listed
  <2>2. addr' = addr
    BY <1>1, <2>1
  <2> QED BY <2>2
<1> QED BY <1>3, <1>4

(* The items implement the directory, whoever moves and is deleted, and    *)
(* however often: an address is registered, moved to or left in one step,  *)
(* only one that is free is taken, and at most one user is robbed at once. *)
THEOREM Refinement == Spec => ImplementsDirectory
<1> DEFINE addr == [u \in User |-> IF Listed(u) THEN profile[u].email ELSE NoEmail]
           known == {u \in User : ~NewId(u)}
<1>a. /\ addr = [u \in User |-> IF Exists(u) /\ ~Doomed(u) /\ u \notin robbed
                                 THEN profile[u].email ELSE NoEmail]
      /\ addr' = [u \in User |-> IF Exists(u) /\ ~Doomed(u) /\ u \notin robbed
                                  THEN profile[u].email ELSE NoEmail]'
  BY DEF Listed
<1>0. Init => RobbedWereMembers
  BY DEF Init, RobbedWereMembers
<1>1. Init => Directory!Init
  BY NamesAssumption DEF Init, Directory!Init, Exists, NoProfile, NewId, Doomed, Begun
<1>2. DirectoryInv /\ [Next]_vars => [Directory!Next]_(Directory!vars)
  <2> SUFFICES ASSUME DirectoryInv, [Next]_vars, ~(addr' = addr /\ known' = known)
               PROVE  Directory!Next
    BY <1>a DEF Directory!vars
  <2>1. Steps
    BY DirectoryStep
  <2>2. Typed /\ NoEmail \notin Email /\ FoundInv
    BY TypedFacts DEF DirectoryInv, FoundInv
  (* Who is listed, and the address of each, say it all. *)
  <2>3. ASSUME \A u \in User : /\ Listed(u)' <=> Listed(u)
                               /\ Listed(u) => profile'[u].email = profile[u].email
                               /\ NewId(u)' <=> NewId(u)
        PROVE  FALSE
    <3>1. known' = known
      BY <2>3
    <3>2. addr' = addr
      BY <2>3
    <3> QED BY <3>1, <3>2
  <2>r. ASSUME known' = known,
               \E v \in User : /\ addr[v] # NoEmail
                               /\ addr' = [addr EXCEPT ![v] = NoEmail]
        PROVE  Directory!Next
    BY <1>a, <2>r DEF Directory!Next, Directory!Leave
  <2>4. CASE Keeps
    BY <2>2, <2>3, <2>4, Doom DEF Keeps, Exists, NewId, Listed
  <2>5. ASSUME NEW u \in User, NEW e \in Email, Registers(u, e) PROVE Directory!Next
    <3>1. /\ Exists(u)' /\ profile'[u].email = e /\ ~Exists(u) /\ ~Doomed(u) /\ NewId(u)
          /\ \A v \in User : v # u => profile'[v] = profile[v] /\ (Exists(v)' <=> Exists(v))
          /\ \A v \in User : Doomed(v)' <=> Doomed(v)
          /\ robbed' = robbed
      BY <2>2, <2>5, Doom DEF Registers, Exists, NewId
    <3>2. u \notin known /\ known' = known \cup {u}
      BY <3>1 DEF NewId
    <3>3. \A v \in User : addr[v] # e
      BY <2>2, <2>5, FreeIsNobodys DEF Registers, Listed
    <3>4. Listed(u)'
      BY <3>1 DEF DirectoryInv, RobbedWereMembers, Listed
    <3>5. addr' = [addr EXCEPT ![u] = e]
      BY <3>1, <3>4 DEF Listed
    <3> QED BY <1>a, <3>2, <3>3, <3>5
            DEF Directory!Next, Directory!Register, Directory!Free
  <2>6. ASSUME NEW u \in User, NEW e \in Email, Moves(u, e) PROVE Directory!Next
    <3>1. /\ Exists(u)' /\ profile'[u].email = e /\ Exists(u)
          /\ \A v \in User : v # u => profile'[v] = profile[v] /\ (Exists(v)' <=> Exists(v))
          /\ \A v \in User : Doomed(v)' <=> Doomed(v)
      BY <2>2, <2>6, Doom DEF Moves, Exists
    <3>2. known' = known
      BY <3>1 DEF NewId
    <3>3. CASE Doomed(u) \/ u \in robbed
      <4>1. /\ profile[u].email \in Email
            /\ robbed' = robbed \cup {v \in User \ {u} : emailItem[profile[u].email] = v}
        BY <2>2, <2>6, <3>3, MoverReleases
      <4>2. addr' = addr \/ \E v \in User : /\ addr[v] # NoEmail
                                            /\ addr' = [addr EXCEPT ![v] = NoEmail]
        BY <3>1, <3>3, <4>1, RobberyIsLeave
      <4> QED BY <2>r, <3>2, <4>2
    <3>4. CASE ~Doomed(u) /\ u \notin robbed
      <4>1. robbed' = robbed
        BY <2>2, <2>6, <3>4, MoverReleases
      <4>2. Listed(u) /\ Listed(u)'
        BY <3>1, <3>4, <4>1 DEF Listed
      <4>3. \A v \in User : addr[v] # e
        BY <2>2, <2>6, FreeIsNobodys DEF Moves, Listed
      <4>4. addr' = [addr EXCEPT ![u] = e]
        BY <3>1, <4>1, <4>2 DEF Listed
      <4>5. addr[u] # NoEmail
        BY <2>2, <3>4, <4>2, FoundFacts DEF Listed
      <4>6. Directory!Move(u, e)
        BY <1>a, <3>2, <4>3, <4>4, <4>5 DEF Directory!Move, Directory!Free
      <4> QED BY <4>6 DEF Directory!Next
    <3> QED BY <3>3, <3>4
  <2>7. ASSUME NEW d \in Deletion, Begins(d) PROVE Directory!Next
    <3>1. /\ Target[d] \in User /\ Exists(Target[d])
          /\ \A v \in User : Doomed(v)' <=> Doomed(v) \/ v = Target[d]
          /\ profile' = profile /\ robbed' = robbed
      BY <2>2, <2>7, Doom, TypedFacts DEF Begins
    <3>2. known' = known
      BY <3>1 DEF NewId, Exists
    <3>3. Listed(Target[d])
      BY <2>3, <3>1, <3>2 DEF Listed, NewId, Exists
    <3>4. addr' = [addr EXCEPT ![Target[d]] = NoEmail]
      BY <3>1 DEF Listed, Exists
    <3>5. addr[Target[d]] # NoEmail
      BY <2>2, <3>1, <3>3, FoundFacts DEF Listed
    <3> QED BY <2>r, <3>1, <3>2, <3>4, <3>5
  <2>8. ASSUME NEW d \in Deletion, Misses(d) \/ FinishDeletion(d) \/ FailDeletion(d)
        PROVE  Directory!Next
    <3>1. profile' = profile /\ robbed' = robbed
      BY <2>8 DEF Misses, FinishDeletion, FailDeletion
    <3> QED BY <2>2, <2>3, <2>8, <3>1, Doom DEF Exists, NewId, Listed
  <2>9. ASSUME NEW d \in Deletion, deleteProfile(d) PROVE Directory!Next
    <3>1. /\ Target[d] \in User /\ Doomed(Target[d]) /\ robbed' = robbed
          /\ \A v \in User : Doomed(v)' <=> Doomed(v)
          /\ \A v \in User : v # Target[d] => profile'[v] = profile[v]
      BY <2>2, <2>9, Doom, DeletionMoves, Sweeping, TypedFacts DEF deleteProfile
    <3> QED BY <2>3, <3>1 DEF Exists, NewId, Listed
  <2>10. ASSUME NEW d \in Deletion, deleteEmail(d) PROVE Directory!Next
    <3>1. /\ profile' = profile /\ Target[d] \in User
          /\ \A v \in User : Doomed(v)' <=> Doomed(v)
      BY <2>2, <2>10, Doom, TypedFacts DEF deleteEmail
    <3>2. known' = known
      BY <3>1 DEF NewId, Exists
    <3>3. del[d].email \in Email /\ Doomed(Target[d])
      BY <2>2, <2>10, SweepRemoves
    <3>4. CASE robbed' = robbed
      BY <2>3, <3>1, <3>4 DEF Exists, NewId, Listed
    <3>5. CASE robbed' = robbed \cup {v \in User \ {Target[d]} :
                                        emailItem[del[d].email] = v}
      <4>1. addr' = addr \/ \E v \in User : /\ addr[v] # NoEmail
                                            /\ addr' = [addr EXCEPT ![v] = NoEmail]
        BY <3>1, <3>3, <3>5, RobberyIsLeave
      <4> QED BY <2>r, <3>2, <4>1
    <3> QED BY <2>2, <2>10, <3>4, <3>5, SweepRemoves
  <2> QED BY <2>1, <2>4, <2>5, <2>6, <2>7, <2>8, <2>9, <2>10 DEF Steps
<1>3. DirectoryInv /\ [Next]_vars => DirectoryInv'
  BY DirectoryStep
<1>4. Init => DirectoryInv
  BY <1>0, FoundInit, HeldInit DEF DirectoryInv
<1> QED BY <1>1, <1>2, <1>3, <1>4, PTL DEF Spec, ImplementsDirectory, Directory!Spec
=============================================================================

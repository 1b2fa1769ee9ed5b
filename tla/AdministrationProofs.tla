------------------------- MODULE AdministrationProofs --------------------------
(***************************************************************************)
(* What holds of the parts of MCAdministration for every value of their    *)
(* constants: the documents (Documents), whose three parts take the steps  *)
(* of one module with different constants, so that each effect is one      *)
(* lemma for all of them; the sweeps of a role (Roles) and of a partition  *)
(* (Partitions); the keys of the table and its queries (KeySpace); a query *)
(* of the event log (Telemetry); and a walk over a listing (Listings).     *)
(***************************************************************************)
EXTENDS MCAdministration, FiniteSetTheorems, SequenceTheorems, TLAPS

-----------------------------------------------------------------------------
LEMMA MergeType ==
  ASSUME NEW old \in Fields, NEW w \in Writer
  PROVE  Merge(old, w) \in Fields
  BY DocumentsAssumption DEF Merge, Fields

LEMMA StampAdvances ==
  ASSUME NEW observed \in Nat, NEW clock \in Stamps
  PROVE  nextStamp(observed, clock) \in Nat /\ nextStamp(observed, clock) > observed
  BY DocumentsAssumption DEF nextStamp

LEMMA NoDocumentType == NoDocument \in Document
  BY DEF NoDocument, Document, Unset, Fields

-----------------------------------------------------------------------------
(* Documents.  Three parts patch them, with different constants: "resent", *)
(* "patient" and "webhook".  What a step of any of them does is one of     *)
(* these, n being the attempts a request has, s whether the store fails    *)
(* and f the family.                                                       *)
Observed(w) == [call[w] EXCEPT !.pc = "write", !.seen = doc]
Done(w, a)  == [call[w] EXCEPT !.pc = "done", !.answer = a]
Retried(w)  == [call[w] EXCEPT !.attempt = call[w].attempt + 1, !.seen = doc]
Reading(w)  == [call[w] EXCEPT !.attempt = call[w].attempt + 1, !.pc = "read"]

Stored(w, clock) ==
  [state |-> "present", fields |-> Merge(call[w].seen.fields, w),
   token |-> nextStamp(call[w].seen.token, clock)]

Observes(w) ==
  /\ call[w].pc \in {"idle", "read"}
  /\ Become(w, Observed(w))
  /\ UNCHANGED <<doc, life>>

Refuses(w) ==
  /\ call[w].pc # "done"
  /\ \E a \in {"absent", "tooLarge", "failed"} : Become(w, Done(w, a))
  /\ UNCHANGED <<doc, life>>

GivesUp(w, n) ==
  /\ call[w].pc = "write" /\ ~Unchanged(w) /\ call[w].attempt = n - 1
  /\ Become(w, Done(w, "conflict"))
  /\ UNCHANGED <<doc, life>>

Retries(w, n) ==
  /\ call[w].pc = "write" /\ ~Unchanged(w) /\ call[w].attempt # n - 1
  /\ Become(w, Retried(w)) \/ Become(w, Reading(w))
  /\ UNCHANGED <<doc, life>>

Lands(w, clock, s) ==
  /\ call[w].pc = "write" /\ Fits(w) /\ Unchanged(w)
  /\ doc' = Stored(w, clock)
  /\ \/ Become(w, Done(w, "patched"))
     \/ s /\ UNCHANGED call
  /\ UNCHANGED life

ComesOrGoes ==
  /\ \/ doc.state = "absent" /\ doc' = [NoDocument EXCEPT !.state = "present"]
     \/ doc' = NoDocument
  /\ life' \in {"live", "removed"}
  /\ UNCHANGED call

Moves(n, s, f) ==
  \/ f = "added" /\ ComesOrGoes
  \/ \E w \in Writer :
       \/ Observes(w) \/ Refuses(w) \/ GivesUp(w, n) \/ Retries(w, n)
       \/ \E clock \in Stamps : Lands(w, clock, s)
  \/ UNCHANGED vars

LEMMA ResentMoves == ASSUME [Next]_vars PROVE Moves(MaxAttempts, StoreFails, Family)
<1>1. ASSUME AddWebhook \/ RemoveWebhook PROVE Family = "added" /\ ComesOrGoes
  BY <1>1 DEF AddWebhook, RemoveWebhook, ComesOrGoes
<1>2. ASSUME NEW w \in Writer, Update(w) \/ Reread(w) PROVE Observes(w) \/ Refuses(w)
  BY <1>2 DEF Update, Reread, Observes, Refuses, Answer, Observed, Done
<1>3. ASSUME NEW w \in Writer, TooLarge(w) \/ Abandon(w) PROVE Refuses(w)
  BY <1>3 DEF TooLarge, Abandon, Refuses, Answer, Done
<1>4. ASSUME NEW w \in Writer, Lose(w)
               PROVE GivesUp(w, MaxAttempts) \/ Retries(w, MaxAttempts)
  <2>1. CASE LastAttempt(w)
    BY <1>4, <2>1 DEF Lose, LastAttempt, GivesUp, Answer, Done
  <2>2. CASE ~LastAttempt(w)
    <3>1. Become(w, Retried(w)) \/ Become(w, Reading(w))
      BY <1>4, <2>2 DEF Lose, Retried, Reading
    <3> QED BY <1>4, <2>2, <3>1 DEF Lose, LastAttempt, Retries
  <2> QED BY <2>1, <2>2
<1>5. ASSUME NEW w \in Writer, NEW clock \in Stamps, Put(w, clock)
      PROVE  Lands(w, clock, StoreFails)
  BY <1>5 DEF Put, Lands, Answer, Done, Stored
<1> QED BY <1>1, <1>2, <1>3, <1>4, <1>5 DEF Next, Moves

LEMMA PatientMoves ==
  ASSUME [Patient!Next]_vars PROVE Moves(PatientAttempts, FALSE, Family)
<1>1. ASSUME Patient!AddWebhook \/ Patient!RemoveWebhook
      PROVE  Family = "added" /\ ComesOrGoes
  BY <1>1 DEF Patient!AddWebhook, Patient!RemoveWebhook, Patient!NoDocument,
              Patient!Unset, NoDocument, Unset, ComesOrGoes
<1>2. /\ \A w \in Writer : \A st : Patient!Become(w, st) => Become(w, st)
      /\ \A w \in Writer : \A a : Patient!Answer(w, a) => Become(w, Done(w, a))
  BY DEF Patient!Become, Patient!Answer, Become, Done
<1>3. \A w \in Writer : /\ Patient!Fits(w) <=> Fits(w)
                        /\ Patient!Unchanged(w) <=> Unchanged(w)
  <2>1. \A S : Patient!Cardinality(S) = Cardinality(S)
    BY DEF Patient!Cardinality, Cardinality
  <2> QED BY <2>1 DEF Patient!Fits, Fits, Patient!Size, Size, Patient!Merge, Merge,
                      Patient!Unchanged, Unchanged
<1>4. ASSUME NEW w \in Writer,
             Patient!Update(w) \/ Patient!Reread(w) \/ Patient!TooLarge(w)
      PROVE  Observes(w) \/ Refuses(w)
  <2>1. UNCHANGED <<doc, life>>
    BY <1>4 DEF Patient!Update, Patient!Reread, Patient!TooLarge
  <2>2. CASE Patient!Answer(w, "absent") \/ Patient!Answer(w, "tooLarge")
    <3>1. call[w].pc # "done"
      BY <1>4 DEF Patient!Update, Patient!Reread, Patient!TooLarge
    <3> QED BY <1>2, <2>1, <2>2, <3>1 DEF Refuses
  <2>3. CASE Patient!Become(w, Observed(w)) /\ call[w].pc \in {"idle", "read"}
    BY <1>2, <2>1, <2>3 DEF Observes
  <2> QED BY <1>4, <2>2, <2>3 DEF Patient!Update, Patient!Reread, Patient!TooLarge, Observed
<1>5. ASSUME NEW w \in Writer, Patient!Lose(w)
      PROVE  GivesUp(w, PatientAttempts) \/ Retries(w, PatientAttempts)
  <2>1. UNCHANGED <<doc, life>> /\ call[w].pc = "write" /\ ~Unchanged(w)
    BY <1>3, <1>5 DEF Patient!Lose
  <2>2. CASE Patient!LastAttempt(w)
    BY <1>2, <1>5, <2>1, <2>2 DEF Patient!Lose, Patient!LastAttempt, GivesUp
  <2>3. CASE ~Patient!LastAttempt(w)
    <3>1. Patient!Become(w, Retried(w)) \/ Patient!Become(w, Reading(w))
      BY <1>5, <2>3 DEF Patient!Lose, Retried, Reading
    <3> QED BY <1>2, <2>1, <2>3, <3>1 DEF Patient!LastAttempt, Retries
  <2> QED BY <2>2, <2>3
<1>6. ASSUME NEW w \in Writer, NEW clock \in Stamps, Patient!Put(w, clock)
      PROVE  Lands(w, clock, FALSE)
  <2>1. /\ call[w].pc = "write" /\ Fits(w) /\ Unchanged(w) /\ UNCHANGED life
        /\ Patient!Answer(w, "patched")
    BY <1>3, <1>6 DEF Patient!Put
  <2>2. doc' = Stored(w, clock)
    BY <1>6 DEF Patient!Put, Patient!Merge, Patient!nextStamp, Stored, Merge, nextStamp
  <2> QED BY <1>2, <2>1, <2>2 DEF Lands
<1>7. \A w \in Writer : ~Patient!Abandon(w)
  BY DEF Patient!Abandon
<1> QED BY <1>1, <1>4, <1>5, <1>6, <1>7 DEF Patient!Next, Moves

LEMMA WebhookMoves ==
  ASSUME [Webhook!Next]_vars PROVE Moves(PatientAttempts, FALSE, "added")
<1>1. ASSUME Webhook!AddWebhook \/ Webhook!RemoveWebhook PROVE ComesOrGoes
  BY <1>1 DEF Webhook!AddWebhook, Webhook!RemoveWebhook, Webhook!NoDocument,
              Webhook!Unset, NoDocument, Unset, ComesOrGoes
<1>2. /\ \A w \in Writer : \A st : Webhook!Become(w, st) => Become(w, st)
      /\ \A w \in Writer : \A a : Webhook!Answer(w, a) => Become(w, Done(w, a))
  BY DEF Webhook!Become, Webhook!Answer, Become, Done
<1>3. \A w \in Writer : /\ Webhook!Fits(w) <=> Fits(w)
                        /\ Webhook!Unchanged(w) <=> Unchanged(w)
  <2>1. \A S : Webhook!Cardinality(S) = Cardinality(S)
    BY DEF Webhook!Cardinality, Cardinality
  <2> QED BY <2>1 DEF Webhook!Fits, Fits, Webhook!Size, Size, Webhook!Merge, Merge,
                      Webhook!Unchanged, Unchanged
<1>4. ASSUME NEW w \in Writer,
             Webhook!Update(w) \/ Webhook!Reread(w) \/ Webhook!TooLarge(w)
      PROVE  Observes(w) \/ Refuses(w)
  <2>1. UNCHANGED <<doc, life>>
    BY <1>4 DEF Webhook!Update, Webhook!Reread, Webhook!TooLarge
  <2>2. CASE Webhook!Answer(w, "absent") \/ Webhook!Answer(w, "tooLarge")
    <3>1. call[w].pc # "done"
      BY <1>4 DEF Webhook!Update, Webhook!Reread, Webhook!TooLarge
    <3> QED BY <1>2, <2>1, <2>2, <3>1 DEF Refuses
  <2>3. CASE Webhook!Become(w, Observed(w)) /\ call[w].pc \in {"idle", "read"}
    BY <1>2, <2>1, <2>3 DEF Observes
  <2> QED BY <1>4, <2>2, <2>3 DEF Webhook!Update, Webhook!Reread, Webhook!TooLarge, Observed
<1>5. ASSUME NEW w \in Writer, Webhook!Lose(w)
      PROVE  GivesUp(w, PatientAttempts) \/ Retries(w, PatientAttempts)
  <2>1. UNCHANGED <<doc, life>> /\ call[w].pc = "write" /\ ~Unchanged(w)
    BY <1>3, <1>5 DEF Webhook!Lose
  <2>2. CASE Webhook!LastAttempt(w)
    BY <1>2, <1>5, <2>1, <2>2 DEF Webhook!Lose, Webhook!LastAttempt, GivesUp
  <2>3. CASE ~Webhook!LastAttempt(w)
    <3>1. Webhook!Become(w, Retried(w)) \/ Webhook!Become(w, Reading(w))
      BY <1>5, <2>3 DEF Webhook!Lose, Retried, Reading
    <3> QED BY <1>2, <2>1, <2>3, <3>1 DEF Webhook!LastAttempt, Retries
  <2> QED BY <2>2, <2>3
<1>6. ASSUME NEW w \in Writer, NEW clock \in Stamps, Webhook!Put(w, clock)
      PROVE  Lands(w, clock, FALSE)
  <2>1. /\ call[w].pc = "write" /\ Fits(w) /\ Unchanged(w) /\ UNCHANGED life
        /\ Webhook!Answer(w, "patched")
    BY <1>3, <1>6 DEF Webhook!Put
  <2>2. doc' = Stored(w, clock)
    BY <1>6 DEF Webhook!Put, Webhook!Merge, Webhook!nextStamp, Stored, Merge, nextStamp
  <2> QED BY <1>2, <2>1, <2>2 DEF Lands
<1>7. \A w \in Writer : ~Webhook!Abandon(w)
  BY DEF Webhook!Abandon
<1> QED BY <1>1, <1>4, <1>5, <1>6, <1>7 DEF Webhook!Next, Moves
-----------------------------------------------------------------------------
(* What requests hold, if each has n attempts. *)
CallBy(n) ==
  [pc: {"idle", "write", "read", "done"}, seen: Document, attempt: 0..(n - 1),
   answer: {"none", "patched", "absent", "tooLarge", "conflict", "failed"}]

TypedBy(n) ==
  /\ doc \in Document
  /\ call \in [Writer -> CallBy(n)]
  /\ life \in {"new", "live", "removed"}

LEMMA CallFacts ==
  ASSUME NEW n \in Nat \ {0}, TypedBy(n), NEW w \in Writer
  PROVE  /\ Observed(w) \in CallBy(n) /\ Observed(w).pc = "write"
         /\ Observed(w).seen = doc
         /\ Observed(w).attempt = call[w].attempt /\ Observed(w).answer = call[w].answer
         /\ \A a \in {"patched", "absent", "tooLarge", "conflict", "failed"} :
              /\ Done(w, a) \in CallBy(n)
              /\ Done(w, a).pc = "done" /\ Done(w, a).seen = call[w].seen
              /\ Done(w, a).attempt = call[w].attempt /\ Done(w, a).answer = a
         /\ call[w].attempt # n - 1 => Retried(w) \in CallBy(n) /\ Reading(w) \in CallBy(n)
         /\ Retried(w).pc = call[w].pc /\ Retried(w).seen = doc
         /\ Retried(w).attempt = call[w].attempt + 1 /\ Retried(w).answer = call[w].answer
         /\ Reading(w).pc = "read" /\ Reading(w).seen = call[w].seen
         /\ Reading(w).attempt = call[w].attempt + 1 /\ Reading(w).answer = call[w].answer
<1>1. call[w] \in CallBy(n) /\ doc \in Document
  BY DEF TypedBy
<1>2. call[w].attempt # n - 1 => call[w].attempt + 1 \in 0..(n - 1)
  <2>1. call[w].attempt \in 0..(n - 1)
    BY <1>1 DEF CallBy
  <2> QED BY <2>1
<1> QED BY <1>1, <1>2 DEF CallBy, Observed, Done, Retried, Reading

(* Somebody goes on, the others stay. *)
LEMMA OneGoesOn ==
  ASSUME NEW n, TypedBy(n), NEW w \in Writer, NEW c, Become(w, c)
  PROVE  /\ call'[w] = c /\ \A v \in Writer : v # w => call'[v] = call[v]
         /\ c \in CallBy(n) => call' \in [Writer -> CallBy(n)]
BY DEF TypedBy, Become

(* What a put stores is a document with a later token. *)
LEMMA StoredFacts ==
  ASSUME NEW n \in Nat \ {0}, TypedBy(n), NEW w \in Writer, NEW clock \in Stamps
  PROVE  /\ Stored(w, clock) \in Document
         /\ Stored(w, clock).state = "present"
         /\ Stored(w, clock).fields = Merge(call[w].seen.fields, w)
         /\ Unchanged(w) => Stored(w, clock).token > doc.token
<1>1. /\ call[w].seen.fields \in Fields /\ call[w].seen.token \in Nat /\ doc.token \in Nat
  BY DEF TypedBy, CallBy, Document
<1>2. Merge(call[w].seen.fields, w) \in Fields
  BY <1>1, MergeType
<1>3. /\ nextStamp(call[w].seen.token, clock) \in Nat
      /\ nextStamp(call[w].seen.token, clock) > call[w].seen.token
  BY <1>1, StampAdvances
<1>4. /\ Stored(w, clock).state = "present"
      /\ Stored(w, clock).fields = Merge(call[w].seen.fields, w)
      /\ Stored(w, clock).token = nextStamp(call[w].seen.token, clock)
      /\ Stored(w, clock) \in Document
  BY <1>2, <1>3 DEF Stored, Document
<1> QED BY <1>1, <1>3, <1>4 DEF Unchanged

LEMMA TypedInit == ASSUME NEW n \in Nat \ {0} PROVE Init => TypedBy(n)
<1>1. 0 \in 0..(n - 1)
  OBVIOUS
<1>2. [pc |-> "idle", seen |-> NoDocument, attempt |-> 0, answer |-> "none"] \in CallBy(n)
  BY <1>1, NoDocumentType DEF CallBy
<1> QED BY <1>2, NoDocumentType DEF Init, TypedBy

LEMMA TypedStep ==
  ASSUME NEW n \in Nat \ {0}, NEW s, NEW f, TypedBy(n), Moves(n, s, f)
  PROVE  TypedBy(n)'
<1>1. CASE ComesOrGoes
  <2>1. [NoDocument EXCEPT !.state = "present"] \in Document
    BY NoDocumentType DEF Document
  <2> QED BY <1>1, <2>1, NoDocumentType DEF ComesOrGoes, TypedBy
<1>2. ASSUME NEW w \in Writer, NEW c \in CallBy(n), Become(w, c),
             doc' = doc \/ doc' \in Document, life' = life
      PROVE  TypedBy(n)'
  <2>1. call' \in [Writer -> CallBy(n)]
    BY <1>2, OneGoesOn
  <2> QED BY <1>2, <2>1 DEF TypedBy
<1>3. ASSUME NEW w \in Writer, Observes(w) PROVE TypedBy(n)'
  BY <1>2, <1>3, CallFacts DEF Observes
<1>4. ASSUME NEW w \in Writer, Refuses(w) PROVE TypedBy(n)'
  BY <1>2, <1>4, CallFacts DEF Refuses
<1>5. ASSUME NEW w \in Writer, GivesUp(w, n) PROVE TypedBy(n)'
  BY <1>2, <1>5, CallFacts DEF GivesUp
<1>6. ASSUME NEW w \in Writer, Retries(w, n) PROVE TypedBy(n)'
  BY <1>2, <1>6, CallFacts DEF Retries
<1>7. ASSUME NEW w \in Writer, NEW clock \in Stamps, Lands(w, clock, s) PROVE TypedBy(n)'
  <2>1. doc' \in Document /\ life' = life
    BY <1>7, StoredFacts DEF Lands
  <2>2. CASE Become(w, Done(w, "patched"))
    BY <1>2, <2>1, <2>2, CallFacts
  <2>3. CASE UNCHANGED call
    BY <2>1, <2>3 DEF TypedBy
  <2> QED BY <1>7, <2>2, <2>3 DEF Lands
<1>8. CASE UNCHANGED vars
  BY <1>8 DEF vars, TypedBy
<1> QED BY <1>1, <1>3, <1>4, <1>5, <1>6, <1>7, <1>8 DEF Moves

(* The stored document fits, since what is measured is what is put. *)
LEMMA FitsStep ==
  ASSUME NEW n, NEW s, NEW f, FitsTheItem, Moves(n, s, f)
  PROVE  FitsTheItem'
<1>1. Size(Unset) <= MaxFields
  <2>1. {x \in Field : Unset[x] # NoWriter} = {}
    BY DEF Unset
  <2> QED BY <2>1, FS_EmptySet, DocumentsAssumption DEF Size
<1>2. CASE ComesOrGoes
  <2>1. doc'.fields = Unset
    BY <1>2 DEF ComesOrGoes, NoDocument
  <2> QED BY <1>1, <2>1 DEF FitsTheItem
<1>3. ASSUME NEW w \in Writer, NEW clock \in Stamps, Lands(w, clock, s) PROVE FitsTheItem'
  <2>1. doc'.fields = Merge(call[w].seen.fields, w)
    BY <1>3 DEF Lands, Stored
  <2> QED BY <1>3, <2>1 DEF Lands, Fits, FitsTheItem
<1>4. CASE UNCHANGED doc
  BY <1>4 DEF FitsTheItem, Size
<1> QED BY <1>2, <1>3, <1>4 DEF Moves, Observes, Refuses, GivesUp, Retries, vars

-----------------------------------------------------------------------------
(* A request that is about to put has read a token no newer than the       *)
(* stored one, and if it is the stored one, the stored fields.             *)
Current ==
  \A w \in Writer : call[w].pc = "write" =>
    /\ call[w].seen.token <= doc.token
    /\ call[w].seen.token = doc.token => call[w].seen.fields = doc.fields

(* Only a request that is done has been answered. *)
Unanswered == \A w \in Writer : call[w].pc # "done" => call[w].answer = "none"

DocumentInv(n) == TypedBy(n) /\ Current /\ Unanswered

LEMMA CurrentStep ==
  ASSUME NEW n \in Nat \ {0}, NEW s, TypedBy(n), Current, Moves(n, s, "upserted")
  PROVE  Current'
<1>a. doc.token \in Nat /\ \A w \in Writer : call[w].seen.token \in Nat
  BY DEF TypedBy, CallBy, Document
<1>1. ASSUME NEW w \in Writer, NEW c, Become(w, c), doc' = doc,
             c.pc # "write" \/ c.seen = doc
      PROVE  Current'
  <2> SUFFICES ASSUME NEW v \in Writer, call'[v].pc = "write"
               PROVE  /\ call'[v].seen.token <= doc'.token
                      /\ call'[v].seen.token = doc'.token
                           => call'[v].seen.fields = doc'.fields
    BY DEF Current
  <2>1. CASE v = w
    <3>1. call'[v].seen = doc /\ doc' = doc
      BY <1>1, <2>1, OneGoesOn
    <3> QED BY <1>a, <3>1
  <2>2. CASE v # w
    <3>1. call'[v] = call[v]
      BY <1>1, <2>2, OneGoesOn
    <3> QED BY <1>1, <3>1 DEF Current
  <2> QED BY <2>1, <2>2
<1>2. ASSUME NEW w \in Writer, Observes(w) PROVE Current'
  BY <1>1, <1>2, CallFacts DEF Observes
<1>3. ASSUME NEW w \in Writer, Refuses(w) PROVE Current'
  BY <1>1, <1>3, CallFacts DEF Refuses
<1>4. ASSUME NEW w \in Writer, GivesUp(w, n) PROVE Current'
  BY <1>1, <1>4, CallFacts DEF GivesUp
<1>5. ASSUME NEW w \in Writer, Retries(w, n) PROVE Current'
  BY <1>1, <1>5, CallFacts DEF Retries
<1>6. ASSUME NEW w \in Writer, NEW clock \in Stamps, Lands(w, clock, s) PROVE Current'
  <2>1. doc'.token > doc.token /\ doc'.token \in Nat
    <3>1. Stored(w, clock).token \in Nat
      BY StoredFacts DEF Document
    <3> QED BY <1>6, <3>1, StoredFacts DEF Lands
  <2> SUFFICES ASSUME NEW v \in Writer, call'[v].pc = "write"
               PROVE  /\ call'[v].seen.token <= doc'.token
                      /\ call'[v].seen.token # doc'.token
    BY DEF Current
  <2>2. call'[v] = call[v]
    <3>1. CASE UNCHANGED call
      BY <3>1
    <3>2. CASE Become(w, Done(w, "patched"))
      <4>1. v # w
        BY <3>2, OneGoesOn, CallFacts
      <4> QED BY <3>2, <4>1, OneGoesOn
    <3> QED BY <1>6, <3>1, <3>2 DEF Lands
  <2>3. call[v].seen.token <= doc.token
    BY <2>2 DEF Current
  <2> QED BY <1>a, <2>1, <2>2, <2>3
<1>7. CASE UNCHANGED vars
  BY <1>7 DEF vars, Current
<1> QED BY <1>2, <1>3, <1>4, <1>5, <1>6, <1>7 DEF Moves

LEMMA UnansweredStep ==
  ASSUME NEW n \in Nat \ {0}, NEW s, NEW f, TypedBy(n), Unanswered, Moves(n, s, f)
  PROVE  Unanswered'
<1>1. ASSUME NEW w \in Writer, NEW c, Become(w, c), c.pc # "done" => c.answer = "none"
      PROVE  Unanswered'
  BY <1>1, OneGoesOn DEF Unanswered
<1>2. ASSUME NEW w \in Writer, Observes(w) PROVE Unanswered'
  BY <1>1, <1>2, CallFacts DEF Observes, Unanswered
<1>3. ASSUME NEW w \in Writer, Refuses(w) PROVE Unanswered'
  BY <1>1, <1>3, CallFacts DEF Refuses
<1>4. ASSUME NEW w \in Writer, GivesUp(w, n) PROVE Unanswered'
  BY <1>1, <1>4, CallFacts DEF GivesUp
<1>5. ASSUME NEW w \in Writer, Retries(w, n) PROVE Unanswered'
  BY <1>1, <1>5, CallFacts DEF Retries, Unanswered
<1>6. ASSUME NEW w \in Writer, Become(w, Done(w, "patched")) PROVE Unanswered'
  BY <1>1, <1>6, CallFacts
<1>7. CASE UNCHANGED call
  BY <1>7 DEF Unanswered
<1> QED BY <1>2, <1>3, <1>4, <1>5, <1>6, <1>7 DEF Moves, Lands, ComesOrGoes, vars

LEMMA DocumentInit == ASSUME NEW n \in Nat \ {0} PROVE Init => DocumentInv(n)
<1>1. Init => Current /\ Unanswered
  BY DEF Init, Current, Unanswered
<1> QED BY <1>1, TypedInit DEF DocumentInv

LEMMA DocumentStep ==
  ASSUME NEW n \in Nat \ {0}, NEW s, DocumentInv(n), Moves(n, s, "upserted")
  PROVE  DocumentInv(n)'
BY TypedStep, CurrentStep, UnansweredStep DEF DocumentInv

(* What the requests have been told. *)
Tales == [w \in Writer |-> Told(call[w].answer)]

(* A step is a patch applied to what is stored, a refusal, or nothing.     *)
LEMMA PatchStep ==
  ASSUME NEW n \in Nat \ {0}, NEW s, DocumentInv(n), Moves(n, s, "upserted")
  PROVE  \/ doc'.fields = doc.fields /\ Tales' = Tales
         \/ \E w \in Writer :
              /\ Tales[w] = "nothing"
              /\ \/ doc'.fields = doc.fields /\ Tales' = [Tales EXCEPT ![w] = "refused"]
                 \/ doc'.fields = Merge(doc.fields, w)
                    /\ (Tales' = [Tales EXCEPT ![w] = "stored"] \/ Tales' = Tales)
<1>a. TypedBy(n) /\ Current /\ Unanswered
  BY DEF DocumentInv
<1>1. ASSUME NEW w \in Writer, NEW c, Become(w, c), c.answer = call[w].answer
      PROVE  Tales' = Tales
  <2>1. \A v \in Writer : call'[v].answer = call[v].answer
    BY <1>a, <1>1, OneGoesOn
  <2> QED BY <2>1 DEF Tales
<1>2. ASSUME NEW w \in Writer, NEW a, Become(w, Done(w, a)), call[w].pc # "done",
             a \in {"patched", "absent", "tooLarge", "conflict", "failed"}
      PROVE  /\ Tales[w] = "nothing"
             /\ Tales' = [Tales EXCEPT ![w] = IF a = "patched" THEN "stored" ELSE "refused"]
  <2>1. call'[w].answer = a /\ call[w].answer = "none"
    BY <1>a, <1>2, OneGoesOn, CallFacts DEF Unanswered
  <2>2. \A v \in Writer : v # w => call'[v].answer = call[v].answer
    BY <1>a, <1>2, OneGoesOn
  <2>3. Told(a) = IF a = "patched" THEN "stored" ELSE "refused"
    BY <1>2 DEF Told
  <2>4. Tales[w] = "nothing"
    BY <2>1 DEF Tales, Told
  <2>5. Tales' = [v \in Writer |-> Told(call'[v].answer)]
    BY DEF Tales
  <2>6. \A v \in Writer :
          Told(call'[v].answer)
            = [Tales EXCEPT ![w] = IF a = "patched" THEN "stored" ELSE "refused"][v]
    BY <2>1, <2>2, <2>3 DEF Tales
  <2>7. Tales \in [Writer -> {"nothing", "stored", "refused"}]
    BY DEF Tales, Told
  <2> QED BY <2>4, <2>5, <2>6, <2>7
<1>3. ASSUME NEW w \in Writer, Observes(w) PROVE doc' = doc /\ Tales' = Tales
  BY <1>a, <1>1, <1>3, CallFacts DEF Observes
<1>4. ASSUME NEW w \in Writer, Retries(w, n) PROVE doc' = doc /\ Tales' = Tales
  BY <1>a, <1>1, <1>4, CallFacts DEF Retries
<1>5. ASSUME NEW w \in Writer, Refuses(w) \/ GivesUp(w, n)
      PROVE  doc' = doc /\ Tales[w] = "nothing" /\ Tales' = [Tales EXCEPT ![w] = "refused"]
  BY <1>2, <1>5 DEF Refuses, GivesUp
<1>6. ASSUME NEW w \in Writer, NEW clock \in Stamps, Lands(w, clock, s)
      PROVE  /\ doc'.fields = Merge(doc.fields, w) /\ Tales[w] = "nothing"
             /\ Tales' = [Tales EXCEPT ![w] = "stored"] \/ Tales' = Tales
  <2>1. call[w].seen.fields = doc.fields
    BY <1>a, <1>6 DEF Lands, Unchanged, Current
  <2>2. doc'.fields = Merge(doc.fields, w)
    BY <1>6, <2>1 DEF Lands, Stored
  <2>3. Tales[w] = "nothing"
    BY <1>a, <1>6 DEF Lands, Unanswered, Tales, Told
  <2>4. Tales' = [Tales EXCEPT ![w] = "stored"] \/ Tales' = Tales
    BY <1>2, <1>6 DEF Lands, Tales
  <2> QED BY <2>2, <2>3, <2>4
<1>7. CASE UNCHANGED vars
  BY <1>7 DEF vars, Tales
<1> HIDE DEF Tales
<1> QED BY <1>3, <1>4, <1>5, <1>6, <1>7 DEF Moves

(* Whatever the clocks say, a put that lands moves the token on. *)
LEMMA TokenStep ==
  ASSUME NEW n \in Nat \ {0}, NEW s, NEW f, TypedBy(n), Moves(n, s, f),
         doc.state = "present", doc'.state = "present", doc' # doc
  PROVE  doc'.token > doc.token
<1>1. ASSUME NEW w \in Writer, NEW clock \in Stamps, Lands(w, clock, s)
      PROVE  doc'.token > doc.token
  BY <1>1, StoredFacts DEF Lands
<1>2. ~ComesOrGoes
  BY DEF ComesOrGoes, NoDocument
<1> QED BY <1>1, <1>2 DEF Moves, Observes, Refuses, GivesUp, Retries, vars

-----------------------------------------------------------------------------
(* Requests that are as few as the attempts.  One loses only to another    *)
(* that has landed since, and who has landed is done.                      *)
Landed(w) == {v \in Writer \ {w} : call[v].answer = "patched"}

Counted(n) ==
  \A w \in Writer :
    /\ call[w].attempt <= Cardinality(Landed(w))
    /\ call[w].pc = "write" /\ ~Unchanged(w)
         => call[w].attempt < Cardinality(Landed(w))
    /\ Cardinality(Writer) <= n => call[w].answer # "conflict"

LEMMA LandedFinite ==
  ASSUME IsFiniteSet(Writer), NEW w \in Writer
  PROVE  /\ IsFiniteSet(Landed(w)) /\ Cardinality(Landed(w)) \in Nat
         /\ Cardinality(Writer) \in Nat /\ Cardinality(Landed(w)) < Cardinality(Writer)
<1>1. /\ IsFiniteSet(Writer \ {w}) /\ Cardinality(Writer \ {w}) = Cardinality(Writer) - 1
      /\ Cardinality(Writer) \in Nat
  BY FS_RemoveElement, FS_CardinalityType
<1>2. Landed(w) \subseteq Writer \ {w}
  BY DEF Landed
<1>3. /\ IsFiniteSet(Landed(w)) /\ Cardinality(Landed(w)) <= Cardinality(Writer \ {w})
  BY <1>1, <1>2, FS_Subset
<1>4. Cardinality(Landed(w)) \in Nat
  BY <1>3, FS_CardinalityType
<1> QED BY <1>1, <1>3, <1>4

LEMMA CountedInit == ASSUME IsFiniteSet(Writer), NEW n PROVE Init => Counted(n)
<1> SUFFICES ASSUME Init, NEW w \in Writer
             PROVE  /\ call[w].attempt = 0 /\ call[w].pc = "idle" /\ call[w].answer = "none"
                    /\ 0 <= Cardinality(Landed(w))
  BY DEF Counted
<1> QED BY LandedFinite DEF Init

LEMMA CountedStep ==
  ASSUME IsFiniteSet(Writer), NEW n \in Nat \ {0}, DocumentInv(n), Counted(n),
         Moves(n, FALSE, "upserted")
  PROVE  Counted(n)'
<1>a. TypedBy(n) /\ Current /\ Unanswered
  BY DEF DocumentInv
<1>b. \A w \in Writer : call[w].attempt \in Nat
  BY <1>a DEF TypedBy, CallBy
<1>c. \A w \in Writer : Cardinality(Landed(w)) \in Nat
  BY LandedFinite
<1>d. \A w \in Writer :
        /\ call[w].attempt <= Cardinality(Landed(w))
        /\ call[w].pc = "write" /\ ~Unchanged(w)
             => call[w].attempt < Cardinality(Landed(w))
        /\ Cardinality(Writer) <= n => call[w].answer # "conflict"
  BY DEF Counted
(* The document stays, and nobody is told of a landing. *)
<1>1. ASSUME NEW w \in Writer, NEW c, Become(w, c), doc' = doc,
             c.answer = call[w].answer
               \/ (call[w].answer # "patched" /\ c.answer # "patched"
                     /\ c.answer # "conflict"),
             c.attempt <= Cardinality(Landed(w)),
             c.pc = "write" => c.seen = doc
      PROVE  Counted(n)'
  <2>1. call'[w] = c /\ \A v \in Writer : v # w => call'[v] = call[v]
    BY <1>a, <1>1, OneGoesOn
  <2>2. \A v \in Writer : Landed(v)' = Landed(v)
    BY <1>1, <2>1 DEF Landed
  <2>3. ASSUME NEW v \in Writer
        PROVE  /\ call'[v].attempt <= Cardinality(Landed(v))
               /\ call'[v].pc = "write" /\ call'[v].seen.token # doc'.token
                    => call'[v].attempt < Cardinality(Landed(v))
               /\ Cardinality(Writer) <= n => call'[v].answer # "conflict"
    <3>1. CASE v = w
      BY <1>1, <1>d, <2>1, <3>1
    <3>2. CASE v # w
      BY <1>1, <1>d, <2>1, <3>2 DEF Unchanged
    <3> QED BY <3>1, <3>2
  <2> QED BY <2>2, <2>3 DEF Counted, Unchanged
<1>2. ASSUME NEW w \in Writer, Observes(w) PROVE Counted(n)'
  BY <1>a, <1>d, <1>1, <1>2, CallFacts DEF Observes
<1>3. ASSUME NEW w \in Writer, Refuses(w) PROVE Counted(n)'
  <2>1. call[w].answer = "none"
    BY <1>a, <1>3 DEF Refuses, Unanswered
  <2>2. PICK a \in {"absent", "tooLarge", "failed"} : Become(w, Done(w, a))
    BY <1>3 DEF Refuses
  <2>3. /\ Done(w, a).answer = a /\ Done(w, a).pc = "done"
        /\ Done(w, a).attempt = call[w].attempt
    BY <1>a, CallFacts
  <2> QED BY <1>1, <1>3, <1>d, <2>1, <2>2, <2>3 DEF Refuses
<1>4. ASSUME NEW w \in Writer, Retries(w, n) PROVE Counted(n)'
  <2>1. call[w].attempt + 1 <= Cardinality(Landed(w))
    BY <1>4, <1>b, <1>c, <1>d DEF Retries
  <2> QED BY <1>a, <1>1, <1>4, <2>1, CallFacts DEF Retries
(* Who gives up has lost to n others. *)
<1>5. ASSUME NEW w \in Writer, GivesUp(w, n) PROVE Counted(n)'
  <2>1. Become(w, Done(w, "conflict")) /\ doc' = doc
    BY <1>5 DEF GivesUp
  <2>2. call'[w] = Done(w, "conflict") /\ \A v \in Writer : v # w => call'[v] = call[v]
    BY <1>a, <2>1, OneGoesOn
  <2>3. /\ Done(w, "conflict").pc = "done" /\ Done(w, "conflict").answer = "conflict"
        /\ Done(w, "conflict").attempt = call[w].attempt
    BY <1>a, CallFacts
  <2>4. call[w].answer = "none"
    BY <1>a, <1>5 DEF GivesUp, Unanswered
  <2>5. \A v \in Writer : Landed(v)' = Landed(v)
    BY <2>2, <2>3, <2>4 DEF Landed
  <2>6. ~(Cardinality(Writer) <= n)
    <3>1. n - 1 < Cardinality(Landed(w))
      BY <1>5, <1>d DEF GivesUp
    <3>2. Cardinality(Landed(w)) < Cardinality(Writer) /\ Cardinality(Writer) \in Nat
      BY LandedFinite
    <3> QED BY <1>c, <3>1, <3>2
  <2>7. ASSUME NEW v \in Writer
        PROVE  /\ call'[v].attempt <= Cardinality(Landed(v))
               /\ call'[v].pc = "write" /\ call'[v].seen.token # doc'.token
                    => call'[v].attempt < Cardinality(Landed(v))
    <3>1. CASE v = w
      BY <1>d, <2>2, <2>3, <3>1
    <3>2. CASE v # w
      BY <1>d, <2>1, <2>2, <3>2 DEF Unchanged
    <3> QED BY <3>1, <3>2
  <2> QED BY <2>5, <2>6, <2>7 DEF Counted, Unchanged
<1>6. ASSUME NEW w \in Writer, NEW clock \in Stamps, Lands(w, clock, FALSE)
      PROVE  Counted(n)'
  <2>1. Become(w, Done(w, "patched"))
    BY <1>6 DEF Lands
  <2>2. call'[w] = Done(w, "patched") /\ \A v \in Writer : v # w => call'[v] = call[v]
    BY <1>a, <2>1, OneGoesOn
  <2>3. /\ Done(w, "patched").pc = "done" /\ Done(w, "patched").answer = "patched"
        /\ Done(w, "patched").attempt = call[w].attempt
    BY <1>a, CallFacts
  <2>4. call[w].answer = "none"
    BY <1>a, <1>6 DEF Lands, Unanswered
  <2>5. Landed(w)' = Landed(w)
    BY <2>2 DEF Landed
  <2>6. ASSUME NEW v \in Writer, v # w
        PROVE  Cardinality(Landed(v)') = Cardinality(Landed(v)) + 1
    <3>1. Landed(v)' = Landed(v) \cup {w} /\ w \notin Landed(v)
      BY <2>2, <2>3, <2>4, <2>6 DEF Landed
    <3>2. IsFiniteSet(Landed(v))
      BY LandedFinite
    <3> QED BY <3>1, <3>2, FS_AddElement
  <2>7. ASSUME NEW v \in Writer
        PROVE  /\ call'[v].attempt <= Cardinality(Landed(v)')
               /\ call'[v].pc = "write" => call'[v].attempt < Cardinality(Landed(v)')
               /\ Cardinality(Writer) <= n => call'[v].answer # "conflict"
    <3>1. CASE v = w
      BY <1>d, <2>2, <2>3, <2>5, <3>1
    <3>2. CASE v # w
      <4>1. call[v].attempt <= Cardinality(Landed(v)) /\ call[v].attempt \in Nat
        BY <1>b, <1>d
      <4>2. Cardinality(Landed(v)') = Cardinality(Landed(v)) + 1
        BY <2>6, <3>2
      <4>3. call[v].attempt < Cardinality(Landed(v)) + 1
        BY <1>c, <4>1
      <4>4. call'[v] = call[v] /\ (Cardinality(Writer) <= n => call[v].answer # "conflict")
        BY <1>d, <2>2, <3>2
      <4> QED BY <1>c, <4>1, <4>2, <4>3, <4>4
    <3> QED BY <3>1, <3>2
  <2> QED BY <2>7 DEF Counted
<1>7. CASE UNCHANGED vars
  BY <1>7 DEF vars, Counted, Landed, Unchanged
<1> QED BY <1>2, <1>3, <1>4, <1>5, <1>6, <1>7 DEF Moves
-----------------------------------------------------------------------------
(* The parts run side by side, one of them at a time. *)
partVars ==
  <<vars, rolesVars, partitionVars, listingVars, telemetryVars, layoutVars, part>>

LEMMA PartsApart ==
  ASSUME [MCNext]_partVars
  PROVE  /\ part' = part
         /\ part = "resent" => [Next]_vars
         /\ part = "patient" => [Patient!Next]_vars
         /\ part = "webhook" => [Webhook!Next]_vars
         /\ part \notin {"resent", "patient", "webhook"} => UNCHANGED vars
         /\ [RolesOf!Next]_rolesVars
         /\ [PartitionOf!Next]_partitionVars
         /\ [ListingOf!Next]_listingVars
         /\ [LogOf!Next]_telemetryVars
         /\ [KeysOf!Next]_layoutVars
BY DEF MCNext, partVars

LEMMA PartsKeepMoving ==
  ASSUME [MCNext]_partVars
  PROVE  /\ part' = part
         /\ \/ part = "resent" /\ Moves(MaxAttempts, StoreFails, Family)
            \/ part = "patient" /\ Moves(PatientAttempts, FALSE, Family)
            \/ part = "webhook" /\ Moves(PatientAttempts, FALSE, "added")
            \/ part \notin {"resent", "patient", "webhook"} /\ UNCHANGED vars
BY PartsApart, ResentMoves, PatientMoves, WebhookMoves

(* What holds of the documents in each part. *)
DocumentsInv ==
  /\ part = "resent" => DocumentInv(MaxAttempts)
  /\ part = "patient" => DocumentInv(PatientAttempts)

LEMMA DocumentsInvariance == ASSUME Family = "upserted" PROVE MCSpec => []DocumentsInv
<1>a. MaxAttempts \in Nat \ {0} /\ PatientAttempts \in Nat \ {0}
  BY DocumentsAssumption, PatienceAssumption
<1>1. MCInit => DocumentsInv
  BY <1>a, DocumentInit DEF MCInit, DocumentsInv
<1>2. DocumentsInv /\ [MCNext]_partVars => DocumentsInv'
  <2> SUFFICES ASSUME DocumentsInv, [MCNext]_partVars PROVE DocumentsInv'
    OBVIOUS
  <2>1. part' = part
    BY PartsApart
  <2>2. CASE part = "resent"
    <3>1. Moves(MaxAttempts, StoreFails, "upserted")
      BY <2>2, PartsKeepMoving
    <3>2. DocumentInv(MaxAttempts)'
      BY <1>a, <2>2, <3>1, DocumentStep DEF DocumentsInv
    <3> QED BY <2>1, <2>2, <3>2 DEF DocumentsInv
  <2>3. CASE part = "patient"
    <3>1. Moves(PatientAttempts, FALSE, "upserted")
      BY <2>3, PartsKeepMoving
    <3>2. DocumentInv(PatientAttempts)'
      BY <1>a, <2>3, <3>1, DocumentStep DEF DocumentsInv
    <3> QED BY <2>1, <2>3, <3>2 DEF DocumentsInv
  <2> QED BY <2>1, <2>2, <2>3 DEF DocumentsInv
<1> QED BY <1>1, <1>2, PTL DEF MCSpec, partVars

(* Every reachable state is well typed; in particular no request begins an *)
(* attempt past the last one.                                              *)
THEOREM TypeCorrect == Spec => []TypeOK
<1>a. MaxAttempts \in Nat \ {0}
  BY DocumentsAssumption
<1>b. TypedBy(MaxAttempts) <=> TypeOK
  BY DEF TypedBy, CallBy, TypeOK, Call
<1>c. TypedBy(MaxAttempts)' <=> TypeOK'
  BY DEF TypedBy, CallBy, TypeOK, Call
<1>1. Init => TypeOK
  BY <1>a, <1>b, TypedInit
<1>2. TypeOK /\ [Next]_vars => TypeOK'
  BY <1>a, <1>b, <1>c, ResentMoves, TypedStep
<1> QED BY <1>1, <1>2, PTL DEF Spec

(* However the patches of all three kinds of document are interleaved, and *)
(* whoever removes and adds what they patch, the stored document fits: the *)
(* refusal is on the merged document (MaxSettingsBytes, MaxTemplateBytes). *)
THEOREM NeverOutgrown == MCSpec => []FitsTheItem
<1>1. MCInit => FitsTheItem
  <2> SUFFICES ASSUME MCInit PROVE FitsTheItem
    OBVIOUS
  <2>1. {x \in Field : doc.fields[x] # NoWriter} = {}
    BY DEF MCInit, Init, NoDocument, Unset
  <2>2. Size(doc.fields) = 0
    BY <2>1, FS_EmptySet, Zenon DEF Size
  <2> QED BY <2>2, DocumentsAssumption DEF FitsTheItem
<1>2. FitsTheItem /\ [MCNext]_partVars => FitsTheItem'
  <2> SUFFICES ASSUME FitsTheItem, [MCNext]_partVars PROVE FitsTheItem'
    OBVIOUS
  <2>1. CASE UNCHANGED vars
    BY <2>1 DEF vars, FitsTheItem, Size
  <2>2. ASSUME NEW n, NEW s, NEW f, Moves(n, s, f) PROVE FitsTheItem'
    BY <2>2, FitsStep
  <2> QED BY <2>1, <2>2, PartsKeepMoving
<1> QED BY <1>1, <1>2, PTL DEF MCSpec, partVars

(* Whatever the clocks say, a put that lands moves the token on (nextStamp).*)
THEOREM StampsNeverRepeat == Spec => TokensAdvance
<1>a. MaxAttempts \in Nat \ {0}
  BY DocumentsAssumption
<1>1. TypeOK /\ [Next]_vars
        => [(doc.state = "present" /\ doc'.state = "present" /\ doc' # doc)
              => doc'.token > doc.token]_vars
  <2> SUFFICES ASSUME TypeOK, [Next]_vars, doc.state = "present",
                      doc'.state = "present", doc' # doc
               PROVE  doc'.token > doc.token
    OBVIOUS
  <2>1. TypedBy(MaxAttempts)
    BY DEF TypedBy, CallBy, TypeOK, Call
  <2> QED BY <1>a, <2>1, ResentMoves, TokenStep
<1> QED BY <1>1, TypeCorrect, PTL DEF Spec, TokensAdvance

(* The settings and the mail templates lose no patch: a put that lands,    *)
(* heard of or not, is the patch applied to what is stored then, and a     *)
(* request told "patched" has landed (UpdateSettings: two administrators   *)
(* patching different keys both land whichever order they arrive in).      *)
THEOREM NoPatchIsLost == ASSUME Family = "upserted" PROVE MCSpec => DocumentsArePatched
<1> DEFINE fields == IF part = "webhook" THEN Unset ELSE doc.fields
           told == [w \in Writer |->
                      IF part = "webhook" THEN "nothing" ELSE Told(call[w].answer)]
<1>a. MaxAttempts \in Nat \ {0} /\ PatientAttempts \in Nat \ {0}
  BY DocumentsAssumption, PatienceAssumption
<1>1. MCInit => DocPatched!Init
  <2> SUFFICES ASSUME MCInit PROVE DocPatched!Init
    OBVIOUS
  <2>1. doc.fields = [f \in Field |-> NoWriter] /\ Unset = [f \in Field |-> NoWriter]
    BY DEF MCInit, Init, NoDocument, Unset
  <2>2. told = [w \in Writer |-> "nothing"]
    BY DEF MCInit, Init, Told
  <2> QED BY <2>1, <2>2 DEF DocPatched!Init
<1>2. DocumentsInv /\ [MCNext]_partVars => [DocPatched!Next]_(DocPatched!vars)
  <2> SUFFICES ASSUME DocumentsInv, [MCNext]_partVars
               PROVE  [DocPatched!Next]_(DocPatched!vars)
    OBVIOUS
  <2>1. part' = part
    BY PartsApart
  <2>2. ASSUME fields' = fields, told' = told PROVE [DocPatched!Next]_(DocPatched!vars)
    BY <2>2 DEF DocPatched!vars
  <2>3. CASE part = "webhook"
    <3>1. fields' = fields /\ told' = told
      BY <2>1, <2>3 DEF Unset
    <3> HIDE DEF fields, told
    <3> QED BY <2>2, <3>1
  <2>4. CASE part \notin {"resent", "patient", "webhook"}
    <3>1. UNCHANGED vars
      BY <2>4, PartsApart
    <3>2. fields' = fields /\ told' = told
      BY <2>1, <3>1 DEF Unset, vars
    <3> HIDE DEF fields, told
    <3> QED BY <2>2, <3>2
  <2>5. ASSUME part # "webhook", NEW n \in Nat \ {0}, NEW s, DocumentInv(n),
               Moves(n, s, "upserted")
        PROVE  [DocPatched!Next]_(DocPatched!vars)
    <3>1. /\ fields = doc.fields /\ fields' = doc'.fields
          /\ told = Tales /\ told' = Tales'
      BY <2>1, <2>5 DEF Tales
    <3> HIDE DEF fields, told
    <3>2. CASE doc'.fields = doc.fields /\ Tales' = Tales
      BY <2>2, <3>1, <3>2
    <3>3. ASSUME NEW w \in Writer, Tales[w] = "nothing",
                 \/ doc'.fields = doc.fields /\ Tales' = [Tales EXCEPT ![w] = "refused"]
                 \/ doc'.fields = Merge(doc.fields, w)
                    /\ (Tales' = [Tales EXCEPT ![w] = "stored"] \/ Tales' = Tales)
          PROVE  DocPatched!Next
      <4>1. /\ told[w] = "nothing"
            /\ \/ fields' = fields /\ told' = [told EXCEPT ![w] = "refused"]
               \/ fields' = Merge(fields, w)
                  /\ (told' = [told EXCEPT ![w] = "stored"] \/ told' = told)
        BY <3>1, <3>3
      <4>2. DocPatched!Land(w) \/ DocPatched!LandUnheard(w) \/ DocPatched!Refuse(w)
        BY <4>1 DEF fields, told, DocPatched!Land, DocPatched!LandUnheard,
                    DocPatched!Refuse, DocPatched!Tell, DocPatched!Merge, Merge
      <4> QED BY <4>2 DEF DocPatched!Next
    <3> QED BY <2>5, <3>2, <3>3, PatchStep
  <2>6. CASE part = "resent"
    <3>1. Moves(MaxAttempts, StoreFails, "upserted") /\ DocumentInv(MaxAttempts)
      BY <2>6, PartsKeepMoving DEF DocumentsInv
    <3> QED BY <1>a, <2>5, <2>6, <3>1
  <2>7. CASE part = "patient"
    <3>1. Moves(PatientAttempts, FALSE, "upserted") /\ DocumentInv(PatientAttempts)
      BY <2>7, PartsKeepMoving DEF DocumentsInv
    <3> QED BY <1>a, <2>5, <2>7, <3>1
  <2> QED BY <2>3, <2>4, <2>6, <2>7
<1> QED BY <1>1, <1>2, DocumentsInvariance, PTL DEF MCSpec, partVars, DocPatched!Spec,
           DocumentsArePatched

(* Requests that are no more than the attempts each of them has, and whose *)
(* calls do not fail, are never turned away for contention: "a writer      *)
(* loses at most once per concurrent writer" (templatePatchAttempts).      *)
THEOREM EnoughAttempts ==
  ASSUME Family = "upserted", IsFiniteSet(Writer)
  PROVE  MCSpec => []PatientNeverConflict
<1> DEFINE Inv == part = "patient" => Counted(PatientAttempts)
<1>a. PatientAttempts \in Nat \ {0}
  BY PatienceAssumption
<1>1. MCInit => Inv
  BY CountedInit DEF MCInit
<1>2. DocumentsInv /\ Inv /\ [MCNext]_partVars => Inv'
  <2> SUFFICES ASSUME DocumentsInv, Inv, [MCNext]_partVars, part' = "patient"
               PROVE  Counted(PatientAttempts)'
    OBVIOUS
  <2>1. part = "patient"
    BY PartsApart
  <2>2. Moves(PatientAttempts, FALSE, "upserted") /\ DocumentInv(PatientAttempts)
    BY <2>1, PartsKeepMoving DEF DocumentsInv
  <2> QED BY <1>a, <2>1, <2>2, CountedStep
<1>3. Inv => PatientNeverConflict
  <2>1. Patient!Cardinality(Writer) = Cardinality(Writer)
    BY DEF Patient!Cardinality, Cardinality
  <2> QED BY <2>1 DEF Counted, PatientNeverConflict, Patient!NobodyConflicts
<1> HIDE DEF Inv
<1> QED BY <1>1, <1>2, <1>3, DocumentsInvariance, PTL DEF MCSpec, partVars
-----------------------------------------------------------------------------
(* Roles.  What a DeleteRole has yet to sweep, or could not know of.       *)
SweepCovers(d) ==
  /\ deleter[d].pc = "sweep" => holders \subseteq late[d] \cup deleter[d].todo
  /\ deleter[d].answer = "deleted"
       => deleter[d].pc = "done" /\ holders \subseteq late[d]

RolesInv == RolesOf!TypeOK /\ \A d \in Deleter : SweepCovers(d)

LEMMA RolesInit == RolesOf!Init => RolesInv
BY RolesAssumption
   DEF RolesOf!Init, RolesInv, SweepCovers, RolesOf!TypeOK, RolesOf!Definition,
       RolesOf!NoDefinition, RolesOf!DeleterState, RolesOf!DefinitionKey

(* What the steps that do not touch a sweep do to the assignments.         *)
LEMMA AssignmentStep ==
  ASSUME RolesInv, deleter' = deleter, RolesOf!TypeOK',
         \A d \in Deleter :
            \/ holders' \subseteq holders /\ late'[d] = late[d]
            \/ \E u \in User :
                 /\ holders' = holders \cup {u}
                 /\ late'[d] = IF deleter[d].pc # "idle" THEN late[d] \cup {u}
                               ELSE late[d]
  PROVE  RolesInv'
<1>1. ASSUME NEW d \in Deleter PROVE SweepCovers(d)'
  <2>1. SweepCovers(d)
    BY DEF RolesInv
  <2>2. CASE holders' \subseteq holders /\ late'[d] = late[d]
    BY <2>1, <2>2 DEF SweepCovers
  <2>3. ASSUME NEW u \in User, holders' = holders \cup {u},
               late'[d] = IF deleter[d].pc # "idle" THEN late[d] \cup {u} ELSE late[d]
        PROVE  SweepCovers(d)'
    <3>1. CASE deleter[d].pc # "idle"
      BY <2>1, <2>3, <3>1 DEF SweepCovers
    <3>2. CASE deleter[d].pc = "idle"
      BY <2>1, <3>2 DEF SweepCovers
    <3> QED BY <3>1, <3>2
  <2> QED BY <2>2, <2>3
<1> QED BY <1>1 DEF RolesInv

(* A deleter goes on, and the others stay.                                 *)
LEMMA DeleterGoesOn ==
  ASSUME RolesInv, NEW d \in Deleter, NEW st \in RolesOf!DeleterState,
         RolesOf!Become(d, st)
  PROVE  /\ deleter' \in [Deleter -> RolesOf!DeleterState]
         /\ deleter'[d] = st
         /\ \A e \in Deleter : e # d => deleter'[e] = deleter[e]
BY DEF RolesInv, RolesOf!TypeOK, RolesOf!Become

LEMMA SweepStep ==
  ASSUME RolesInv, NEW d \in Deleter, NEW st \in RolesOf!DeleterState,
         RolesOf!Become(d, st), holders' \subseteq holders,
         \A e \in Deleter : e # d => late'[e] = late[e],
         st.pc = "sweep" => holders' \subseteq late'[d] \cup st.todo,
         st.answer = "deleted" => st.pc = "done" /\ holders' \subseteq late'[d]
  PROVE  \A e \in Deleter : SweepCovers(e)'
<1> TAKE e \in Deleter
<1>1. CASE e = d
  BY <1>1, DeleterGoesOn DEF SweepCovers
<1>2. CASE e # d
  <2>1. deleter'[e] = deleter[e] /\ late'[e] = late[e]
    BY <1>2, DeleterGoesOn
  <2> QED BY <2>1 DEF RolesInv, SweepCovers
<1> QED BY <1>1, <1>2

LEMMA RolesStep == RolesInv /\ [RolesOf!Next]_rolesVars => RolesInv'
<1> SUFFICES ASSUME RolesInv, [RolesOf!Next]_rolesVars PROVE RolesInv'
  OBVIOUS
<1>a. /\ definition \in RolesOf!Definition
      /\ holders \subseteq User /\ index \subseteq User
      /\ deleter \in [Deleter -> RolesOf!DeleterState]
      /\ defined \in Nat /\ since \in [User -> 0..defined]
      /\ late \in [Deleter -> SUBSET User]
      /\ \A d \in Deleter : SweepCovers(d)
  BY DEF RolesInv, RolesOf!TypeOK
<1>b. RolesOf!DefinitionKey \notin User
  BY RolesAssumption DEF RolesOf!boundsAreNumbers
<1>c. \A d \in Deleter : /\ deleter[d].todo \subseteq User \cup {RolesOf!DefinitionKey}
                         /\ deleter[d].swept \subseteq User
                         /\ deleter[d].answer \in {"none", "deleted", "tooLarge", "failed"}
                         /\ deleter[d].pc \in {"idle", "sweep", "done"}
  BY <1>a DEF RolesOf!DeleterState
<1>1. ASSUME NEW ps \in SUBSET Permission, RolesOf!Define(ps) PROVE RolesInv'
  <2>1. defined' \in Nat /\ defined <= defined'
    BY <1>1, <1>a DEF RolesOf!Define
  <2>2. since' \in [User -> 0..defined']
    BY <1>1, <1>a, <2>1 DEF RolesOf!Define
  <2>3. RolesOf!TypeOK'
    BY <1>1, <1>a, <2>1, <2>2 DEF RolesOf!Define, RolesOf!TypeOK, RolesOf!Definition
  <2> QED BY <1>1, <2>3, AssignmentStep DEF RolesOf!Define
<1>2. ASSUME NEW p \in Permission, RolesOf!AddPermissionToRole(p) PROVE RolesInv'
  <2>1. definition.permissions \cup {p} \in SUBSET Permission
    BY <1>a DEF RolesOf!Definition, RolesOf!NoDefinition
  <2> QED BY <1>1, <1>2, <2>1 DEF RolesOf!AddPermissionToRole
<1>3. ASSUME NEW p \in Permission, RolesOf!RemovePermissionFromRole(p) PROVE RolesInv'
  <2>1. RolesOf!TypeOK'
    BY <1>3, <1>a
       DEF RolesOf!RemovePermissionFromRole, RolesOf!TypeOK, RolesOf!Definition,
           RolesOf!NoDefinition, RolesOf!Defined
  <2> QED BY <1>3, <2>1, AssignmentStep DEF RolesOf!RemovePermissionFromRole
<1>4. ASSUME NEW u \in User, RolesOf!AddRoleToUser(u) PROVE RolesInv'
  <2>1. late' \in [Deleter -> SUBSET User]
    BY <1>4, <1>a DEF RolesOf!AddRoleToUser
  <2>2. since' \in [User -> 0..defined]
    <3>1. defined \in 0..defined
      BY <1>a
    <3> QED BY <1>4, <1>a, <3>1 DEF RolesOf!AddRoleToUser
  <2>3. RolesOf!TypeOK'
    BY <1>4, <1>a, <2>1, <2>2 DEF RolesOf!AddRoleToUser, RolesOf!TypeOK
  <2>4. \A d \in Deleter :
          /\ holders' = holders \cup {u}
          /\ late'[d] = IF deleter[d].pc # "idle" THEN late[d] \cup {u} ELSE late[d]
    BY <1>4 DEF RolesOf!AddRoleToUser
  <2>5. deleter' = deleter
    BY <1>4 DEF RolesOf!AddRoleToUser
  <2> QED BY <2>3, <2>4, <2>5, AssignmentStep
<1>5. ASSUME NEW u \in User, RolesOf!RemoveRoleFromUser(u) PROVE RolesInv'
  <2>1. since' \in [User -> 0..defined]
    <3>1. 0 \in 0..defined
      BY <1>a
    <3> QED BY <1>5, <1>a, <3>1 DEF RolesOf!RemoveRoleFromUser
  <2>2. RolesOf!TypeOK'
    BY <1>5, <1>a, <2>1 DEF RolesOf!RemoveRoleFromUser, RolesOf!TypeOK
  <2> QED BY <1>5, <2>2, AssignmentStep DEF RolesOf!RemoveRoleFromUser
<1>6. ASSUME NEW u \in User, RolesOf!Propagate(u) PROVE RolesInv'
  <2>1. RolesOf!TypeOK'
    BY <1>6, <1>a DEF RolesOf!Propagate, RolesOf!TypeOK
  <2> QED BY <1>6, <2>1, AssignmentStep DEF RolesOf!Propagate
<1>7. ASSUME NEW d \in Deleter, RolesOf!DeleteRole(d) PROVE RolesInv'
  <2>1. CASE RolesOf!Cardinality(index) > MaxHolders
    <3> DEFINE st == [deleter[d] EXCEPT !.pc = "done", !.answer = "tooLarge"]
    <3>1. RolesOf!Become(d, st) /\ late' = late /\ holders' = holders
      BY <1>7, <2>1 DEF RolesOf!DeleteRole
    <3>2. st \in RolesOf!DeleterState /\ st.pc = "done" /\ st.answer = "tooLarge"
      BY <1>a DEF RolesOf!DeleterState
    <3> HIDE DEF st
    <3>3. \A e \in Deleter : SweepCovers(e)'
      BY <3>1, <3>2, SweepStep
    <3>4. RolesOf!TypeOK'
      BY <1>7, <1>a, <3>1, <3>2, DeleterGoesOn DEF RolesOf!DeleteRole, RolesOf!TypeOK
    <3> QED BY <3>3, <3>4 DEF RolesInv
  <2>2. CASE ~(RolesOf!Cardinality(index) > MaxHolders)
    <3> DEFINE st == [deleter[d] EXCEPT !.pc = "sweep", !.todo = RolesOf!Keys]
    <3>1. /\ RolesOf!Become(d, st) /\ holders' = holders
          /\ late' = [late EXCEPT ![d] = holders \ index]
      BY <1>7, <2>2 DEF RolesOf!DeleteRole
    <3>2. /\ st \in RolesOf!DeleterState /\ st.pc = "sweep"
          /\ st.todo = {RolesOf!DefinitionKey} \cup index
          /\ st.answer = deleter[d].answer
      BY <1>a DEF RolesOf!DeleterState, RolesOf!Keys
    <3>3. deleter[d].answer # "deleted"
      BY <1>7, <1>a DEF SweepCovers, RolesOf!DeleteRole
    <3> HIDE DEF st
    <3>4. \A e \in Deleter : SweepCovers(e)'
      <4>1. late'[d] = holders \ index /\ \A e \in Deleter : e # d => late'[e] = late[e]
        BY <1>a, <3>1
      <4> QED BY <3>1, <3>2, <3>3, <4>1, SweepStep
    <3>5. RolesOf!TypeOK'
      BY <1>7, <1>a, <3>1, <3>2, DeleterGoesOn DEF RolesOf!DeleteRole, RolesOf!TypeOK
    <3> QED BY <3>4, <3>5 DEF RolesInv
  <2> QED BY <2>1, <2>2
<1>8. ASSUME NEW d \in Deleter, RolesOf!SweepDefinition(d) PROVE RolesInv'
  <2> DEFINE st == [deleter[d] EXCEPT !.todo = @ \ {RolesOf!DefinitionKey}]
  <2>1. RolesOf!Become(d, st) /\ holders' = holders /\ late' = late
    BY <1>8 DEF RolesOf!SweepDefinition
  <2>2. /\ st \in RolesOf!DeleterState /\ st.pc = "sweep"
        /\ st.todo = deleter[d].todo \ {RolesOf!DefinitionKey}
        /\ st.answer = deleter[d].answer /\ deleter[d].pc = "sweep"
    BY <1>8, <1>a DEF RolesOf!DeleterState, RolesOf!SweepDefinition
  <2> HIDE DEF st
  <2>3. holders \subseteq late[d] \cup st.todo /\ st.answer # "deleted"
    BY <1>a, <1>b, <2>2 DEF SweepCovers
  <2>4. \A e \in Deleter : SweepCovers(e)'
    BY <2>1, <2>2, <2>3, SweepStep
  <2>5. RolesOf!TypeOK'
    BY <1>8, <1>a, <2>1, <2>2, DeleterGoesOn
       DEF RolesOf!SweepDefinition, RolesOf!TypeOK, RolesOf!Definition
  <2> QED BY <2>4, <2>5 DEF RolesInv
<1>9. ASSUME NEW d \in Deleter, NEW u \in User, RolesOf!SweepHolder(d, u) PROVE RolesInv'
  <2> DEFINE st == [deleter[d] EXCEPT !.todo = @ \ {u}, !.swept = @ \cup {u}]
  <2>1. RolesOf!Become(d, st) /\ holders' = holders \ {u} /\ late' = late
    BY <1>9 DEF RolesOf!SweepHolder
  <2>2. /\ st \in RolesOf!DeleterState /\ st.pc = "sweep"
        /\ st.todo = deleter[d].todo \ {u}
        /\ st.answer = deleter[d].answer /\ deleter[d].pc = "sweep"
    BY <1>9, <1>a DEF RolesOf!DeleterState, RolesOf!SweepHolder
  <2> HIDE DEF st
  <2>3. holders' \subseteq late[d] \cup st.todo /\ st.answer # "deleted"
    BY <1>a, <2>1, <2>2 DEF SweepCovers
  <2>4. \A e \in Deleter : SweepCovers(e)'
    BY <2>1, <2>2, <2>3, SweepStep
  <2>5. RolesOf!TypeOK'
    BY <1>9, <1>a, <2>1, <2>2, DeleterGoesOn DEF RolesOf!SweepHolder, RolesOf!TypeOK
  <2> QED BY <2>4, <2>5 DEF RolesInv
<1>10. ASSUME NEW d \in Deleter, RolesOf!Finish(d) PROVE RolesInv'
  <2> DEFINE st == [deleter[d] EXCEPT !.pc = "done", !.answer = "deleted"]
  <2>1. RolesOf!Become(d, st) /\ holders' = holders /\ late' = late
    BY <1>10 DEF RolesOf!Finish
  <2>2. st \in RolesOf!DeleterState /\ st.pc = "done"
    BY <1>a DEF RolesOf!DeleterState
  <2> HIDE DEF st
  <2>3. holders \subseteq late[d]
    BY <1>10, <1>a DEF RolesOf!Finish, SweepCovers
  <2>4. \A e \in Deleter : SweepCovers(e)'
    BY <2>1, <2>2, <2>3, SweepStep
  <2>5. RolesOf!TypeOK'
    BY <1>10, <1>a, <2>1, <2>2, DeleterGoesOn DEF RolesOf!Finish, RolesOf!TypeOK
  <2> QED BY <2>4, <2>5 DEF RolesInv
<1>11. ASSUME NEW d \in Deleter, RolesOf!Abandon(d) PROVE RolesInv'
  <2> DEFINE st == [deleter[d] EXCEPT !.pc = "done", !.answer = "failed"]
  <2>1. RolesOf!Become(d, st) /\ holders' = holders /\ late' = late
    BY <1>11 DEF RolesOf!Abandon
  <2>2. st \in RolesOf!DeleterState /\ st.pc = "done" /\ st.answer = "failed"
    BY <1>a DEF RolesOf!DeleterState
  <2> HIDE DEF st
  <2>3. \A e \in Deleter : SweepCovers(e)'
    BY <2>1, <2>2, SweepStep
  <2>4. RolesOf!TypeOK'
    BY <1>11, <1>a, <2>1, <2>2, DeleterGoesOn DEF RolesOf!Abandon, RolesOf!TypeOK
  <2> QED BY <2>3, <2>4 DEF RolesInv
<1>12. CASE UNCHANGED rolesVars
  BY <1>12 DEF rolesVars, RolesInv, RolesOf!TypeOK, SweepCovers
<1> QED
  BY <1>1, <1>2, <1>3, <1>4, <1>5, <1>6, <1>7, <1>8, <1>9, <1>10, <1>11, <1>12
     DEF RolesOf!Next, RolesOf!CreateRole
-----------------------------------------------------------------------------
(* Partitions.  Every item is still to be read, to be swept, or late.      *)
ReadCovers(c) ==
  /\ clearer[c].pc = "idle" => clearer[c].cursor = 0
  /\ clearer[c].pc = "read"
       => \A i \in items : i > clearer[c].cursor \/ i \in clearer[c].todo
                             \/ i \in putSince[c]
  /\ clearer[c].pc = "sweep" => items \subseteq clearer[c].todo \cup putSince[c]
  /\ clearer[c].answer = "cleared"
       => clearer[c].pc = "end" /\ items \subseteq putSince[c]

(* Of the variables' types, those the argument rests on. *)
PartitionTyped ==
  /\ items \subseteq Item
  /\ clearer \in [Clearer -> PartitionOf!ClearerState]
  /\ putSince \in [Clearer -> SUBSET Item]

PartitionInv == PartitionTyped /\ \A c \in Clearer : ReadCovers(c)

LEMMA PartitionInit == PartitionOf!Init => PartitionInv
BY DEF PartitionOf!Init, PartitionInv, PartitionTyped, ReadCovers,
       PartitionOf!ClearerState, PartitionOf!DirectoryKey

LEMMA ItemsAreNumbers == Item \subseteq Nat \ {0}
BY PartitionsAssumption DEF PartitionOf!boundsAreNumbers

LEMMA PutStep ==
  ASSUME PartitionInv, NEW i \in Item, NEW t, PartitionOf!Put(i, t)
  PROVE  PartitionInv'
<1>1. PartitionTyped'
  BY DEF PartitionInv, PartitionTyped, PartitionOf!Put
<1>2. ASSUME NEW c \in Clearer PROVE ReadCovers(c)'
  <2>1. /\ items' = items \cup {i} /\ clearer' = clearer
        /\ putSince'[c] = IF clearer[c].pc = "idle" THEN putSince[c]
                          ELSE putSince[c] \cup {i}
    BY DEF PartitionOf!Put
  <2>2. ReadCovers(c)
    BY DEF PartitionInv
  <2>3. CASE clearer[c].pc = "idle"
    BY <2>1, <2>2, <2>3 DEF ReadCovers
  <2>4. CASE clearer[c].pc # "idle"
    <3>1. putSince'[c] = putSince[c] \cup {i}
      BY <2>1, <2>4
    <3> QED BY <2>1, <2>2, <2>4, <3>1 DEF ReadCovers
  <2> QED BY <2>3, <2>4
<1> QED BY <1>1, <1>2 DEF PartitionInv

(* Fewer items, and the clearers as they were.                             *)
LEMMA FewerItemsStep ==
  ASSUME PartitionInv, items' \subseteq items, clearer' = clearer, putSince' = putSince
  PROVE  PartitionInv'
BY DEF PartitionInv, PartitionTyped, ReadCovers

(* A clearer goes on, and the others stay.                                 *)
LEMMA ClearerStep ==
  ASSUME PartitionInv, NEW c \in Clearer, NEW st \in PartitionOf!ClearerState,
         PartitionOf!Become(c, st), items' \subseteq items, putSince' = putSince,
         st.pc # "idle",
         st.pc = "read" => \A i \in items' : i > st.cursor \/ i \in st.todo
                                               \/ i \in putSince[c],
         st.pc = "sweep" => items' \subseteq st.todo \cup putSince[c],
         st.answer = "cleared" => st.pc = "end" /\ items' \subseteq putSince[c]
  PROVE  PartitionInv'
<1>1. /\ clearer' \in [Clearer -> PartitionOf!ClearerState]
      /\ clearer'[c] = st
      /\ \A e \in Clearer : e # c => clearer'[e] = clearer[e]
  BY DEF PartitionInv, PartitionTyped, PartitionOf!Become
<1>2. PartitionTyped'
  BY <1>1 DEF PartitionInv, PartitionTyped
<1>3. ASSUME NEW e \in Clearer PROVE ReadCovers(e)'
  <2>1. CASE e = c
    BY <1>1, <2>1 DEF ReadCovers
  <2>2. CASE e # c
    BY <1>1, <2>2 DEF PartitionInv, ReadCovers
  <2> QED BY <2>1, <2>2
<1> QED BY <1>2, <1>3 DEF PartitionInv

LEMMA PageStep ==
  ASSUME PartitionInv, NEW c \in Clearer, NEW last \in Item \cup {0},
         PartitionOf!ReadPage(c, last)
  PROVE  PartitionInv'
<1> DEFINE page == {i \in PartitionOf!Ahead(c) : i <= last}
           read == clearer[c].todo \cup page
           own  == IF family = "members" THEN {PartitionOf!DirectoryKey} ELSE {}
<1>a. /\ clearer[c] \in PartitionOf!ClearerState /\ items \subseteq Item
      /\ clearer[c].cursor \in Item \cup {0}
      /\ clearer[c].todo \subseteq Item \cup {PartitionOf!DirectoryKey}
      /\ ReadCovers(c)
  BY DEF PartitionInv, PartitionTyped, PartitionOf!ClearerState
<1>b. clearer[c].pc = "read" /\ items' = items /\ putSince' = putSince
  BY DEF PartitionOf!ReadPage
<1>c. clearer[c].answer # "cleared"
  BY <1>a, <1>b DEF ReadCovers
<1>d. page \subseteq Item /\ PartitionOf!Ahead(c) = {i \in items : i > clearer[c].cursor}
  BY <1>a DEF PartitionOf!Ahead
<1>1. CASE PartitionOf!Cardinality(read) > MaxRead
  <2> DEFINE st == [clearer[c] EXCEPT !.pc = "end", !.todo = {}, !.answer = "tooLarge"]
  <2>1. PartitionOf!Become(c, st)
    BY <1>1 DEF PartitionOf!ReadPage
  <2>2. st \in PartitionOf!ClearerState /\ st.pc = "end" /\ st.answer = "tooLarge"
    BY <1>a DEF PartitionOf!ClearerState
  <2> HIDE DEF st
  <2> QED BY <1>b, <2>1, <2>2, ClearerStep
<1>2. CASE ~(PartitionOf!Cardinality(read) > MaxRead) /\ PartitionOf!Behind(c, page) = {}
  <2> DEFINE st == [clearer[c] EXCEPT !.pc = "sweep", !.todo = read \cup own]
  <2>1. PartitionOf!Become(c, st)
    BY <1>2 DEF PartitionOf!ReadPage
  <2>2. st \in PartitionOf!ClearerState /\ st.pc = "sweep" /\ st.todo = read \cup own
        /\ st.answer = clearer[c].answer
    BY <1>a, <1>d DEF PartitionOf!ClearerState
  <2>3. PartitionOf!Ahead(c) \subseteq page
    BY <1>2 DEF PartitionOf!Behind
  <2>4. items \subseteq read \cup putSince[c]
    BY <1>a, <1>b, <1>d, <2>3 DEF ReadCovers
  <2> HIDE DEF st, read, own
  <2> QED BY <1>b, <1>c, <2>1, <2>2, <2>4, ClearerStep
<1>3. CASE ~(PartitionOf!Cardinality(read) > MaxRead) /\ PartitionOf!Behind(c, page) # {}
  <2> DEFINE st == [clearer[c] EXCEPT !.cursor = last, !.todo = read]
  <2>1. PartitionOf!Become(c, st)
    BY <1>3 DEF PartitionOf!ReadPage
  <2>2. st \in PartitionOf!ClearerState /\ st.pc = "read" /\ st.todo = read
        /\ st.cursor = last /\ st.answer = clearer[c].answer
    BY <1>a, <1>b, <1>d DEF PartitionOf!ClearerState
  <2>3. ASSUME NEW i \in items PROVE i > last \/ i \in read \/ i \in putSince[c]
    <3>1. i \in Nat /\ last \in Nat
      BY <1>a, ItemsAreNumbers
    <3>2. i > clearer[c].cursor \/ i \in clearer[c].todo \/ i \in putSince[c]
      BY <1>a, <1>b DEF ReadCovers
    <3>3. ASSUME i > clearer[c].cursor, ~(i > last) PROVE i \in page
      BY <1>d, <3>1, <3>3
    <3> QED BY <3>2, <3>3
  <2> HIDE DEF st, read
  <2> QED BY <1>b, <1>c, <2>1, <2>2, <2>3, ClearerStep
<1> QED BY <1>1, <1>2, <1>3

LEMMA PartitionStep == PartitionInv /\ [PartitionOf!Next]_partitionVars => PartitionInv'
<1> SUFFICES ASSUME PartitionInv, [PartitionOf!Next]_partitionVars PROVE PartitionInv'
  OBVIOUS
<1>a. /\ items \subseteq Item
      /\ clearer \in [Clearer -> PartitionOf!ClearerState]
      /\ \A c \in Clearer : ReadCovers(c)
  BY DEF PartitionInv, PartitionTyped
<1>1. ASSUME NEW a, PartitionOf!CreateTenant(a) \/ PartitionOf!UpdateTenant(a)
      PROVE  PartitionInv'
  BY <1>1, FewerItemsStep DEF PartitionOf!CreateTenant, PartitionOf!UpdateTenant
<1>2. ASSUME NEW i \in Item,
             PartitionOf!AssociateUserWithTenant(i) \/ PartitionOf!CreateUser(i)
      PROVE  PartitionInv'
  BY <1>2, PutStep DEF PartitionOf!AssociateUserWithTenant, PartitionOf!CreateUser
<1>3. ASSUME NEW i \in Item, PartitionOf!DisassociateUserFromTenant(i)
      PROVE  PartitionInv'
  BY <1>3, FewerItemsStep DEF PartitionOf!DisassociateUserFromTenant
<1>4. ASSUME NEW m \in Merger, NEW keys, PartitionOf!UpdateMetadata(m, keys)
      PROVE  PartitionInv'
  BY <1>4, FewerItemsStep DEF PartitionOf!UpdateMetadata
<1>5. ASSUME NEW m \in Merger, NEW i \in Item, PartitionOf!PutKey(m, i)
      PROVE  PartitionInv'
  BY <1>5, PutStep DEF PartitionOf!PutKey
<1>6. ASSUME NEW m \in Merger, PartitionOf!AbandonMerge(m) PROVE PartitionInv'
  BY <1>6, FewerItemsStep DEF PartitionOf!AbandonMerge
<1>7. ASSUME NEW c \in Clearer, PartitionOf!Clear(c) PROVE PartitionInv'
  <2> DEFINE st == [clearer[c] EXCEPT !.pc = "read"]
  <2>1. PartitionOf!Become(c, st) /\ items' = items /\ putSince' = putSince
    BY <1>7 DEF PartitionOf!Clear
  <2>2. /\ st \in PartitionOf!ClearerState /\ st.pc = "read"
        /\ st.cursor = clearer[c].cursor /\ st.answer = clearer[c].answer
        /\ clearer[c].pc = "idle"
    BY <1>7, <1>a DEF PartitionOf!ClearerState, PartitionOf!Clear
  <2> HIDE DEF st
  <2>3. st.cursor = 0 /\ st.answer # "cleared"
    BY <1>a, <2>2 DEF ReadCovers
  <2>4. \A i \in items : i > 0
    BY <1>a, ItemsAreNumbers
  <2> QED BY <2>1, <2>2, <2>3, <2>4, ClearerStep
<1>8. ASSUME NEW c \in Clearer, NEW k \in clearer[c].todo, PartitionOf!Sweep(c, k)
      PROVE  PartitionInv'
  <2> DEFINE st == [clearer[c] EXCEPT !.todo = @ \ {k}]
  <2>1. PartitionOf!Become(c, st) /\ putSince' = putSince
    BY <1>8 DEF PartitionOf!Sweep
  <2>2. items' = IF k = PartitionOf!DirectoryKey THEN items ELSE items \ {k}
    BY <1>8 DEF PartitionOf!Sweep
  <2>3. /\ st \in PartitionOf!ClearerState /\ st.pc = "sweep"
        /\ st.todo = clearer[c].todo \ {k} /\ st.answer = clearer[c].answer
        /\ clearer[c].pc = "sweep"
    BY <1>8, <1>a DEF PartitionOf!ClearerState, PartitionOf!Sweep
  <2> HIDE DEF st
  <2>4. PartitionOf!DirectoryKey \notin items
    BY <1>a, ItemsAreNumbers DEF PartitionOf!DirectoryKey
  <2>5. items' \subseteq items
    BY <2>2
  <2>6. items' \subseteq st.todo \cup putSince[c] /\ st.answer # "cleared"
    BY <1>a, <2>2, <2>3, <2>4 DEF ReadCovers
  <2> QED BY <2>1, <2>3, <2>5, <2>6, ClearerStep
<1>9. ASSUME NEW c \in Clearer, PartitionOf!Finish(c) PROVE PartitionInv'
  <2> DEFINE st == [clearer[c] EXCEPT !.pc = "end", !.answer = "cleared"]
  <2>1. PartitionOf!Become(c, st) /\ items' = items /\ putSince' = putSince
    BY <1>9 DEF PartitionOf!Finish
  <2>2. st \in PartitionOf!ClearerState /\ st.pc = "end"
    BY <1>a DEF PartitionOf!ClearerState
  <2>3. items \subseteq putSince[c]
    BY <1>9, <1>a DEF PartitionOf!Finish, ReadCovers
  <2> HIDE DEF st
  <2> QED BY <2>1, <2>2, <2>3, ClearerStep
<1>10. ASSUME NEW c \in Clearer, PartitionOf!Abandon(c) PROVE PartitionInv'
  <2> DEFINE st == [clearer[c] EXCEPT !.pc = "end", !.answer = "failed"]
  <2>1. PartitionOf!Become(c, st) /\ items' = items /\ putSince' = putSince
    BY <1>10 DEF PartitionOf!Abandon
  <2>2. st \in PartitionOf!ClearerState /\ st.pc = "end" /\ st.answer = "failed"
    BY <1>a DEF PartitionOf!ClearerState
  <2> HIDE DEF st
  <2> QED BY <2>1, <2>2, ClearerStep
<1>11. CASE UNCHANGED partitionVars
  BY <1>11, FewerItemsStep DEF partitionVars
<1> QED
  BY <1>1, <1>2, <1>3, <1>4, <1>5, <1>6, <1>7, <1>8, <1>9, <1>10, <1>11, PageStep
     DEF PartitionOf!Next

(* A DeleteRole that answers success has left no assignment but those its  *)
(* index did not show it and those made since, and a DeleteTenant or       *)
(* ClearMetadata, of however many pages, nothing but what was put since it *)
(* began: for every number of administrators, users, keys and pages.       *)
THEOREM DeletionsAreComplete == MCSpec => []DeletionLeavesOnlyTheMissed
<1> DEFINE Inv == RolesInv /\ PartitionInv
<1>1. MCInit => Inv
  BY RolesInit, PartitionInit DEF MCInit
<1>2. Inv /\ [MCNext]_partVars => Inv'
  BY PartsApart, RolesStep, PartitionStep
<1>3. Inv => DeletionLeavesOnlyTheMissed
  BY DEF RolesInv, SweepCovers, PartitionInv, ReadCovers, DeletionLeavesOnlyTheMissed,
         RolesOf!DeletionLeavesOnlyTheMissed, PartitionOf!ClearedLeavesOnlyTheLate
<1> QED BY <1>1, <1>2, <1>3, PTL DEF MCSpec, partVars
-----------------------------------------------------------------------------
(* The layout.  Keys are texts, that is, sequences of symbols.             *)

(* The words are spelt out, as the provers do not know them for strings.   *)
Prefix ==
  {"USER", "TEL", "RL", "EMAIL", "SESSION", "REFRESH", "RESET", "PLINK", "OIDC",
   "TENANT", "USERMETA", "OAUTH", "LINKID", "APIKEY", "KEYID", "ROLE", "MEMBER",
   "META", "MAIL", "UI", "WHK", "USERID", "APIKEYSVC", "created", "PROFILE"}

Symbol == STRING \cup Prefix \cup {KeysOf!Sep, "day"}

Str == Seq(Symbol)

NoSep(w) == \A i \in DOMAIN w : w[i] # KeysOf!Sep

-----------------------------------------------------------------------------
(* Strings.  *)

LEMMA SepIsASymbol == KeysOf!Sep \in Symbol
BY DEF Symbol

LEMMA OneSymbol ==
  ASSUME NEW x \in Symbol
  PROVE  <<x>> \in Str /\ Len(<<x>>) = 1 /\ <<x>>[1] = x
BY DEF Str

LEMMA Ended ==
  ASSUME NEW a \in Str, NEW x \in Symbol
  PROVE  /\ a \o <<x>> \in Str
         /\ Len(a \o <<x>>) = Len(a) + 1
         /\ \A i \in 1 .. Len(a) : (a \o <<x>>)[i] = a[i]
         /\ (a \o <<x>>)[Len(a) + 1] = x
<1>1. <<x>> \in Str /\ Len(<<x>>) = 1 /\ <<x>>[1] = x
  BY OneSymbol
<1>2. Len(a) \in Nat
  BY LenProperties DEF Str
<1>3. /\ a \o <<x>> \in Str
      /\ Len(a \o <<x>>) = Len(a) + Len(<<x>>)
      /\ \A i \in 1 .. Len(a) + Len(<<x>>) :
           (a \o <<x>>)[i] = IF i <= Len(a) THEN a[i] ELSE <<x>>[i - Len(a)]
  BY <1>1, ConcatProperties DEF Str
<1> HIDE DEF Str
<1>4. Len(a) + 1 - Len(a) = 1
  BY <1>2
<1> QED BY <1>1, <1>2, <1>3, <1>4

(* Two segments and what is between them. *)
Separated(a, b) == a \o <<KeysOf!Sep>> \o b

LEMMA Segment ==
  ASSUME NEW a \in Str, NEW b \in Str, NEW i \in 1 .. Len(a)
  PROVE  Separated(a, b)[i] = a[i]
<1> DEFINE s == a \o <<KeysOf!Sep>>
<1>1. s \in Str /\ Len(s) = Len(a) + 1 /\ s[i] = a[i]
  BY Ended, SepIsASymbol
<1>2. Len(a) \in Nat /\ Len(b) \in Nat
  BY LenProperties DEF Str
<1> HIDE DEF s
<1>3. \A j \in 1 .. Len(s) + Len(b) :
        (s \o b)[j] = IF j <= Len(s) THEN s[j] ELSE b[j - Len(s)]
  BY <1>1, ConcatProperties DEF Str
<1>4. (s \o b)[i] = a[i]
  BY <1>1, <1>2, <1>3
<1> QED BY <1>4 DEF s, Separated

LEMMA Separator ==
  ASSUME NEW a \in Str, NEW b \in Str
  PROVE  Separated(a, b)[Len(a) + 1] = KeysOf!Sep
<1> DEFINE s == a \o <<KeysOf!Sep>>
<1>1. s \in Str /\ Len(s) = Len(a) + 1 /\ s[Len(a) + 1] = KeysOf!Sep
  BY Ended, SepIsASymbol
<1>2. Len(a) \in Nat /\ Len(b) \in Nat
  BY LenProperties DEF Str
<1> HIDE DEF s
<1>3. \A j \in 1 .. Len(s) + Len(b) :
        (s \o b)[j] = IF j <= Len(s) THEN s[j] ELSE b[j - Len(s)]
  BY <1>1, ConcatProperties DEF Str
<1>4. (s \o b)[Len(a) + 1] = KeysOf!Sep
  BY <1>1, <1>2, <1>3
<1> QED BY <1>4 DEF s, Separated

(* The segment before the first separator is not the shorter one.          *)
LEMMA NotShorter ==
  ASSUME NEW a \in Str, NEW b \in Str, NEW c \in Str, NEW d \in Str, NoSep(c),
         Separated(a, b) = Separated(c, d)
  PROVE  Len(a) >= Len(c)
<1> SUFFICES ASSUME Len(a) < Len(c) PROVE FALSE
  BY LenProperties DEF Str
<1>1. Len(a) + 1 \in 1 .. Len(c)
  BY LenProperties DEF Str
<1>2. c[Len(a) + 1] = KeysOf!Sep
  BY <1>1, Segment, Separator
<1> QED BY <1>1, <1>2, LenProperties DEF NoSep, Str

(* So the two can be told from their concatenation (keySep).               *)
LEMMA SplitAtFirst ==
  ASSUME NEW a \in Str, NEW b \in Str, NEW c \in Str, NEW d \in Str,
         NoSep(a), NoSep(c), Separated(a, b) = Separated(c, d)
  PROVE  a = c /\ b = d
<1>1. Len(a) = Len(c)
  <2>1. Len(a) >= Len(c)
    BY NotShorter
  <2>2. Len(c) >= Len(a)
    BY NotShorter
  <2> QED BY <2>1, <2>2, LenProperties DEF Str
<1>2. \A i \in 1 .. Len(a) : a[i] = c[i]
  <2> TAKE i \in 1 .. Len(a)
  <2> QED BY <1>1, Segment
<1>3. a = c
  BY <1>1, <1>2, SeqEqual DEF Str
<1> DEFINE s == a \o <<KeysOf!Sep>>
<1>4. s \in Str
  BY Ended, SepIsASymbol
<1>5. s \o b = s \o d
  BY <1>3 DEF Separated
<1> HIDE DEF s
<1>6. b = d
  BY <1>4, <1>5, ConcatSimplifications DEF Str
<1> QED BY <1>3, <1>6

LEMMA LastSymbol ==
  ASSUME NEW a \in Str, NEW v \in Str, Len(v) = 1
  PROVE  Len(a \o v) = Len(a) + 1 /\ (a \o v)[Len(a) + 1] = v[1]
<1>1. Len(a) \in Nat
  BY LenProperties DEF Str
<1>2. /\ Len(a \o v) = Len(a) + Len(v)
      /\ \A i \in 1 .. Len(a) + Len(v) :
           (a \o v)[i] = IF i <= Len(a) THEN a[i] ELSE v[i - Len(a)]
  BY ConcatProperties DEF Str
<1>3. Len(a) + 1 - Len(a) = 1
  BY <1>1
<1> QED BY <1>1, <1>2, <1>3

(* The same from the end, where the last segment has none and is of one    *)
(* symbol (pkRateLimitPrefix).                                             *)
LEMMA SplitAtLast ==
  ASSUME NEW a \in Str, NEW c \in Str, NEW v \in Str, NEW w \in Str,
         Len(v) = 1, Len(w) = 1, Separated(a, v) = Separated(c, w)
  PROVE  a = c /\ v = w
<1> DEFINE s == a \o <<KeysOf!Sep>>
           t == c \o <<KeysOf!Sep>>
<1>1. /\ s \in Str /\ Len(s) = Len(a) + 1
      /\ t \in Str /\ Len(t) = Len(c) + 1
  BY Ended, SepIsASymbol
<1>2. s \o v = t \o w
  BY DEF Separated
<1>3. s = t => a = c
  <2>1. <<KeysOf!Sep>> \in Str
    BY OneSymbol, SepIsASymbol
  <2> QED BY <2>1, ConcatSimplifications DEF Str
<1> HIDE DEF s, t
<1>4. Len(s) \in Nat /\ Len(t) \in Nat
  BY <1>1, LenProperties DEF Str
<1>5. /\ Len(s \o v) = Len(s) + 1 /\ (s \o v)[Len(s) + 1] = v[1]
      /\ Len(t \o w) = Len(t) + 1 /\ (t \o w)[Len(t) + 1] = w[1]
  BY <1>1, LastSymbol
<1>6. v[1] = w[1]
  BY <1>2, <1>4, <1>5
<1>7. v = w
  BY <1>6, SeqEqual DEF Str
<1>8. s = t
  BY <1>1, <1>2, <1>7, ConcatSimplifications DEF Str
<1> QED BY <1>3, <1>7, <1>8

-----------------------------------------------------------------------------
(* Keys.  *)

LEMMA TaggedProperties ==
  ASSUME NEW q \in Prefix, NEW a \in Str
  PROVE  /\ KeysOf!Tagged(q, a) \in Str
         /\ KeysOf!Tagged(q, a)[1] = q
         /\ \A c \in Str : KeysOf!Tagged(q, a) = KeysOf!Tagged(q, c) => a = c
<1> DEFINE h == <<q, KeysOf!Sep>>
<1>1. h \in Str /\ Len(h) = 2 /\ h[1] = q
  BY SepIsASymbol DEF Symbol, Str
<1> HIDE DEF h
<1>2. Len(a) \in Nat
  BY LenProperties DEF Str
<1>3. /\ h \o a \in Str
      /\ \A i \in 1 .. Len(h) + Len(a) :
           (h \o a)[i] = IF i <= Len(h) THEN h[i] ELSE a[i - Len(h)]
  BY <1>1, ConcatProperties DEF Str
<1>4. (h \o a)[1] = q
  BY <1>1, <1>2, <1>3
<1>5. \A c \in Str : h \o a = h \o c => a = c
  BY <1>1, ConcatSimplifications DEF Str
<1> QED BY <1>3, <1>4, <1>5 DEF h, KeysOf!Tagged

LEMMA JoinedIsTagged ==
  ASSUME NEW q \in Prefix, NEW a \in Str, NEW b \in Str
  PROVE  /\ Separated(a, b) \in Str
         /\ Len(Separated(a, b)) \in Nat
         /\ KeysOf!Joined(q, a, b) = KeysOf!Tagged(q, Separated(a, b))
<1> DEFINE h == <<q, KeysOf!Sep>>
           e == <<KeysOf!Sep>>
           ae == a \o e
<1>1. h \in Str
  BY SepIsASymbol DEF Symbol, Str
<1>2. e \in Str
  BY OneSymbol, SepIsASymbol
<1> HIDE DEF h, e
<1>3. ae \in Str
  BY <1>2, ConcatProperties DEF Str
<1>4. (h \o a) \o e = h \o ae
  BY <1>1, <1>2, ConcatAssociative DEF Str
<1> HIDE DEF ae
<1>5. ae \o b \in Str
  BY <1>3, ConcatProperties DEF Str
<1>6. (h \o ae) \o b = h \o (ae \o b)
  BY <1>1, <1>3, ConcatAssociative DEF Str
<1>7. Separated(a, b) = ae \o b
  BY DEF Separated, ae, e
<1>8. KeysOf!Joined(q, a, b) = ((h \o a) \o e) \o b
  BY DEF KeysOf!Joined, h, e
<1>9. KeysOf!Tagged(q, ae \o b) = h \o (ae \o b)
  BY DEF KeysOf!Tagged, h
<1>10. Len(ae \o b) \in Nat
  BY <1>5, LenProperties DEF Str
<1> QED BY <1>4, <1>5, <1>6, <1>7, <1>8, <1>9, <1>10

LEMMA JoinedProperties ==
  ASSUME NEW q \in Prefix, NEW a \in Str, NEW b \in Str
  PROVE  /\ KeysOf!Joined(q, a, b) \in Str
         /\ KeysOf!Joined(q, a, b)[1] = q
BY JoinedIsTagged, TaggedProperties

LEMMA JoinedApart ==
  ASSUME NEW q \in Prefix, NEW a \in Str, NEW b \in Str, NEW c \in Str, NEW d \in Str,
         NoSep(a), NoSep(c), KeysOf!Joined(q, a, b) = KeysOf!Joined(q, c, d)
  PROVE  a = c /\ b = d
<1>1. /\ Separated(a, b) \in Str
      /\ Separated(c, d) \in Str
      /\ KeysOf!Tagged(q, Separated(a, b)) = KeysOf!Tagged(q, Separated(c, d))
  BY JoinedIsTagged
<1>2. Separated(a, b) = Separated(c, d)
  BY <1>1, TaggedProperties
<1> QED BY <1>2, SplitAtFirst

LEMMA RateLimitOpening ==
  ASSUME NEW a \in Str, NEW b \in Str, NEW x \in Str
  PROVE  KeysOf!rateLimitPK(a, b, x)[1] = "RL"
<1> DEFINE j == KeysOf!Joined("RL", a, b)
           e == Separated(a, b)
           h == <<"RL", KeysOf!Sep>>
<1>1. "RL" \in Prefix
  BY DEF Prefix
<1>2. j \in Str /\ j[1] = "RL"
  BY <1>1, JoinedProperties
<1>3. KeysOf!rateLimitPK(a, b, x) = Separated(j, x)
  BY DEF KeysOf!rateLimitPK, Separated
<1>4. e \in Str /\ Len(e) \in Nat /\ j = KeysOf!Tagged("RL", e)
  BY <1>1, JoinedIsTagged
<1>5. h \in Str /\ Len(h) = 2
  BY SepIsASymbol, <1>1 DEF Symbol, Str
<1>6. j = h \o e
  BY <1>4 DEF KeysOf!Tagged
<1> HIDE DEF j, e, h
<1>7. Len(h \o e) = Len(h) + Len(e)
  BY <1>4, <1>5, ConcatProperties DEF Str
<1>8. Len(j) \in Nat /\ Len(j) >= 1
  BY <1>4, <1>5, <1>6, <1>7
<1> QED BY <1>2, <1>3, <1>8, Segment

(* A counter's key is taken apart from both ends.                          *)
LEMMA RateLimitApart ==
  ASSUME NEW a \in Str, NEW b \in Str, NEW x \in Str,
         NEW c \in Str, NEW d \in Str, NEW y \in Str,
         NoSep(a), NoSep(c), Len(x) = 1, Len(y) = 1,
         KeysOf!rateLimitPK(a, b, x) = KeysOf!rateLimitPK(c, d, y)
  PROVE  a = c /\ b = d /\ x = y
<1> DEFINE j == KeysOf!Joined("RL", a, b)
           k == KeysOf!Joined("RL", c, d)
<1>1. "RL" \in Prefix
  BY DEF Prefix
<1>2. j \in Str /\ k \in Str
  BY <1>1, JoinedProperties
<1>3. Separated(j, x) = Separated(k, y)
  BY DEF KeysOf!rateLimitPK, Separated
<1>4. j = k /\ x = y
  <2> HIDE DEF j, k
  <2> QED BY <1>2, <1>3, SplitAtLast
<1> QED BY <1>1, <1>4, JoinedApart

-----------------------------------------------------------------------------
(* Records.  *)

(* What callers ask by. *)
LEMMA AskedBy ==
  ASSUME KeysOf!keysAreText
  PROVE  /\ \A w \in Text : w \in Str
         /\ \A w \in KeysOf!Id : w \in Str /\ NoSep(w)
         /\ \A w \in KeysOf!Tenant : w \in Str /\ NoSep(w)
<1>1. \A w \in Text : w \in Str
  <2> TAKE w \in Text
  <2>1. w \in Seq(STRING)
    BY DEF KeysOf!keysAreText
  <2>2. STRING \subseteq Symbol
    BY DEF Symbol
  <2> QED BY <2>1, <2>2, SeqMonotonic DEF Str
<1>2. <<>> \in Str /\ NoSep(<<>>)
  BY EmptySeq DEF Str, NoSep
<1>3. \A w \in KeysOf!Id : w \in Str /\ NoSep(w)
  BY <1>1 DEF KeysOf!Id, KeysOf!checkID, NoSep
<1>4. \A w \in KeysOf!Tenant : w \in Str /\ NoSep(w)
  BY <1>1, <1>2 DEF KeysOf!Tenant, KeysOf!checkTenant, KeysOf!checkID, NoSep
<1> QED BY <1>1, <1>3, <1>4

LEMMA SegmentFacts ==
  ASSUME KeysOf!keysAreText, NEW r \in KeysOf!Record
  PROVE  /\ r.t \in Str /\ r.u \in Str /\ r.p \in Str /\ r.x \in Str
         /\ NoSep(r.t) /\ NoSep(r.u)
         /\ r.kind = "link" => NoSep(r.p)
         /\ r.kind \in {"telemetry", "ratelimit"} => NoSep(r.p) /\ Len(r.p) = 1
<1>1. <<>> \in Str /\ NoSep(<<>>)
  BY EmptySeq DEF Str, NoSep
<1>2. \A w \in KeysOf!Opaque : w \in Str
  BY AskedBy DEF KeysOf!Opaque
<1>3. \A w \in KeysOf!Stamp : w \in Str /\ NoSep(w) /\ Len(w) = 1
  <2> TAKE w \in KeysOf!Stamp
  <2>1. PICK y \in Word : w = <<y>>
    BY DEF KeysOf!Stamp
  <2>2. y \in Symbol /\ y # KeysOf!Sep
    BY DEF KeysOf!keysAreText, Symbol
  <2>3. <<y>> \in Str /\ Len(<<y>>) = 1 /\ <<y>>[1] = y
    BY <2>2, OneSymbol
  <2>4. DOMAIN <<y>> = 1 .. 1
    BY <2>3, LenProperties DEF Str
  <2> QED BY <2>1, <2>2, <2>3, <2>4 DEF NoSep
<1> QED BY <1>1, <1>2, <1>3, AskedBy DEF KeysOf!Record, KeysOf!Unused

(* The first word of a record's partition key.                             *)
Opening ==
  [session |-> "SESSION", sessionidx |-> "SESSION", refresh |-> "REFRESH",
   reset |-> "RESET", plink |-> "PLINK", code |-> "OIDC",
   member |-> "TENANT", meta |-> "USERMETA", linkid |-> "LINKID",
   apikey |-> "APIKEY", keyid |-> "KEYID", profile |-> "USER",
   roleassign |-> "USER", email |-> "EMAIL", link |-> "OAUTH",
   telemetry |-> "TEL", settings |-> "SETTINGS", tenant |-> "TENANTS",
   role |-> "ROLES", template |-> "TEMPLATES",
   uitranslation |-> "TEMPLATES", webhook |-> "WEBHOOKS",
   ratelimit |-> "RL"]

LEMMA OpeningWord ==
  ASSUME KeysOf!keysAreText, NEW r \in KeysOf!Record
  PROVE  KeysOf!PartitionKey(r)[1] = Opening[r.kind]
<1>1. /\ r.t \in Str /\ r.u \in Str /\ r.p \in Str /\ r.x \in Str
      /\ r.kind = "ratelimit" => Len(r.p) = 1
  BY SegmentFacts
<1>2. \A q \in Prefix, a \in Str : KeysOf!Tagged(q, a)[1] = q
  BY TaggedProperties
<1>3. \A q \in Prefix, a, b \in Str : KeysOf!Joined(q, a, b)[1] = q
  BY JoinedProperties
<1>4. CASE r.kind = "session"
  <2>1. KeysOf!PartitionKey(r) = KeysOf!Tagged("SESSION", r.x)
    BY <1>4 DEF KeysOf!PartitionKey
  <2>2. "SESSION" \in Prefix
    BY DEF Prefix
  <2>3. KeysOf!PartitionKey(r)[1] = "SESSION"
    BY <1>1, <1>2, <2>1, <2>2
  <2> QED BY <1>4, <2>3 DEF Opening
<1>5. CASE r.kind = "sessionidx"
  <2>1. KeysOf!PartitionKey(r) = KeysOf!Tagged("SESSION", r.x)
    BY <1>5 DEF KeysOf!PartitionKey
  <2>2. "SESSION" \in Prefix
    BY DEF Prefix
  <2>3. KeysOf!PartitionKey(r)[1] = "SESSION"
    BY <1>1, <1>2, <2>1, <2>2
  <2> QED BY <1>5, <2>3 DEF Opening
<1>6. CASE r.kind = "refresh"
  <2>1. KeysOf!PartitionKey(r) = KeysOf!Tagged("REFRESH", r.x)
    BY <1>6 DEF KeysOf!PartitionKey
  <2>2. "REFRESH" \in Prefix
    BY DEF Prefix
  <2>3. KeysOf!PartitionKey(r)[1] = "REFRESH"
    BY <1>1, <1>2, <2>1, <2>2
  <2> QED BY <1>6, <2>3 DEF Opening
<1>7. CASE r.kind = "reset"
  <2>1. KeysOf!PartitionKey(r) = KeysOf!Tagged("RESET", r.x)
    BY <1>7 DEF KeysOf!PartitionKey
  <2>2. "RESET" \in Prefix
    BY DEF Prefix
  <2>3. KeysOf!PartitionKey(r)[1] = "RESET"
    BY <1>1, <1>2, <2>1, <2>2
  <2> QED BY <1>7, <2>3 DEF Opening
<1>8. CASE r.kind = "plink"
  <2>1. KeysOf!PartitionKey(r) = KeysOf!Tagged("PLINK", r.x)
    BY <1>8 DEF KeysOf!PartitionKey
  <2>2. "PLINK" \in Prefix
    BY DEF Prefix
  <2>3. KeysOf!PartitionKey(r)[1] = "PLINK"
    BY <1>1, <1>2, <2>1, <2>2
  <2> QED BY <1>8, <2>3 DEF Opening
<1>9. CASE r.kind = "code"
  <2>1. KeysOf!PartitionKey(r) = KeysOf!Tagged("OIDC", r.x)
    BY <1>9 DEF KeysOf!PartitionKey
  <2>2. "OIDC" \in Prefix
    BY DEF Prefix
  <2>3. KeysOf!PartitionKey(r)[1] = "OIDC"
    BY <1>1, <1>2, <2>1, <2>2
  <2> QED BY <1>9, <2>3 DEF Opening
<1>10. CASE r.kind = "member"
  <2>1. KeysOf!PartitionKey(r) = KeysOf!Tagged("TENANT", r.t)
    BY <1>10 DEF KeysOf!PartitionKey
  <2>2. "TENANT" \in Prefix
    BY DEF Prefix
  <2>3. KeysOf!PartitionKey(r)[1] = "TENANT"
    BY <1>1, <1>2, <2>1, <2>2
  <2> QED BY <1>10, <2>3 DEF Opening
<1>11. CASE r.kind = "meta"
  <2>1. KeysOf!PartitionKey(r) = KeysOf!Tagged("USERMETA", r.u)
    BY <1>11 DEF KeysOf!PartitionKey
  <2>2. "USERMETA" \in Prefix
    BY DEF Prefix
  <2>3. KeysOf!PartitionKey(r)[1] = "USERMETA"
    BY <1>1, <1>2, <2>1, <2>2
  <2> QED BY <1>11, <2>3 DEF Opening
<1>12. CASE r.kind = "linkid"
  <2>1. KeysOf!PartitionKey(r) = KeysOf!Tagged("LINKID", r.x)
    BY <1>12 DEF KeysOf!PartitionKey
  <2>2. "LINKID" \in Prefix
    BY DEF Prefix
  <2>3. KeysOf!PartitionKey(r)[1] = "LINKID"
    BY <1>1, <1>2, <2>1, <2>2
  <2> QED BY <1>12, <2>3 DEF Opening
<1>13. CASE r.kind = "apikey"
  <2>1. KeysOf!PartitionKey(r) = KeysOf!Tagged("APIKEY", r.x)
    BY <1>13 DEF KeysOf!PartitionKey
  <2>2. "APIKEY" \in Prefix
    BY DEF Prefix
  <2>3. KeysOf!PartitionKey(r)[1] = "APIKEY"
    BY <1>1, <1>2, <2>1, <2>2
  <2> QED BY <1>13, <2>3 DEF Opening
<1>14. CASE r.kind = "keyid"
  <2>1. KeysOf!PartitionKey(r) = KeysOf!Tagged("KEYID", r.x)
    BY <1>14 DEF KeysOf!PartitionKey
  <2>2. "KEYID" \in Prefix
    BY DEF Prefix
  <2>3. KeysOf!PartitionKey(r)[1] = "KEYID"
    BY <1>1, <1>2, <2>1, <2>2
  <2> QED BY <1>14, <2>3 DEF Opening
<1>15. CASE r.kind = "profile"
  <2>1. KeysOf!PartitionKey(r) = KeysOf!Joined("USER", r.t, r.u)
    BY <1>15 DEF KeysOf!PartitionKey, KeysOf!userPK
  <2>2. "USER" \in Prefix
    BY DEF Prefix
  <2>3. KeysOf!PartitionKey(r)[1] = "USER"
    BY <1>1, <1>3, <2>1, <2>2
  <2> QED BY <1>15, <2>3 DEF Opening
<1>16. CASE r.kind = "roleassign"
  <2>1. KeysOf!PartitionKey(r) = KeysOf!Joined("USER", r.t, r.u)
    BY <1>16 DEF KeysOf!PartitionKey, KeysOf!userPK
  <2>2. "USER" \in Prefix
    BY DEF Prefix
  <2>3. KeysOf!PartitionKey(r)[1] = "USER"
    BY <1>1, <1>3, <2>1, <2>2
  <2> QED BY <1>16, <2>3 DEF Opening
<1>17. CASE r.kind = "email"
  <2>1. KeysOf!PartitionKey(r) = KeysOf!Joined("EMAIL", r.t, r.x)
    BY <1>17 DEF KeysOf!PartitionKey
  <2>2. "EMAIL" \in Prefix
    BY DEF Prefix
  <2>3. KeysOf!PartitionKey(r)[1] = "EMAIL"
    BY <1>1, <1>3, <2>1, <2>2
  <2> QED BY <1>17, <2>3 DEF Opening
<1>18. CASE r.kind = "link"
  <2>1. KeysOf!PartitionKey(r) = KeysOf!Joined("OAUTH", r.p, r.x)
    BY <1>18 DEF KeysOf!PartitionKey
  <2>2. "OAUTH" \in Prefix
    BY DEF Prefix
  <2>3. KeysOf!PartitionKey(r)[1] = "OAUTH"
    BY <1>1, <1>3, <2>1, <2>2
  <2> QED BY <1>18, <2>3 DEF Opening
<1>19. CASE r.kind = "telemetry"
  <2>1. KeysOf!PartitionKey(r) = KeysOf!Joined("TEL", r.t, <<"day">>)
    BY <1>19 DEF KeysOf!PartitionKey, KeysOf!telemetryPK
  <2>2. <<"day">> \in Str
    BY OneSymbol DEF Symbol
  <2>3. KeysOf!Joined("TEL", r.t, <<"day">>)[1] = "TEL"
    BY <1>1, <2>2, JoinedProperties DEF Prefix
  <2> QED BY <1>1, <1>3, <1>19, <2>1, <2>3 DEF Opening
<1>20. CASE r.kind = "settings"
  BY <1>20 DEF KeysOf!PartitionKey, Opening
<1>21. CASE r.kind = "tenant"
  BY <1>21 DEF KeysOf!PartitionKey, Opening
<1>22. CASE r.kind = "role"
  BY <1>22 DEF KeysOf!PartitionKey, Opening
<1>23. CASE r.kind = "template"
  BY <1>23 DEF KeysOf!PartitionKey, Opening
<1>24. CASE r.kind = "uitranslation"
  BY <1>24 DEF KeysOf!PartitionKey, Opening
<1>25. CASE r.kind = "webhook"
  BY <1>25 DEF KeysOf!PartitionKey, Opening
<1>26. CASE r.kind = "ratelimit"
  <2>1. KeysOf!PartitionKey(r) = KeysOf!rateLimitPK(r.u, r.x, r.p)
    BY <1>26 DEF KeysOf!PartitionKey
  <2> QED BY <1>1, <1>26, <2>1, RateLimitOpening DEF Opening
<1>27. r.kind \in DOMAIN Opening
  BY DEF KeysOf!Record, Opening
<1> QED
  BY <1>4, <1>5, <1>6, <1>7, <1>8, <1>9, <1>10, <1>11, <1>12, <1>13, <1>14,
     <1>15, <1>16, <1>17, <1>18, <1>19, <1>20, <1>21, <1>22, <1>23, <1>24,
     <1>25, <1>26, <1>27 DEF Opening

(* Where that leaves two kinds, the sort key's tells which.                *)
LEMMA SortWord ==
  ASSUME KeysOf!keysAreText, NEW r \in KeysOf!Record
  PROVE  /\ r.kind = "profile" => KeysOf!SortKey(r)[1] = "PROFILE"
         /\ r.kind = "roleassign" => KeysOf!SortKey(r)[1] = "ROLE"
         /\ r.kind = "session" => KeysOf!SortKey(r)[1] = "SESSION"
         /\ r.kind = "sessionidx" => KeysOf!SortKey(r)[1] = "SIDX"
         /\ r.kind = "template" => KeysOf!SortKey(r)[1] = "MAIL"
         /\ r.kind = "uitranslation" => KeysOf!SortKey(r)[1] = "UI"
<1>1. r.x \in Str
  BY SegmentFacts
<1>2. \A q \in Prefix : KeysOf!Tagged(q, r.x)[1] = q
  BY <1>1, TaggedProperties
<1>3. r.kind = "roleassign" => KeysOf!SortKey(r) = KeysOf!Tagged("ROLE", r.x)
  BY DEF KeysOf!SortKey
<1>4. r.kind = "template" => KeysOf!SortKey(r) = KeysOf!Tagged("MAIL", r.x)
  BY DEF KeysOf!SortKey
<1>5. r.kind = "uitranslation" => KeysOf!SortKey(r) = KeysOf!Tagged("UI", r.x)
  BY DEF KeysOf!SortKey
<1>6. /\ r.kind = "profile" => KeysOf!SortKey(r) = <<"PROFILE">>
      /\ r.kind = "session" => KeysOf!SortKey(r) = <<"SESSION">>
      /\ r.kind = "sessionidx" => KeysOf!SortKey(r) = <<"SIDX">>
  BY DEF KeysOf!SortKey
<1> QED BY <1>2, <1>3, <1>4, <1>5, <1>6 DEF Prefix

LEMMA KeyTellsKind ==
  ASSUME KeysOf!keysAreText, NEW r \in KeysOf!Record, NEW s \in KeysOf!Record, KeysOf!Key(r)
           = KeysOf!Key(s)
  PROVE  r.kind = s.kind
<1>1. KeysOf!PartitionKey(r) = KeysOf!PartitionKey(s) /\ KeysOf!SortKey(r)
        = KeysOf!SortKey(s)
  BY DEF KeysOf!Key
<1>2. Opening[r.kind] = Opening[s.kind]
  BY <1>1, OpeningWord
<1>3. /\ r.kind \in {"profile", "roleassign"} /\ s.kind \in {"profile", "roleassign"}
           => r.kind = s.kind
      /\ r.kind \in KeysOf!OfSession /\ s.kind \in KeysOf!OfSession => r.kind = s.kind
      /\ {r.kind, s.kind} \subseteq {"template", "uitranslation"}
           => r.kind = s.kind
  BY <1>1, SortWord DEF KeysOf!OfSession
<1>4. r.kind \in DOMAIN Opening /\ s.kind \in DOMAIN Opening
  BY DEF KeysOf!Record, Opening
<1> QED BY <1>2, <1>3, <1>4 DEF Opening, KeysOf!OfSession

LEMMA KeyTellsName ==
  ASSUME KeysOf!keysAreText, NEW r \in KeysOf!Record, NEW s \in KeysOf!Record, KeysOf!Key(r)
           = KeysOf!Key(s)
  PROVE  KeysOf!NameOf(r) = KeysOf!NameOf(s)
<1>1. r.kind = s.kind
  BY KeyTellsKind
<1>2. KeysOf!PartitionKey(r) = KeysOf!PartitionKey(s) /\ KeysOf!SortKey(r)
        = KeysOf!SortKey(s)
  BY DEF KeysOf!Key
<1>3. /\ r.t \in Str /\ r.u \in Str /\ r.p \in Str /\ r.x \in Str
      /\ NoSep(r.t) /\ NoSep(r.u)
      /\ r.kind = "link" => NoSep(r.p)
      /\ r.kind \in {"telemetry", "ratelimit"} => NoSep(r.p) /\ Len(r.p) = 1
  BY SegmentFacts
<1>4. /\ s.t \in Str /\ s.u \in Str /\ s.p \in Str /\ s.x \in Str
      /\ NoSep(s.t) /\ NoSep(s.u)
      /\ s.kind = "link" => NoSep(s.p)
      /\ s.kind \in {"telemetry", "ratelimit"} => NoSep(s.p) /\ Len(s.p) = 1
  BY SegmentFacts
<1>5. \A q \in Prefix, a, c \in Str : KeysOf!Tagged(q, a) = KeysOf!Tagged(q, c) => a = c
  BY TaggedProperties
<1>7. CASE r.kind = "session"
  <2>1. /\ KeysOf!PartitionKey(r) = KeysOf!Tagged("SESSION", r.x)
        /\ KeysOf!PartitionKey(s) = KeysOf!Tagged("SESSION", s.x)
    BY <1>7, <1>1 DEF KeysOf!PartitionKey
  <2>2. r.x = s.x
    BY <1>2, <1>3, <1>4, <1>5, <2>1 DEF Prefix
  <2> QED BY <1>7, <1>1, <2>2 DEF KeysOf!NameOf, KeysOf!OfSession, KeysOf!Record,
               KeysOf!Unused
<1>8. CASE r.kind = "sessionidx"
  <2>1. /\ KeysOf!PartitionKey(r) = KeysOf!Tagged("SESSION", r.x)
        /\ KeysOf!PartitionKey(s) = KeysOf!Tagged("SESSION", s.x)
    BY <1>8, <1>1 DEF KeysOf!PartitionKey
  <2>2. r.x = s.x
    BY <1>2, <1>3, <1>4, <1>5, <2>1 DEF Prefix
  <2> QED BY <1>8, <1>1, <2>2 DEF KeysOf!NameOf, KeysOf!OfSession, KeysOf!Record,
               KeysOf!Unused
<1>9. CASE r.kind = "refresh"
  <2>1. /\ KeysOf!PartitionKey(r) = KeysOf!Tagged("REFRESH", r.x)
        /\ KeysOf!PartitionKey(s) = KeysOf!Tagged("REFRESH", s.x)
    BY <1>9, <1>1 DEF KeysOf!PartitionKey
  <2>2. r.x = s.x
    BY <1>2, <1>3, <1>4, <1>5, <2>1 DEF Prefix
  <2> QED BY <1>9, <1>1, <2>2 DEF KeysOf!NameOf, KeysOf!OfSession, KeysOf!Record,
               KeysOf!Unused
<1>10. CASE r.kind = "reset"
  <2>1. /\ KeysOf!PartitionKey(r) = KeysOf!Tagged("RESET", r.x)
        /\ KeysOf!PartitionKey(s) = KeysOf!Tagged("RESET", s.x)
    BY <1>10, <1>1 DEF KeysOf!PartitionKey
  <2>2. r.x = s.x
    BY <1>2, <1>3, <1>4, <1>5, <2>1 DEF Prefix
  <2> QED BY <1>10, <1>1, <2>2 DEF KeysOf!NameOf, KeysOf!OfSession, KeysOf!Record,
               KeysOf!Unused
<1>11. CASE r.kind = "plink"
  <2>1. /\ KeysOf!PartitionKey(r) = KeysOf!Tagged("PLINK", r.x)
        /\ KeysOf!PartitionKey(s) = KeysOf!Tagged("PLINK", s.x)
    BY <1>11, <1>1 DEF KeysOf!PartitionKey
  <2>2. r.x = s.x
    BY <1>2, <1>3, <1>4, <1>5, <2>1 DEF Prefix
  <2> QED BY <1>11, <1>1, <2>2 DEF KeysOf!NameOf, KeysOf!OfSession, KeysOf!Record,
               KeysOf!Unused
<1>12. CASE r.kind = "code"
  <2>1. /\ KeysOf!PartitionKey(r) = KeysOf!Tagged("OIDC", r.x)
        /\ KeysOf!PartitionKey(s) = KeysOf!Tagged("OIDC", s.x)
    BY <1>12, <1>1 DEF KeysOf!PartitionKey
  <2>2. r.x = s.x
    BY <1>2, <1>3, <1>4, <1>5, <2>1 DEF Prefix
  <2> QED BY <1>12, <1>1, <2>2 DEF KeysOf!NameOf, KeysOf!OfSession, KeysOf!Record,
               KeysOf!Unused
<1>13. CASE r.kind = "linkid"
  <2>1. /\ KeysOf!PartitionKey(r) = KeysOf!Tagged("LINKID", r.x)
        /\ KeysOf!PartitionKey(s) = KeysOf!Tagged("LINKID", s.x)
    BY <1>13, <1>1 DEF KeysOf!PartitionKey
  <2>2. r.x = s.x
    BY <1>2, <1>3, <1>4, <1>5, <2>1 DEF Prefix
  <2> QED BY <1>13, <1>1, <2>2 DEF KeysOf!NameOf, KeysOf!OfSession, KeysOf!Record,
               KeysOf!Unused
<1>14. CASE r.kind = "apikey"
  <2>1. /\ KeysOf!PartitionKey(r) = KeysOf!Tagged("APIKEY", r.x)
        /\ KeysOf!PartitionKey(s) = KeysOf!Tagged("APIKEY", s.x)
    BY <1>14, <1>1 DEF KeysOf!PartitionKey
  <2>2. r.x = s.x
    BY <1>2, <1>3, <1>4, <1>5, <2>1 DEF Prefix
  <2> QED BY <1>14, <1>1, <2>2 DEF KeysOf!NameOf, KeysOf!OfSession, KeysOf!Record,
               KeysOf!Unused
<1>15. CASE r.kind = "keyid"
  <2>1. /\ KeysOf!PartitionKey(r) = KeysOf!Tagged("KEYID", r.x)
        /\ KeysOf!PartitionKey(s) = KeysOf!Tagged("KEYID", s.x)
    BY <1>15, <1>1 DEF KeysOf!PartitionKey
  <2>2. r.x = s.x
    BY <1>2, <1>3, <1>4, <1>5, <2>1 DEF Prefix
  <2> QED BY <1>15, <1>1, <2>2 DEF KeysOf!NameOf, KeysOf!OfSession, KeysOf!Record,
               KeysOf!Unused
<1>16. CASE r.kind = "email"
  <2>1. /\ KeysOf!PartitionKey(r) = KeysOf!Joined("EMAIL", r.t, r.x)
        /\ KeysOf!PartitionKey(s) = KeysOf!Joined("EMAIL", s.t, s.x)
    BY <1>16, <1>1 DEF KeysOf!PartitionKey
  <2>2. "EMAIL" \in Prefix
    BY DEF Prefix
  <2>3. KeysOf!Joined("EMAIL", r.t, r.x) = KeysOf!Joined("EMAIL", s.t, s.x)
    BY <1>2, <2>1
  <2>4. NoSep(r.t) /\ NoSep(s.t)
    BY <1>16, <1>1, <1>3, <1>4
  <2>5. r.t = s.t /\ r.x = s.x
    BY <1>3, <1>4, <2>2, <2>3, <2>4, JoinedApart
  <2> QED BY <1>16, <1>1, <2>5 DEF KeysOf!NameOf, KeysOf!OfSession, KeysOf!Record,
               KeysOf!Unused
<1>17. CASE r.kind = "profile"
  <2>1. /\ KeysOf!PartitionKey(r) = KeysOf!Joined("USER", r.t, r.u)
        /\ KeysOf!PartitionKey(s) = KeysOf!Joined("USER", s.t, s.u)
    BY <1>17, <1>1 DEF KeysOf!PartitionKey, KeysOf!userPK
  <2>2. "USER" \in Prefix
    BY DEF Prefix
  <2>3. KeysOf!Joined("USER", r.t, r.u) = KeysOf!Joined("USER", s.t, s.u)
    BY <1>2, <2>1
  <2>4. NoSep(r.t) /\ NoSep(s.t)
    BY <1>17, <1>1, <1>3, <1>4
  <2>5. r.t = s.t /\ r.u = s.u
    BY <1>3, <1>4, <2>2, <2>3, <2>4, JoinedApart
  <2> QED BY <1>17, <1>1, <2>5 DEF KeysOf!NameOf, KeysOf!OfSession, KeysOf!Record,
               KeysOf!Unused
<1>18. CASE r.kind = "link"
  <2>1. /\ KeysOf!PartitionKey(r) = KeysOf!Joined("OAUTH", r.p, r.x)
        /\ KeysOf!PartitionKey(s) = KeysOf!Joined("OAUTH", s.p, s.x)
    BY <1>18, <1>1 DEF KeysOf!PartitionKey
  <2>2. "OAUTH" \in Prefix
    BY DEF Prefix
  <2>3. KeysOf!Joined("OAUTH", r.p, r.x) = KeysOf!Joined("OAUTH", s.p, s.x)
    BY <1>2, <2>1
  <2>4. NoSep(r.p) /\ NoSep(s.p)
    BY <1>18, <1>1, <1>3, <1>4
  <2>5. r.p = s.p /\ r.x = s.x
    BY <1>3, <1>4, <2>2, <2>3, <2>4, JoinedApart
  <2> QED BY <1>18, <1>1, <2>5 DEF KeysOf!NameOf, KeysOf!OfSession, KeysOf!Record,
               KeysOf!Unused
<1>19. CASE r.kind = "tenant"
  <2>1. /\ KeysOf!SortKey(r) = KeysOf!Tagged("TENANT", r.t)
        /\ KeysOf!SortKey(s) = KeysOf!Tagged("TENANT", s.t)
    BY <1>19, <1>1 DEF KeysOf!SortKey
  <2>2. r.t = s.t
    BY <1>2, <1>3, <1>4, <1>5, <2>1 DEF Prefix
  <2> QED BY <1>19, <1>1, <2>2 DEF KeysOf!NameOf, KeysOf!OfSession, KeysOf!Record,
               KeysOf!Unused
<1>20. CASE r.kind = "role"
  <2>1. /\ KeysOf!SortKey(r) = KeysOf!Tagged("ROLE", r.x)
        /\ KeysOf!SortKey(s) = KeysOf!Tagged("ROLE", s.x)
    BY <1>20, <1>1 DEF KeysOf!SortKey
  <2>2. r.x = s.x
    BY <1>2, <1>3, <1>4, <1>5, <2>1 DEF Prefix
  <2> QED BY <1>20, <1>1, <2>2 DEF KeysOf!NameOf, KeysOf!OfSession, KeysOf!Record,
               KeysOf!Unused
<1>21. CASE r.kind = "template"
  <2>1. /\ KeysOf!SortKey(r) = KeysOf!Tagged("MAIL", r.x)
        /\ KeysOf!SortKey(s) = KeysOf!Tagged("MAIL", s.x)
    BY <1>21, <1>1 DEF KeysOf!SortKey
  <2>2. r.x = s.x
    BY <1>2, <1>3, <1>4, <1>5, <2>1 DEF Prefix
  <2> QED BY <1>21, <1>1, <2>2 DEF KeysOf!NameOf, KeysOf!OfSession, KeysOf!Record,
               KeysOf!Unused
<1>22. CASE r.kind = "uitranslation"
  <2>1. /\ KeysOf!SortKey(r) = KeysOf!Tagged("UI", r.x)
        /\ KeysOf!SortKey(s) = KeysOf!Tagged("UI", s.x)
    BY <1>22, <1>1 DEF KeysOf!SortKey
  <2>2. r.x = s.x
    BY <1>2, <1>3, <1>4, <1>5, <2>1 DEF Prefix
  <2> QED BY <1>22, <1>1, <2>2 DEF KeysOf!NameOf, KeysOf!OfSession, KeysOf!Record,
               KeysOf!Unused
<1>23. CASE r.kind = "webhook"
  <2>1. /\ KeysOf!SortKey(r) = KeysOf!Tagged("WHK", r.x)
        /\ KeysOf!SortKey(s) = KeysOf!Tagged("WHK", s.x)
    BY <1>23, <1>1 DEF KeysOf!SortKey
  <2>2. r.x = s.x
    BY <1>2, <1>3, <1>4, <1>5, <2>1 DEF Prefix
  <2> QED BY <1>23, <1>1, <2>2 DEF KeysOf!NameOf, KeysOf!OfSession, KeysOf!Record,
               KeysOf!Unused
<1>24. CASE r.kind = "settings"
  BY <1>24, <1>1 DEF KeysOf!NameOf, KeysOf!OfSession, KeysOf!Record, KeysOf!Unused
<1>25. CASE r.kind = "member"
  <2>1. /\ KeysOf!PartitionKey(r) = KeysOf!Tagged("TENANT", r.t)
        /\ KeysOf!PartitionKey(s) = KeysOf!Tagged("TENANT", s.t)
        /\ KeysOf!SortKey(r) = KeysOf!Tagged("MEMBER", r.u)
        /\ KeysOf!SortKey(s) = KeysOf!Tagged("MEMBER", s.u)
    BY <1>25, <1>1 DEF KeysOf!PartitionKey, KeysOf!SortKey
  <2>2. "TENANT" \in Prefix /\ "MEMBER" \in Prefix
    BY DEF Prefix
  <2>3. /\ KeysOf!Tagged("TENANT", r.t) = KeysOf!Tagged("TENANT", s.t)
        /\ KeysOf!Tagged("MEMBER", r.u) = KeysOf!Tagged("MEMBER", s.u)
    BY <1>2, <2>1
  <2>4. r.t = s.t /\ r.u = s.u
    BY <1>3, <1>4, <1>5, <2>2, <2>3
  <2> QED BY <1>25, <1>1, <2>4 DEF KeysOf!NameOf, KeysOf!OfSession, KeysOf!Record,
               KeysOf!Unused
<1>26. CASE r.kind = "meta"
  <2>1. /\ KeysOf!PartitionKey(r) = KeysOf!Tagged("USERMETA", r.u)
        /\ KeysOf!PartitionKey(s) = KeysOf!Tagged("USERMETA", s.u)
        /\ KeysOf!SortKey(r) = KeysOf!Tagged("META", r.x)
        /\ KeysOf!SortKey(s) = KeysOf!Tagged("META", s.x)
    BY <1>26, <1>1 DEF KeysOf!PartitionKey, KeysOf!SortKey
  <2>2. "USERMETA" \in Prefix /\ "META" \in Prefix
    BY DEF Prefix
  <2>3. /\ KeysOf!Tagged("USERMETA", r.u) = KeysOf!Tagged("USERMETA", s.u)
        /\ KeysOf!Tagged("META", r.x) = KeysOf!Tagged("META", s.x)
    BY <1>2, <2>1
  <2>4. r.u = s.u /\ r.x = s.x
    BY <1>3, <1>4, <1>5, <2>2, <2>3
  <2> QED BY <1>26, <1>1, <2>4 DEF KeysOf!NameOf, KeysOf!OfSession, KeysOf!Record,
               KeysOf!Unused
<1>27. CASE r.kind = "roleassign"
  <2>1. /\ KeysOf!PartitionKey(r) = KeysOf!Joined("USER", r.t, r.u)
        /\ KeysOf!PartitionKey(s) = KeysOf!Joined("USER", s.t, s.u)
        /\ KeysOf!SortKey(r) = KeysOf!Tagged("ROLE", r.x)
        /\ KeysOf!SortKey(s) = KeysOf!Tagged("ROLE", s.x)
    BY <1>27, <1>1 DEF KeysOf!PartitionKey, KeysOf!SortKey, KeysOf!userPK
  <2>2. "USER" \in Prefix /\ "ROLE" \in Prefix
    BY DEF Prefix
  <2>3. KeysOf!Joined("USER", r.t, r.u) = KeysOf!Joined("USER", s.t, s.u)
    BY <1>2, <2>1
  <2>4. NoSep(r.t) /\ NoSep(s.t)
    BY <1>27, <1>1, <1>3, <1>4
  <2>5. r.t = s.t /\ r.u = s.u
    BY <1>3, <1>4, <2>2, <2>3, <2>4, JoinedApart
  <2>6. r.x = s.x
    BY <1>2, <1>3, <1>4, <1>5, <2>1, <2>2
  <2> QED BY <1>27, <1>1, <2>5, <2>6 DEF KeysOf!NameOf, KeysOf!OfSession, KeysOf!Record,
               KeysOf!Unused
<1>28. CASE r.kind = "telemetry"
  <2>1. KeysOf!PartitionKey(r) = KeysOf!telemetryPK(r.t) /\ KeysOf!PartitionKey(s)
          = KeysOf!telemetryPK(s.t)
    BY <1>28, <1>1 DEF KeysOf!PartitionKey
  <2>2. r.t = s.t
    <3> DEFINE day == <<"day">>
    <3>1. day \in Str /\ "TEL" \in Prefix
      BY OneSymbol DEF Symbol, Prefix
    <3>2. KeysOf!Joined("TEL", r.t, day) = KeysOf!Joined("TEL", s.t, day)
      BY <1>2, <2>1 DEF KeysOf!telemetryPK
    <3> HIDE DEF day
    <3>3. r.t \in Str /\ s.t \in Str /\ NoSep(r.t) /\ NoSep(s.t)
      BY <1>3, <1>4
    <3> QED BY <3>1, <3>2, <3>3, JoinedApart
  <2>3. Separated(r.p, r.x) = Separated(s.p, s.x)
    <3>1. KeysOf!SortKey(r) = KeysOf!telemetrySK(r.p, r.x)
      BY <1>28 DEF KeysOf!SortKey
    <3>2. KeysOf!SortKey(s) = KeysOf!telemetrySK(s.p, s.x)
      BY <1>28, <1>1 DEF KeysOf!SortKey
    <3> QED BY <1>2, <3>1, <3>2 DEF KeysOf!telemetrySK, Separated
  <2>4. NoSep(r.p) /\ NoSep(s.p)
    BY <1>28, <1>1, <1>3, <1>4
  <2>5. r.p = s.p /\ r.x = s.x
    <3>1. /\ r.p \in Str /\ r.x \in Str /\ s.p \in Str /\ s.x \in Str
      BY <1>3, <1>4
    <3> QED BY <3>1, <2>3, <2>4, SplitAtFirst
  <2> QED BY <1>28, <1>1, <2>2, <2>5 DEF KeysOf!NameOf, KeysOf!OfSession, KeysOf!Record,
               KeysOf!Unused
<1>29. CASE r.kind = "ratelimit"
  <2>1. /\ KeysOf!PartitionKey(r) = KeysOf!rateLimitPK(r.u, r.x, r.p)
        /\ KeysOf!PartitionKey(s) = KeysOf!rateLimitPK(s.u, s.x, s.p)
    BY <1>29, <1>1 DEF KeysOf!PartitionKey
  <2>2. Len(r.p) = 1 /\ Len(s.p) = 1
    BY <1>29, <1>1, <1>3, <1>4
  <2>3. KeysOf!rateLimitPK(r.u, r.x, r.p) = KeysOf!rateLimitPK(s.u, s.x, s.p)
    BY <1>2, <2>1
  <2>4. r.u = s.u /\ r.x = s.x /\ r.p = s.p
    <3>1. /\ r.u \in Str /\ r.x \in Str /\ r.p \in Str /\ NoSep(r.u)
          /\ s.u \in Str /\ s.x \in Str /\ s.p \in Str /\ NoSep(s.u)
      BY <1>3, <1>4
    <3> DEFINE a == r.u
               b == r.x
               x == r.p
               c == s.u
               d == s.x
               y == s.p
    <3>2. /\ a \in Str /\ b \in Str /\ x \in Str /\ NoSep(a) /\ Len(x) = 1
          /\ c \in Str /\ d \in Str /\ y \in Str /\ NoSep(c) /\ Len(y) = 1
          /\ KeysOf!rateLimitPK(a, b, x) = KeysOf!rateLimitPK(c, d, y)
      BY <3>1, <2>2, <2>3
    <3> HIDE DEF a, b, c, d, x, y
    <3>3. a = c /\ b = d /\ x = y
      BY <3>2, RateLimitApart
    <3> QED BY <3>3 DEF a, b, c, d, x, y
  <2> QED BY <1>29, <1>1, <2>4 DEF KeysOf!NameOf, KeysOf!OfSession, KeysOf!Record,
               KeysOf!Unused
<1>30. r.kind \in DOMAIN Opening
  BY DEF KeysOf!Record, Opening
<1> QED
  BY <1>7, <1>8, <1>9, <1>10, <1>11, <1>12, <1>13, <1>14, <1>15, <1>16,
     <1>17, <1>18, <1>19, <1>20, <1>21, <1>22, <1>23, <1>24, <1>25, <1>26,
     <1>27, <1>28, <1>29, <1>30 DEF Opening

LEMMA NameTellsKey ==
  ASSUME NEW r \in KeysOf!Record, NEW s \in KeysOf!Record, KeysOf!NameOf(r)
           = KeysOf!NameOf(s)
  PROVE  KeysOf!Key(r) = KeysOf!Key(s)
<1>1. r.kind = s.kind /\ r.x = s.x
  BY DEF KeysOf!NameOf
<1>2. r.kind \notin KeysOf!OfSession => r.t = s.t
  BY <1>1 DEF KeysOf!NameOf
<1>3. r.kind \notin KeysOf!OfSession \cup {"link"} => r.u = s.u
  BY <1>1 DEF KeysOf!NameOf
<1>4. r.kind \notin KeysOf!OfSession \cup {"keyid"} => r.p = s.p
  BY <1>1 DEF KeysOf!NameOf
<1>5. KeysOf!PartitionKey(r) = KeysOf!PartitionKey(s)
  <2>1. CASE r.kind \in KeysOf!OfSession
    BY <1>1, <2>1 DEF KeysOf!PartitionKey, KeysOf!OfSession
  <2>2. CASE r.kind = "link"
    <3>1. r.p = s.p
      BY <1>4, <2>2 DEF KeysOf!OfSession
    <3> QED BY <1>1, <2>2, <3>1 DEF KeysOf!PartitionKey
  <2>3. CASE r.kind = "keyid"
    BY <1>1, <2>3 DEF KeysOf!PartitionKey
  <2>4. CASE r.kind \notin KeysOf!OfSession \cup {"link", "keyid"}
    <3>1. r.t = s.t /\ r.u = s.u /\ r.p = s.p
      BY <1>2, <1>3, <1>4, <2>4
    <3> QED BY <1>1, <3>1, Zenon DEF KeysOf!PartitionKey
  <2> QED BY <2>1, <2>2, <2>3, <2>4
<1>6. KeysOf!SortKey(r) = KeysOf!SortKey(s)
  <2>1. CASE r.kind \in KeysOf!OfSession
    BY <1>1, <2>1 DEF KeysOf!SortKey, KeysOf!OfSession
  <2>2. CASE r.kind = "link"
    BY <1>1, <2>2 DEF KeysOf!SortKey
  <2>3. CASE r.kind = "keyid"
    BY <1>1, <2>3 DEF KeysOf!SortKey
  <2>4. CASE r.kind \notin KeysOf!OfSession \cup {"link", "keyid"}
    <3>1. r.t = s.t /\ r.u = s.u /\ r.p = s.p
      BY <1>2, <1>3, <1>4, <2>4
    <3> QED BY <1>1, <3>1, Zenon DEF KeysOf!SortKey
  <2> QED BY <2>1, <2>2, <2>3, <2>4
<1> QED BY <1>5, <1>6 DEF KeysOf!Key
-----------------------------------------------------------------------------
(* The names of the records are all different, and so are their keys.      *)
OneOfAName == \A r, s \in recorded : KeysOf!NameOf(r) = KeysOf!NameOf(s) => r = s

LayoutInv == KeysOf!TypeOK /\ KeysOf!RecordsKeepApart /\ OneOfAName

LEMMA PutKeepsThemApart ==
  ASSUME KeysOf!keysAreText, LayoutInv, NEW r \in KeysOf!Record, KeysOf!Put(r)
  PROVE  LayoutInv'
<1>1. \A s \in recorded : KeysOf!Key(s) = KeysOf!Key(r) <=> KeysOf!NameOf(s)
        = KeysOf!NameOf(r)
  <2> TAKE s \in recorded
  <2>1. s \in KeysOf!Record
    BY DEF LayoutInv, KeysOf!TypeOK
  <2> QED BY <2>1, KeyTellsName, NameTellsKey
<1>2. table' = recorded'
  BY <1>1 DEF KeysOf!Put, LayoutInv, KeysOf!RecordsKeepApart
<1>3. recorded' \subseteq KeysOf!Record
  BY DEF KeysOf!Put, LayoutInv, KeysOf!TypeOK
<1>4. OneOfAName'
  BY DEF KeysOf!Put, LayoutInv, OneOfAName
<1> QED BY <1>2, <1>3, <1>4 DEF LayoutInv, KeysOf!TypeOK, KeysOf!RecordsKeepApart

LEMMA RemoveKeepsThemApart ==
  ASSUME KeysOf!keysAreText, LayoutInv, NEW r \in recorded, KeysOf!Remove(r)
  PROVE  LayoutInv'
<1>1. \A s \in recorded : KeysOf!Key(s) = KeysOf!Key(r) <=> s = r
  <2> TAKE s \in recorded
  <2>1. s \in KeysOf!Record /\ r \in KeysOf!Record
    BY DEF LayoutInv, KeysOf!TypeOK
  <2>2. KeysOf!Key(s) = KeysOf!Key(r) => KeysOf!NameOf(s) = KeysOf!NameOf(r)
    BY <2>1, KeyTellsName
  <2> QED BY <2>2 DEF LayoutInv, OneOfAName
<1>2. table' = recorded'
  BY <1>1 DEF KeysOf!Remove, LayoutInv, KeysOf!RecordsKeepApart
<1>3. recorded' \subseteq KeysOf!Record
  BY DEF KeysOf!Remove, LayoutInv, KeysOf!TypeOK
<1>4. OneOfAName'
  BY DEF KeysOf!Remove, LayoutInv, OneOfAName
<1> QED BY <1>2, <1>3, <1>4 DEF LayoutInv, KeysOf!TypeOK, KeysOf!RecordsKeepApart

LEMMA LayoutInit == KeysOf!Init => LayoutInv
BY DEF KeysOf!Init, LayoutInv, KeysOf!TypeOK, KeysOf!RecordsKeepApart, OneOfAName

LEMMA LayoutStep == LayoutInv /\ [KeysOf!Next]_layoutVars => LayoutInv'
<1> SUFFICES ASSUME LayoutInv, [KeysOf!Next]_layoutVars PROVE LayoutInv'
  OBVIOUS
<1>1. ASSUME NEW r \in KeysOf!Record, KeysOf!Put(r) PROVE LayoutInv'
  BY <1>1, LayoutAssumption, PutKeepsThemApart
<1>2. ASSUME NEW r \in recorded, KeysOf!Remove(r) PROVE LayoutInv'
  BY <1>2, LayoutAssumption, RemoveKeepsThemApart
<1>3. CASE UNCHANGED layoutVars
  BY <1>3 DEF layoutVars, LayoutInv, KeysOf!TypeOK, KeysOf!RecordsKeepApart, OneOfAName
<1> QED BY <1>1, <1>2, <1>3 DEF KeysOf!Next

(* Whatever strings callers supply, under one tenant or many: what the     *)
(* stores put in the one table and have not removed is what it holds, no   *)
(* record under the key of another (keys.go, keySep and idPattern).        *)
THEOREM Separation == KeysOf!Spec => []KeysOf!RecordsKeepApart
<1>1. LayoutInv /\ [KeysOf!Next]_(KeysOf!layoutVars) => LayoutInv'
  BY LayoutStep DEF KeysOf!layoutVars, layoutVars
<1>2. LayoutInv => KeysOf!RecordsKeepApart
  BY DEF LayoutInv
<1> QED BY LayoutInit, <1>1, <1>2, PTL DEF KeysOf!Spec

-----------------------------------------------------------------------------
(* Queries.  What begins with a prefix is the prefix and something more.   *)

LEMMA Continues ==
  ASSUME NEW a \in Str, NEW b \in Str
  PROVE  KeysOf!BeginsWith(a \o b, a)
<1>1. /\ a \o b \in Str /\ Len(a \o b) = Len(a) + Len(b)
      /\ \A i \in 1 .. Len(a) + Len(b) :
           (a \o b)[i] = IF i <= Len(a) THEN a[i] ELSE b[i - Len(a)]
  BY ConcatProperties DEF Str
<1>2. Len(a) \in Nat /\ Len(b) \in Nat
  BY LenProperties DEF Str
<1> DEFINE s == a \o b
           n == Len(a)
<1> HIDE DEF s, n
<1>3. \A i \in 1 .. n : s[i] = a[i] /\ s[i] \in Symbol
  BY <1>1, <1>2, ElementOfSeq DEF Str, s, n
<1>4. /\ SubSeq(s, 1, n) \in Str
      /\ Len(SubSeq(s, 1, n)) = IF 1 <= n THEN n - 1 + 1 ELSE 0
      /\ \A i \in 1 .. n - 1 + 1 : SubSeq(s, 1, n)[i] = s[1 + i - 1]
  BY <1>2, <1>3, SubSeqProperties DEF Str, n
<1>5. Len(SubSeq(s, 1, n)) = Len(a) /\ \A i \in 1 .. Len(a) : SubSeq(s, 1, n)[i] = a[i]
  <2>1. n \in Nat /\ n = Len(a) /\ n - 1 + 1 = n /\ \A i \in 1 .. n : 1 + i - 1 = i
    BY <1>2 DEF n
  <2> QED BY <1>3, <1>4, <2>1
<1>6. SubSeq(s, 1, n) = a
  BY <1>4, <1>5, SeqEqual DEF Str
<1> QED BY <1>1, <1>2, <1>6 DEF KeysOf!BeginsWith, s, n

LEMMA SharesTheStart ==
  ASSUME NEW s \in Str, NEW a \in Str, KeysOf!BeginsWith(s, a)
  PROVE  /\ \E b \in Str : s = a \o b
         /\ \A i \in 1 .. Len(a) : s[i] = a[i]
<1> DEFINE n == Len(a)
           b == SubSeq(s, n + 1, Len(s))
<1>1. n \in Nat /\ Len(s) \in Nat /\ n <= Len(s) /\ SubSeq(s, 1, n) = a
  BY LenProperties DEF KeysOf!BeginsWith, Str
<1>2. \A i \in 1 .. Len(s) : s[i] \in Symbol
  BY ElementOfSeq DEF Str
<1> HIDE DEF n
<1>3. \A i \in n + 1 .. Len(s) : s[i] \in Symbol
  BY <1>1, <1>2
<1>4. b \in Str
  BY <1>1, <1>3, SubSeqProperties DEF Str
<1>5. SubSeq(s, 1, n) \o b = SubSeq(s, 1, Len(s))
  <2>1. 1 \in 1 .. Len(s) + 1 /\ n \in 1 - 1 .. Len(s) /\ Len(s) \in n .. Len(s)
    BY <1>1
  <2> QED BY <2>1, ConcatAdjacentSubSeq DEF Str
<1>6. SubSeq(s, 1, Len(s)) = s
  BY SubSeqFull DEF Str
<1> HIDE DEF b
<1>7. s = a \o b
  BY <1>1, <1>5, <1>6
<1>8. Len(b) \in Nat /\ Len(a) \in Nat
  BY <1>4, LenProperties DEF Str
<1>9. \A i \in 1 .. Len(a) + Len(b) :
        (a \o b)[i] = IF i <= Len(a) THEN a[i] ELSE b[i - Len(a)]
  BY <1>4, ConcatProperties DEF Str
<1>10. \A i \in 1 .. Len(a) : (a \o b)[i] = a[i]
  BY <1>8, <1>9
<1> QED BY <1>4, <1>7, <1>10

(* Everything begins with nothing. *)
LEMMA AllOfThem == ASSUME NEW s \in Str PROVE KeysOf!BeginsWith(s, <<>>)
<1>1. <<>> \in Str /\ <<>> \o s = s
  BY EmptySeq, ConcatEmptySeq DEF Str
<1> QED BY <1>1, Continues

(* With a word, what opens with the word.                                  *)
LEMMA TaggedBegins ==
  ASSUME NEW q \in Prefix, NEW a \in Str
  PROVE  KeysOf!BeginsWith(KeysOf!Tagged(q, a), KeysOf!Tagged(q, <<>>))
<1> DEFINE h == <<q, KeysOf!Sep>>
<1>1. h \in Str
  BY SepIsASymbol DEF Symbol, Str
<1> HIDE DEF h
<1>2. h \o <<>> = h
  BY <1>1, ConcatEmptySeq DEF Str
<1>3. KeysOf!BeginsWith(h \o a, h)
  BY <1>1, Continues
<1> QED BY <1>2, <1>3 DEF KeysOf!Tagged, h

LEMMA BeginsTagged ==
  ASSUME NEW q \in Prefix, NEW s \in Str, KeysOf!BeginsWith(s, KeysOf!Tagged(q, <<>>))
  PROVE  s[1] = q
<1> DEFINE h == <<q, KeysOf!Sep>>
<1>1. h \in Str /\ Len(h) = 2 /\ h[1] = q
  BY SepIsASymbol DEF Symbol, Str
<1> HIDE DEF h
<1>2. h \o <<>> = h
  BY <1>1, ConcatEmptySeq DEF Str
<1>3. KeysOf!BeginsWith(s, h)
  BY <1>2 DEF KeysOf!Tagged, h
<1> QED BY <1>1, <1>3, SharesTheStart

LEMMA JoinedBegins ==
  ASSUME NEW q \in Prefix, NEW a \in Str, NEW b \in Str
  PROVE  KeysOf!BeginsWith(KeysOf!Joined(q, a, b), KeysOf!Tagged(q, <<>>))
BY JoinedIsTagged, TaggedBegins

(* No word stands alone for what is tagged with it.                        *)
LEMMA TaggedIsLonger ==
  ASSUME NEW q \in Prefix, NEW a \in Str
  PROVE  KeysOf!Tagged(q, a) # <<q>>
<1> DEFINE h == <<q, KeysOf!Sep>>
<1>1. h \in Str /\ Len(h) = 2
  BY SepIsASymbol DEF Symbol, Str
<1> HIDE DEF h
<1>2. Len(h \o a) = Len(h) + Len(a)
  BY <1>1, ConcatProperties DEF Str
<1>3. Len(<<q>>) = 1 /\ Len(a) \in Nat
  BY OneSymbol, LenProperties DEF Symbol, Str
<1>4. Len(h \o a) # 1
  BY <1>1, <1>2, <1>3
<1>5. KeysOf!Tagged(q, a) = h \o a
  BY DEF KeysOf!Tagged, h
<1> QED BY <1>3, <1>4, <1>5

(* A tenant's prefix is that of no tenant whose name continues its.        *)
LEMMA TenantBegins ==
  ASSUME NEW a \in Str, NEW b \in Str, NEW t \in Str, NoSep(a), NoSep(t)
  PROVE  KeysOf!BeginsWith(KeysOf!userGSI1SK(a, b), KeysOf!TenantPrefix(t)) <=> a = t
<1> DEFINE p == KeysOf!TenantPrefix(t)
           s == KeysOf!userGSI1SK(a, b)
<1>1. p \in Str /\ p = t \o <<KeysOf!Sep>>
  BY Ended, SepIsASymbol DEF KeysOf!TenantPrefix
<1>2. s = Separated(a, b)
  BY DEF KeysOf!userGSI1SK, Separated
<1>3. s \in Str
  <2>1. a \o <<KeysOf!Sep>> \in Str
    BY Ended, SepIsASymbol
  <2> QED BY <1>2, <2>1, ConcatProperties DEF Separated, Str
<1>4. ASSUME KeysOf!BeginsWith(s, p) PROVE a = t
  <2> HIDE DEF p, s
  <2>1. PICK c \in Str : s = p \o c
    BY <1>1, <1>3, <1>4, SharesTheStart
  <2>2. Separated(a, b) = Separated(t, c)
    BY <1>1, <1>2, <2>1 DEF Separated
  <2> QED BY <2>2, SplitAtFirst
<1>5. ASSUME a = t PROVE KeysOf!BeginsWith(s, p)
  <2>1. s = p \o b
    BY <1>1, <1>2, <1>5 DEF Separated
  <2> HIDE DEF p, s
  <2> QED BY <1>1, <2>1, Continues
<1> QED BY <1>4, <1>5

(* The word under which an item is in the index.                           *)
IndexOpening ==
  [profile |-> "USER", session |-> "USER", sessionidx |-> "SESSION",
   member |-> "USERID", link |-> "USERID", roleassign |-> "ROLE",
   apikey |-> "APIKEY", keyid |-> "APIKEYSVC"]

LEMMA IndexWord ==
  ASSUME KeysOf!keysAreText, NEW r \in KeysOf!Record, r.kind \in KeysOf!Indexed
  PROVE  KeysOf!IndexKey(r)[1][1] = IndexOpening[r.kind]
<1>1. /\ r.t \in Str /\ r.u \in Str /\ r.p \in Str /\ r.x \in Str
  BY SegmentFacts
<1>2. /\ r.kind = "profile" => KeysOf!IndexKey(r)[1] = <<"USER">>
      /\ r.kind = "sessionidx" => KeysOf!IndexKey(r)[1] = <<"SESSION">>
      /\ r.kind = "apikey" => KeysOf!IndexKey(r)[1] = <<"APIKEY">>
  BY DEF KeysOf!IndexKey
<1>3. /\ r.kind = "session" => KeysOf!IndexKey(r)[1] = KeysOf!Joined("USER", r.t, r.u)
      /\ r.kind = "member" => KeysOf!IndexKey(r)[1] = KeysOf!Tagged("USERID", r.u)
      /\ r.kind = "link" => KeysOf!IndexKey(r)[1] = KeysOf!Tagged("USERID", r.u)
  BY DEF KeysOf!IndexKey, KeysOf!userPK
<1>4. /\ r.kind = "roleassign" => KeysOf!IndexKey(r)[1] = KeysOf!Tagged("ROLE", r.x)
      /\ r.kind = "keyid" => KeysOf!IndexKey(r)[1] = KeysOf!Tagged("APIKEYSVC", r.p)
  BY DEF KeysOf!IndexKey
<1>5. /\ KeysOf!Joined("USER", r.t, r.u)[1] = "USER"
      /\ KeysOf!Tagged("USERID", r.u)[1] = "USERID"
      /\ KeysOf!Tagged("ROLE", r.x)[1] = "ROLE"
      /\ KeysOf!Tagged("APIKEYSVC", r.p)[1] = "APIKEYSVC"
  <2>1. {"USER", "USERID", "ROLE", "APIKEYSVC"} \subseteq Prefix
    BY DEF Prefix
  <2> QED BY <1>1, <2>1, TaggedProperties, JoinedProperties
<1>6. /\ <<"USER">>[1] = "USER" /\ <<"SESSION">>[1] = "SESSION"
      /\ <<"APIKEY">>[1] = "APIKEY"
  OBVIOUS
<1>7. /\ r.kind = "profile" => IndexOpening[r.kind] = "USER"
      /\ r.kind = "session" => IndexOpening[r.kind] = "USER"
      /\ r.kind = "sessionidx" => IndexOpening[r.kind] = "SESSION"
      /\ r.kind = "member" => IndexOpening[r.kind] = "USERID"
      /\ r.kind = "link" => IndexOpening[r.kind] = "USERID"
      /\ r.kind = "roleassign" => IndexOpening[r.kind] = "ROLE"
      /\ r.kind = "apikey" => IndexOpening[r.kind] = "APIKEY"
      /\ r.kind = "keyid" => IndexOpening[r.kind] = "APIKEYSVC"
  BY DEF IndexOpening
<1>8. r.kind \in {"profile", "session", "sessionidx", "member", "roleassign", "link",
                  "apikey", "keyid"}
  BY DEF KeysOf!Indexed
<1> QED BY <1>2, <1>3, <1>4, <1>5, <1>6, <1>7, <1>8

(* A user's items: their profile and roles, in the partition; their        *)
(* sessions, in the index.                                                 *)
LEMMA OfAUser ==
  ASSUME KeysOf!keysAreText, NEW r \in KeysOf!Record, NEW t \in KeysOf!Tenant,
         NEW u \in KeysOf!Id
  PROVE  /\ KeysOf!PartitionKey(r) = KeysOf!userPK(t, u)
              <=> r.kind \in {"profile", "roleassign"} /\ r.t = t /\ r.u = u
         /\ r.kind \in KeysOf!Indexed
              => (KeysOf!IndexKey(r)[1] = KeysOf!userPK(t, u)
                    <=> r.kind = "session" /\ r.t = t /\ r.u = u)
<1>1. /\ r.t \in Str /\ r.u \in Str /\ NoSep(r.t)
      /\ t \in Str /\ u \in Str /\ NoSep(t) /\ "USER" \in Prefix
  BY SegmentFacts, AskedBy DEF Prefix
<1>2. /\ KeysOf!userPK(t, u)[1] = "USER"
      /\ KeysOf!userPK(t, u) # <<"USER">>
  BY <1>1, JoinedProperties, JoinedIsTagged, TaggedIsLonger DEF KeysOf!userPK
<1>3. KeysOf!userPK(r.t, r.u) = KeysOf!userPK(t, u) <=> r.t = t /\ r.u = u
  BY <1>1, JoinedApart DEF KeysOf!userPK
<1>4. r.kind \in {"profile", "roleassign"}
        => KeysOf!PartitionKey(r) = KeysOf!userPK(r.t, r.u)
  BY DEF KeysOf!PartitionKey
<1>5. KeysOf!PartitionKey(r)[1] = "USER" => r.kind \in {"profile", "roleassign"}
  <2>1. r.kind \in DOMAIN Opening
    BY DEF KeysOf!Record, Opening
  <2> QED BY <2>1, OpeningWord DEF Opening
<1>6. /\ r.kind = "session" => KeysOf!IndexKey(r)[1] = KeysOf!userPK(r.t, r.u)
      /\ r.kind = "profile" => KeysOf!IndexKey(r)[1] = <<"USER">>
  BY DEF KeysOf!IndexKey
<1>7. r.kind \in KeysOf!Indexed /\ KeysOf!IndexKey(r)[1][1] = "USER"
        => r.kind \in {"profile", "session"}
  BY IndexWord DEF KeysOf!Indexed, IndexOpening
<1> QED BY <1>2, <1>3, <1>4, <1>5, <1>6, <1>7

(* Where the sort keys begin.                                              *)
LEMMA SortsUnder ==
  ASSUME KeysOf!keysAreText, NEW r \in KeysOf!Record
  PROVE  /\ r.kind = "profile"
              => ~ KeysOf!BeginsWith(KeysOf!SortKey(r), KeysOf!Tagged("ROLE", <<>>))
         /\ r.kind \in {"roleassign", "role"}
              => KeysOf!BeginsWith(KeysOf!SortKey(r), KeysOf!Tagged("ROLE", <<>>))
         /\ r.kind = "meta"
              => KeysOf!BeginsWith(KeysOf!SortKey(r), KeysOf!Tagged("META", <<>>))
         /\ r.kind = "member"
              => KeysOf!BeginsWith(KeysOf!SortKey(r), KeysOf!Tagged("MEMBER", <<>>))
         /\ r.kind = "tenant"
              => KeysOf!BeginsWith(KeysOf!SortKey(r), KeysOf!Tagged("TENANT", <<>>))
         /\ r.kind = "webhook"
              => KeysOf!BeginsWith(KeysOf!SortKey(r), KeysOf!Tagged("WHK", <<>>))
         /\ r.kind \in {"template", "uitranslation"}
              => /\ KeysOf!BeginsWith(KeysOf!SortKey(r), KeysOf!Tagged("MAIL", <<>>))
                      <=> r.kind = "template"
                 /\ KeysOf!BeginsWith(KeysOf!SortKey(r), KeysOf!Tagged("UI", <<>>))
                      <=> r.kind = "uitranslation"
<1>1. r.t \in Str /\ r.u \in Str /\ r.x \in Str
  BY SegmentFacts
<1>2. {"ROLE", "META", "MEMBER", "TENANT", "WHK", "MAIL", "UI"} \subseteq Prefix
  BY DEF Prefix
<1>3. \A q \in Prefix, a \in Str :
        /\ KeysOf!BeginsWith(KeysOf!Tagged(q, a), KeysOf!Tagged(q, <<>>))
        /\ KeysOf!Tagged(q, a) \in Str
  BY TaggedBegins, TaggedProperties
<1>4. r.kind \in {"roleassign", "role"} => KeysOf!SortKey(r) = KeysOf!Tagged("ROLE", r.x)
  BY DEF KeysOf!SortKey
<1>5. r.kind = "meta" => KeysOf!SortKey(r) = KeysOf!Tagged("META", r.x)
  BY DEF KeysOf!SortKey
<1>6. r.kind = "member" => KeysOf!SortKey(r) = KeysOf!Tagged("MEMBER", r.u)
  BY DEF KeysOf!SortKey
<1>7. r.kind = "tenant" => KeysOf!SortKey(r) = KeysOf!Tagged("TENANT", r.t)
  BY DEF KeysOf!SortKey
<1>8. r.kind = "webhook" => KeysOf!SortKey(r) = KeysOf!Tagged("WHK", r.x)
  BY DEF KeysOf!SortKey
<1>9. r.kind = "template" => KeysOf!SortKey(r) = KeysOf!Tagged("MAIL", r.x)
  BY DEF KeysOf!SortKey
<1>10. r.kind = "uitranslation" => KeysOf!SortKey(r) = KeysOf!Tagged("UI", r.x)
  BY DEF KeysOf!SortKey
<1>11. /\ r.kind = "profile" => KeysOf!SortKey(r) = <<"PROFILE">>
       /\ <<"PROFILE">> \in Str /\ <<"PROFILE">>[1] = "PROFILE"
  BY OneSymbol DEF KeysOf!SortKey, Prefix, Symbol
<1>12. \A q \in Prefix, s \in Str :
         KeysOf!BeginsWith(s, KeysOf!Tagged(q, <<>>)) => s[1] = q
  BY BeginsTagged
<1>13. r.kind = "profile"
         => ~ KeysOf!BeginsWith(KeysOf!SortKey(r), KeysOf!Tagged("ROLE", <<>>))
  BY <1>2, <1>11, <1>12
<1>14. r.kind = "template"
         => ~ KeysOf!BeginsWith(KeysOf!SortKey(r), KeysOf!Tagged("UI", <<>>))
  BY <1>1, <1>2, <1>3, <1>9, <1>12, SortWord
<1>15. r.kind = "uitranslation"
         => ~ KeysOf!BeginsWith(KeysOf!SortKey(r), KeysOf!Tagged("MAIL", <<>>))
  BY <1>1, <1>2, <1>3, <1>10, <1>12, SortWord
<1> QED
  BY <1>1, <1>2, <1>3, <1>4, <1>5, <1>6, <1>7, <1>8, <1>9, <1>10, <1>13, <1>14, <1>15

LEMMA IndexSortsUnder ==
  ASSUME KeysOf!keysAreText, NEW r \in KeysOf!Record
  PROVE  /\ r.kind \in KeysOf!Indexed => KeysOf!IndexKey(r)[2] \in Str
         /\ r.kind = "session"
              => KeysOf!BeginsWith(KeysOf!IndexKey(r)[2], KeysOf!Tagged("SESSION", <<>>))
         /\ r.kind \in {"member", "link"}
              => /\ KeysOf!BeginsWith(KeysOf!IndexKey(r)[2], KeysOf!Tagged("OAUTH", <<>>))
                      <=> r.kind = "link"
                 /\ KeysOf!BeginsWith(KeysOf!IndexKey(r)[2], KeysOf!Tagged("TENANT", <<>>))
                      <=> r.kind = "member"
<1>1. r.t \in Str /\ r.u \in Str /\ r.p \in Str /\ r.x \in Str
  BY SegmentFacts
<1>2. {"SESSION", "OAUTH", "TENANT", "USER", "created"} \subseteq Prefix
  BY DEF Prefix
<1>3. /\ r.kind = "profile" => KeysOf!IndexKey(r)[2] = KeysOf!userGSI1SK(r.t, r.u)
      /\ r.kind = "session" => KeysOf!IndexKey(r)[2] = KeysOf!Joined("SESSION", r.p, r.x)
      /\ r.kind = "sessionidx" => KeysOf!IndexKey(r)[2] = r.x
      /\ r.kind = "member" => KeysOf!IndexKey(r)[2] = KeysOf!Tagged("TENANT", r.t)
  BY DEF KeysOf!IndexKey
<1>4. /\ r.kind = "roleassign" => KeysOf!IndexKey(r)[2] = KeysOf!Joined("USER", r.t, r.u)
      /\ r.kind = "link" => KeysOf!IndexKey(r)[2] = KeysOf!Joined("OAUTH", r.p, r.x)
      /\ r.kind \in {"apikey", "keyid"}
           => KeysOf!IndexKey(r)[2] = KeysOf!Tagged("created", r.x)
  BY DEF KeysOf!IndexKey, KeysOf!userPK
<1>5. \A q \in Prefix, a, b \in Str :
        /\ KeysOf!Tagged(q, a) \in Str /\ KeysOf!Tagged(q, a)[1] = q
        /\ KeysOf!Joined(q, a, b) \in Str /\ KeysOf!Joined(q, a, b)[1] = q
        /\ KeysOf!BeginsWith(KeysOf!Tagged(q, a), KeysOf!Tagged(q, <<>>))
        /\ KeysOf!BeginsWith(KeysOf!Joined(q, a, b), KeysOf!Tagged(q, <<>>))
  BY TaggedProperties, JoinedProperties, TaggedBegins, JoinedBegins
<1>6. KeysOf!userGSI1SK(r.t, r.u) \in Str
  BY <1>1, JoinedIsTagged, <1>2 DEF KeysOf!userGSI1SK, Separated
<1>7. r.kind \in KeysOf!Indexed => KeysOf!IndexKey(r)[2] \in Str
  <2>1. /\ KeysOf!Joined("SESSION", r.p, r.x) \in Str
        /\ KeysOf!Tagged("TENANT", r.t) \in Str
        /\ KeysOf!Joined("USER", r.t, r.u) \in Str
        /\ KeysOf!Joined("OAUTH", r.p, r.x) \in Str
        /\ KeysOf!Tagged("created", r.x) \in Str
    BY <1>1, <1>2, <1>5
  <2>2. r.kind \in KeysOf!Indexed
          => r.kind \in {"profile", "session", "sessionidx", "member", "roleassign",
                         "link", "apikey", "keyid"}
    BY DEF KeysOf!Indexed
  <2> QED BY <1>1, <1>3, <1>4, <1>6, <2>1, <2>2
<1>8. \A q \in Prefix, s \in Str :
        KeysOf!BeginsWith(s, KeysOf!Tagged(q, <<>>)) => s[1] = q
  BY BeginsTagged
<1>9. r.kind = "link"
        => ~ KeysOf!BeginsWith(KeysOf!IndexKey(r)[2], KeysOf!Tagged("TENANT", <<>>))
  <2>1. KeysOf!Joined("OAUTH", r.p, r.x) \in Str
        /\ KeysOf!Joined("OAUTH", r.p, r.x)[1] = "OAUTH"
    BY <1>1, <1>2, <1>5
  <2>2. \A s \in Str : KeysOf!BeginsWith(s, KeysOf!Tagged("TENANT", <<>>)) => s[1]
          = "TENANT"
    BY <1>2, <1>8
  <2> QED BY <1>4, <2>1, <2>2
<1>10. r.kind = "member"
         => ~ KeysOf!BeginsWith(KeysOf!IndexKey(r)[2], KeysOf!Tagged("OAUTH", <<>>))
  <2>1. KeysOf!Tagged("TENANT", r.t) \in Str /\ KeysOf!Tagged("TENANT", r.t)[1] = "TENANT"
    BY <1>1, <1>2, <1>5
  <2>2. \A s \in Str : KeysOf!BeginsWith(s, KeysOf!Tagged("OAUTH", <<>>)) => s[1] = "OAUTH"
    BY <1>2, <1>8
  <2> QED BY <1>3, <2>1, <2>2
<1>11. /\ r.kind = "session"
             => KeysOf!BeginsWith(KeysOf!IndexKey(r)[2], KeysOf!Tagged("SESSION", <<>>))
       /\ r.kind = "link"
             => KeysOf!BeginsWith(KeysOf!IndexKey(r)[2], KeysOf!Tagged("OAUTH", <<>>))
  <2>1. /\ KeysOf!BeginsWith(KeysOf!Joined("SESSION", r.p, r.x),
                             KeysOf!Tagged("SESSION", <<>>))
        /\ KeysOf!BeginsWith(KeysOf!Joined("OAUTH", r.p, r.x),
                             KeysOf!Tagged("OAUTH", <<>>))
    BY <1>1, <1>2, <1>5
  <2> QED BY <1>3, <1>4, <2>1
<1>12. r.kind = "member"
         => KeysOf!BeginsWith(KeysOf!IndexKey(r)[2], KeysOf!Tagged("TENANT", <<>>))
  <2>1. KeysOf!BeginsWith(KeysOf!Tagged("TENANT", r.t), KeysOf!Tagged("TENANT", <<>>))
    BY <1>1, <1>2, <1>5
  <2> QED BY <1>3, <2>1
<1> QED BY <1>7, <1>9, <1>10, <1>11, <1>12

(* The partitions and the parts of the index, by what is in them.          *)
LEMMA InItsPartition ==
  ASSUME KeysOf!keysAreText, NEW r \in KeysOf!Record
  PROVE  /\ \A w \in Str : KeysOf!PartitionKey(r) = KeysOf!Tagged("USERMETA", w)
                             <=> r.kind = "meta" /\ r.u = w
         /\ \A w \in Str : KeysOf!PartitionKey(r) = KeysOf!Tagged("TENANT", w)
                             <=> r.kind = "member" /\ r.t = w
         /\ \A w \in Str : NoSep(w)
              => (KeysOf!PartitionKey(r) = KeysOf!telemetryPK(w)
                    <=> r.kind = "telemetry" /\ r.t = w)
         /\ KeysOf!PartitionKey(r) = <<"TENANTS">> <=> r.kind = "tenant"
         /\ KeysOf!PartitionKey(r) = <<"ROLES">> <=> r.kind = "role"
         /\ KeysOf!PartitionKey(r) = <<"TEMPLATES">>
              <=> r.kind \in {"template", "uitranslation"}
         /\ KeysOf!PartitionKey(r) = <<"WEBHOOKS">> <=> r.kind = "webhook"
<1>1. r.t \in Str /\ r.u \in Str /\ NoSep(r.t)
  BY SegmentFacts
<1>2. {"USERMETA", "TENANT", "TEL"} \subseteq Prefix /\ <<"day">> \in Str
  BY OneSymbol DEF Prefix, Symbol
<1>3. KeysOf!PartitionKey(r)[1] = Opening[r.kind] /\ r.kind \in DOMAIN Opening
  <2>1. r.kind \in DOMAIN Opening
    BY DEF KeysOf!Record, Opening
  <2> QED BY <2>1, OpeningWord
<1>4. /\ Opening[r.kind] = "USERMETA" => r.kind = "meta"
      /\ Opening[r.kind] = "TENANT" => r.kind = "member"
      /\ Opening[r.kind] = "TEL" => r.kind = "telemetry"
      /\ Opening[r.kind] = "TENANTS" => r.kind = "tenant"
      /\ Opening[r.kind] = "ROLES" => r.kind = "role"
      /\ Opening[r.kind] = "TEMPLATES" => r.kind \in {"template", "uitranslation"}
      /\ Opening[r.kind] = "WEBHOOKS" => r.kind = "webhook"
  BY <1>3 DEF Opening
<1>5. /\ r.kind = "meta" => KeysOf!PartitionKey(r) = KeysOf!Tagged("USERMETA", r.u)
      /\ r.kind = "member" => KeysOf!PartitionKey(r) = KeysOf!Tagged("TENANT", r.t)
      /\ r.kind = "telemetry" => KeysOf!PartitionKey(r) = KeysOf!telemetryPK(r.t)
      /\ r.kind = "tenant" => KeysOf!PartitionKey(r) = <<"TENANTS">>
  BY DEF KeysOf!PartitionKey
<1>6. /\ r.kind = "role" => KeysOf!PartitionKey(r) = <<"ROLES">>
      /\ r.kind \in {"template", "uitranslation"}
           => KeysOf!PartitionKey(r) = <<"TEMPLATES">>
      /\ r.kind = "webhook" => KeysOf!PartitionKey(r) = <<"WEBHOOKS">>
  BY DEF KeysOf!PartitionKey
<1>7. \A q \in Prefix, a, b \in Str :
        /\ KeysOf!Tagged(q, a)[1] = q
        /\ KeysOf!Tagged(q, a) = KeysOf!Tagged(q, b) => a = b
  BY TaggedProperties
<1>8. \A a, b \in Str : NoSep(a) /\ NoSep(b) /\ KeysOf!telemetryPK(a)
        = KeysOf!telemetryPK(b)
                          => a = b
  BY <1>2, JoinedApart DEF KeysOf!telemetryPK
<1>9. \A a \in Str : KeysOf!telemetryPK(a)[1] = "TEL"
  BY <1>2, JoinedProperties DEF KeysOf!telemetryPK
<1>10. /\ <<"TENANTS">>[1] = "TENANTS" /\ <<"ROLES">>[1] = "ROLES"
       /\ <<"TEMPLATES">>[1] = "TEMPLATES" /\ <<"WEBHOOKS">>[1] = "WEBHOOKS"
  OBVIOUS
<1>11. \A w \in Str : KeysOf!PartitionKey(r) = KeysOf!Tagged("USERMETA", w)
                        <=> r.kind = "meta" /\ r.u = w
  BY <1>1, <1>2, <1>3, <1>4, <1>5, <1>7
<1>12. \A w \in Str : KeysOf!PartitionKey(r) = KeysOf!Tagged("TENANT", w)
                        <=> r.kind = "member" /\ r.t = w
  BY <1>1, <1>2, <1>3, <1>4, <1>5, <1>7
<1>13. \A w \in Str : NoSep(w)
         => (KeysOf!PartitionKey(r) = KeysOf!telemetryPK(w)
               <=> r.kind = "telemetry" /\ r.t = w)
  BY <1>1, <1>3, <1>4, <1>5, <1>8, <1>9
<1>14. /\ KeysOf!PartitionKey(r) = <<"TENANTS">> <=> r.kind = "tenant"
       /\ KeysOf!PartitionKey(r) = <<"ROLES">> <=> r.kind = "role"
  BY <1>3, <1>4, <1>5, <1>6, <1>10
<1>15. /\ KeysOf!PartitionKey(r) = <<"TEMPLATES">>
            <=> r.kind \in {"template", "uitranslation"}
       /\ KeysOf!PartitionKey(r) = <<"WEBHOOKS">> <=> r.kind = "webhook"
  BY <1>3, <1>4, <1>6, <1>10
<1> QED BY <1>11, <1>12, <1>13, <1>14, <1>15

LEMMA InItsIndex ==
  ASSUME KeysOf!keysAreText, NEW r \in KeysOf!Record, r.kind \in KeysOf!Indexed
  PROVE  /\ \A w \in Str : KeysOf!IndexKey(r)[1] = KeysOf!Tagged("USERID", w)
                             <=> r.kind \in {"member", "link"} /\ r.u = w
         /\ \A w \in Str : KeysOf!IndexKey(r)[1] = KeysOf!Tagged("APIKEYSVC", w)
                             <=> r.kind = "keyid" /\ r.p = w
         /\ \A w \in Str : KeysOf!IndexKey(r)[1] = KeysOf!Tagged("ROLE", w)
                             <=> r.kind = "roleassign" /\ r.x = w
         /\ KeysOf!IndexKey(r)[1] = <<"USER">> <=> r.kind = "profile"
         /\ KeysOf!IndexKey(r)[1] = <<"SESSION">> <=> r.kind = "sessionidx"
         /\ KeysOf!IndexKey(r)[1] = <<"APIKEY">> <=> r.kind = "apikey"
<1>1. r.t \in Str /\ r.u \in Str /\ r.p \in Str /\ r.x \in Str
  BY SegmentFacts
<1>2. {"USERID", "APIKEYSVC", "ROLE", "USER"} \subseteq Prefix
  BY DEF Prefix
<1>3. KeysOf!IndexKey(r)[1][1] = IndexOpening[r.kind]
  BY IndexWord
<1>4. /\ IndexOpening[r.kind] = "USERID" => r.kind \in {"member", "link"}
      /\ IndexOpening[r.kind] = "APIKEYSVC" => r.kind = "keyid"
      /\ IndexOpening[r.kind] = "ROLE" => r.kind = "roleassign"
      /\ IndexOpening[r.kind] = "USER" => r.kind \in {"profile", "session"}
      /\ IndexOpening[r.kind] = "SESSION" => r.kind = "sessionidx"
      /\ IndexOpening[r.kind] = "APIKEY" => r.kind = "apikey"
  BY DEF IndexOpening, KeysOf!Indexed
<1>5. /\ r.kind \in {"member", "link"}
           => KeysOf!IndexKey(r)[1] = KeysOf!Tagged("USERID", r.u)
      /\ r.kind = "keyid" => KeysOf!IndexKey(r)[1] = KeysOf!Tagged("APIKEYSVC", r.p)
      /\ r.kind = "roleassign" => KeysOf!IndexKey(r)[1] = KeysOf!Tagged("ROLE", r.x)
      /\ r.kind = "session" => KeysOf!IndexKey(r)[1] = KeysOf!Joined("USER", r.t, r.u)
  BY DEF KeysOf!IndexKey, KeysOf!userPK
<1>6. /\ r.kind = "profile" => KeysOf!IndexKey(r)[1] = <<"USER">>
      /\ r.kind = "sessionidx" => KeysOf!IndexKey(r)[1] = <<"SESSION">>
      /\ r.kind = "apikey" => KeysOf!IndexKey(r)[1] = <<"APIKEY">>
  BY DEF KeysOf!IndexKey
<1>7. \A q \in Prefix, a, b \in Str :
        /\ KeysOf!Tagged(q, a)[1] = q
        /\ KeysOf!Tagged(q, a) = KeysOf!Tagged(q, b) => a = b
  BY TaggedProperties
<1>8. KeysOf!Joined("USER", r.t, r.u) # <<"USER">>
  BY <1>1, <1>2, JoinedIsTagged, TaggedIsLonger
<1>9. /\ <<"USER">>[1] = "USER" /\ <<"SESSION">>[1] = "SESSION"
      /\ <<"APIKEY">>[1] = "APIKEY"
  OBVIOUS
<1>10. \A w \in Str : KeysOf!IndexKey(r)[1] = KeysOf!Tagged("USERID", w)
                        <=> r.kind \in {"member", "link"} /\ r.u = w
  BY <1>1, <1>2, <1>3, <1>4, <1>5, <1>7
<1>11. \A w \in Str : KeysOf!IndexKey(r)[1] = KeysOf!Tagged("APIKEYSVC", w)
                        <=> r.kind = "keyid" /\ r.p = w
  BY <1>1, <1>2, <1>3, <1>4, <1>5, <1>7
<1>12. \A w \in Str : KeysOf!IndexKey(r)[1] = KeysOf!Tagged("ROLE", w)
                        <=> r.kind = "roleassign" /\ r.x = w
  BY <1>1, <1>2, <1>3, <1>4, <1>5, <1>7
<1>13. /\ KeysOf!IndexKey(r)[1] = <<"USER">> <=> r.kind = "profile"
       /\ KeysOf!IndexKey(r)[1] = <<"SESSION">> <=> r.kind = "sessionidx"
       /\ KeysOf!IndexKey(r)[1] = <<"APIKEY">> <=> r.kind = "apikey"
  BY <1>3, <1>4, <1>5, <1>6, <1>8, <1>9
<1> QED BY <1>10, <1>11, <1>12, <1>13

(* The sort keys whose partitions are read from one end to the other.      *)
LEMMA SortKeyType ==
  ASSUME KeysOf!keysAreText, NEW r \in KeysOf!Record,
         r.kind \in {"profile", "roleassign", "telemetry"}
  PROVE  KeysOf!SortKey(r) \in Str
<1>1. r.p \in Str /\ r.x \in Str
  BY SegmentFacts
<1>2. /\ r.kind = "profile" => KeysOf!SortKey(r) = <<"PROFILE">>
      /\ r.kind = "roleassign" => KeysOf!SortKey(r) = KeysOf!Tagged("ROLE", r.x)
      /\ r.kind = "telemetry" => KeysOf!SortKey(r) = KeysOf!telemetrySK(r.p, r.x)
  BY DEF KeysOf!SortKey
<1>3. "ROLE" \in Prefix /\ "PROFILE" \in Prefix
  BY DEF Prefix
<1>4. <<"PROFILE">> \in Str /\ KeysOf!Tagged("ROLE", r.x) \in Str
  BY <1>1, <1>3, OneSymbol, TaggedProperties DEF Symbol
<1>5. KeysOf!telemetrySK(r.p, r.x) \in Str
  BY <1>1, <1>3, JoinedIsTagged DEF KeysOf!telemetrySK, Separated
<1> QED BY <1>2, <1>4, <1>5

(* Each query, over the table that holds what is recorded.                 *)
LEMMA UsersQueries ==
  ASSUME KeysOf!keysAreText, LayoutInv, NEW t \in KeysOf!Tenant, NEW u \in KeysOf!Id
  PROVE  LET theirs(kinds) == {r \in KeysOf!OfKind(kinds) : r.t = t /\ r.u = u} IN
         /\ KeysOf!InPartition(KeysOf!userPK(t, u), <<>>)
              = theirs({"profile", "roleassign"})
         /\ KeysOf!InPartition(KeysOf!userPK(t, u), KeysOf!Tagged("ROLE", <<>>))
              = theirs({"roleassign"})
         /\ KeysOf!InIndex(KeysOf!userPK(t, u), KeysOf!Tagged("SESSION", <<>>))
              = theirs({"session"})
<1>1. table = recorded /\ \A r \in recorded : r \in KeysOf!Record
  BY DEF LayoutInv, KeysOf!RecordsKeepApart, KeysOf!TypeOK
<1>2. KeysOf!InPartition(KeysOf!userPK(t, u), <<>>)
        = {r \in KeysOf!OfKind({"profile", "roleassign"}) : r.t = t /\ r.u = u}
  <2>1. \A r \in recorded :
          KeysOf!PartitionKey(r) = KeysOf!userPK(t, u)
              /\ KeysOf!BeginsWith(KeysOf!SortKey(r), <<>>)
            <=> r.kind \in {"profile", "roleassign"} /\ r.t = t /\ r.u = u
    BY <1>1, OfAUser, SortKeyType, AllOfThem
  <2> QED BY <1>1, <2>1 DEF KeysOf!InPartition, KeysOf!OfKind
<1>3. KeysOf!InPartition(KeysOf!userPK(t, u), KeysOf!Tagged("ROLE", <<>>))
        = {r \in KeysOf!OfKind({"roleassign"}) : r.t = t /\ r.u = u}
  <2>1. \A r \in recorded :
          KeysOf!PartitionKey(r) = KeysOf!userPK(t, u)
              /\ KeysOf!BeginsWith(KeysOf!SortKey(r), KeysOf!Tagged("ROLE", <<>>))
            <=> r.kind = "roleassign" /\ r.t = t /\ r.u = u
    BY <1>1, OfAUser, SortsUnder
  <2> QED BY <1>1, <2>1 DEF KeysOf!InPartition, KeysOf!OfKind
<1>4. KeysOf!InIndex(KeysOf!userPK(t, u), KeysOf!Tagged("SESSION", <<>>))
        = {r \in KeysOf!OfKind({"session"}) : r.t = t /\ r.u = u}
  <2>1. \A r \in recorded :
          (/\ r.kind \in KeysOf!Indexed
           /\ KeysOf!IndexKey(r)[1] = KeysOf!userPK(t, u)
           /\ KeysOf!BeginsWith(KeysOf!IndexKey(r)[2], KeysOf!Tagged("SESSION", <<>>)))
            <=> r.kind = "session" /\ r.t = t /\ r.u = u
    <3> TAKE r \in recorded
    <3>1. "session" \in KeysOf!Indexed
      BY DEF KeysOf!Indexed
    <3>2. r.kind \in KeysOf!Indexed
            => (KeysOf!IndexKey(r)[1] = KeysOf!userPK(t, u)
                  <=> r.kind = "session" /\ r.t = t /\ r.u = u)
      BY <1>1, OfAUser
    <3>3. r.kind = "session"
            => KeysOf!BeginsWith(KeysOf!IndexKey(r)[2], KeysOf!Tagged("SESSION", <<>>))
      BY <1>1, IndexSortsUnder
    <3> QED BY <3>1, <3>2, <3>3
  <2> QED BY <1>1, <2>1 DEF KeysOf!InIndex, KeysOf!OfKind
<1> QED BY <1>2, <1>3, <1>4

LEMMA OwnersQueries ==
  ASSUME KeysOf!keysAreText, LayoutInv, NEW u \in KeysOf!Id
  PROVE  LET theirs(kinds) == {r \in KeysOf!OfKind(kinds) : r.u = u} IN
         /\ KeysOf!InPartition(KeysOf!Tagged("USERMETA", u), KeysOf!Tagged("META", <<>>))
              = theirs({"meta"})
         /\ KeysOf!InIndex(KeysOf!Tagged("USERID", u), KeysOf!Tagged("OAUTH", <<>>))
              = theirs({"link"})
         /\ KeysOf!InIndex(KeysOf!Tagged("USERID", u), KeysOf!Tagged("TENANT", <<>>))
              = theirs({"member"})
<1>1. /\ table = recorded /\ \A r \in recorded : r \in KeysOf!Record
      /\ u \in Str
  BY AskedBy DEF LayoutInv, KeysOf!RecordsKeepApart, KeysOf!TypeOK
<1>2. KeysOf!InPartition(KeysOf!Tagged("USERMETA", u), KeysOf!Tagged("META", <<>>))
        = {r \in KeysOf!OfKind({"meta"}) : r.u = u}
  <2>1. \A r \in recorded :
          KeysOf!PartitionKey(r) = KeysOf!Tagged("USERMETA", u)
              /\ KeysOf!BeginsWith(KeysOf!SortKey(r), KeysOf!Tagged("META", <<>>))
            <=> r.kind = "meta" /\ r.u = u
    BY <1>1, InItsPartition, SortsUnder
  <2> QED BY <1>1, <2>1 DEF KeysOf!InPartition, KeysOf!OfKind
<1>3. \A r \in recorded :
        r.kind \in KeysOf!Indexed
          => (KeysOf!IndexKey(r)[1] = KeysOf!Tagged("USERID", u)
                <=> r.kind \in {"member", "link"} /\ r.u = u)
  BY <1>1, InItsIndex
<1>4. {"member", "link"} \subseteq KeysOf!Indexed
  BY DEF KeysOf!Indexed
<1>5. \A r \in recorded :
        r.kind \in {"member", "link"}
          => /\ KeysOf!BeginsWith(KeysOf!IndexKey(r)[2], KeysOf!Tagged("OAUTH", <<>>))
                  <=> r.kind = "link"
             /\ KeysOf!BeginsWith(KeysOf!IndexKey(r)[2], KeysOf!Tagged("TENANT", <<>>))
                  <=> r.kind = "member"
  BY <1>1, IndexSortsUnder
<1>6. KeysOf!InIndex(KeysOf!Tagged("USERID", u), KeysOf!Tagged("OAUTH", <<>>))
        = {r \in KeysOf!OfKind({"link"}) : r.u = u}
  <2>1. \A r \in recorded :
          (/\ r.kind \in KeysOf!Indexed
           /\ KeysOf!IndexKey(r)[1] = KeysOf!Tagged("USERID", u)
           /\ KeysOf!BeginsWith(KeysOf!IndexKey(r)[2], KeysOf!Tagged("OAUTH", <<>>)))
            <=> r.kind = "link" /\ r.u = u
    BY <1>1, <1>3, <1>4, <1>5
  <2> QED BY <1>1, <2>1 DEF KeysOf!InIndex, KeysOf!OfKind
<1>7. KeysOf!InIndex(KeysOf!Tagged("USERID", u), KeysOf!Tagged("TENANT", <<>>))
        = {r \in KeysOf!OfKind({"member"}) : r.u = u}
  <2>1. \A r \in recorded :
          (/\ r.kind \in KeysOf!Indexed
           /\ KeysOf!IndexKey(r)[1] = KeysOf!Tagged("USERID", u)
           /\ KeysOf!BeginsWith(KeysOf!IndexKey(r)[2], KeysOf!Tagged("TENANT", <<>>)))
            <=> r.kind = "member" /\ r.u = u
    BY <1>1, <1>3, <1>4, <1>5
  <2> QED BY <1>1, <2>1 DEF KeysOf!InIndex, KeysOf!OfKind
<1> QED BY <1>2, <1>6, <1>7

LEMMA TenantsQueries ==
  ASSUME KeysOf!keysAreText, LayoutInv, NEW t \in KeysOf!Tenant
  PROVE  LET its(kinds) == {r \in KeysOf!OfKind(kinds) : r.t = t} IN
         /\ KeysOf!InPartition(KeysOf!Tagged("TENANT", t), KeysOf!Tagged("MEMBER", <<>>))
              = its({"member"})
         /\ KeysOf!InPartition(KeysOf!telemetryPK(t), <<>>) = its({"telemetry"})
         /\ KeysOf!InIndex(<<"USER">>, KeysOf!TenantPrefix(t)) = its({"profile"})
<1>1. /\ table = recorded /\ \A r \in recorded : r \in KeysOf!Record
      /\ t \in Str /\ NoSep(t)
  BY AskedBy DEF LayoutInv, KeysOf!RecordsKeepApart, KeysOf!TypeOK
<1>2. KeysOf!InPartition(KeysOf!Tagged("TENANT", t), KeysOf!Tagged("MEMBER", <<>>))
        = {r \in KeysOf!OfKind({"member"}) : r.t = t}
  <2>1. \A r \in recorded :
          KeysOf!PartitionKey(r) = KeysOf!Tagged("TENANT", t)
              /\ KeysOf!BeginsWith(KeysOf!SortKey(r), KeysOf!Tagged("MEMBER", <<>>))
            <=> r.kind = "member" /\ r.t = t
    BY <1>1, InItsPartition, SortsUnder
  <2> QED BY <1>1, <2>1 DEF KeysOf!InPartition, KeysOf!OfKind
<1>3. KeysOf!InPartition(KeysOf!telemetryPK(t), <<>>)
        = {r \in KeysOf!OfKind({"telemetry"}) : r.t = t}
  <2>1. \A r \in recorded :
          KeysOf!PartitionKey(r) = KeysOf!telemetryPK(t)
              /\ KeysOf!BeginsWith(KeysOf!SortKey(r), <<>>)
            <=> r.kind = "telemetry" /\ r.t = t
    BY <1>1, InItsPartition, SortKeyType, AllOfThem
  <2> QED BY <1>1, <2>1 DEF KeysOf!InPartition, KeysOf!OfKind
<1>4. KeysOf!InIndex(<<"USER">>, KeysOf!TenantPrefix(t))
        = {r \in KeysOf!OfKind({"profile"}) : r.t = t}
  <2>1. \A r \in recorded :
          (/\ r.kind \in KeysOf!Indexed
           /\ KeysOf!IndexKey(r)[1] = <<"USER">>
           /\ KeysOf!BeginsWith(KeysOf!IndexKey(r)[2], KeysOf!TenantPrefix(t)))
            <=> r.kind = "profile" /\ r.t = t
    <3> TAKE r \in recorded
    <3>1. r.t \in Str /\ r.u \in Str /\ NoSep(r.t) /\ "profile" \in KeysOf!Indexed
      BY <1>1, SegmentFacts DEF KeysOf!Indexed
    <3>2. r.kind = "profile" => KeysOf!IndexKey(r)[2] = KeysOf!userGSI1SK(r.t, r.u)
      BY DEF KeysOf!IndexKey
    <3>3. r.kind \in KeysOf!Indexed
            => (KeysOf!IndexKey(r)[1] = <<"USER">> <=> r.kind = "profile")
      BY <1>1, InItsIndex
    <3>4. KeysOf!BeginsWith(KeysOf!userGSI1SK(r.t, r.u), KeysOf!TenantPrefix(t)) <=> r.t = t
      BY <1>1, <3>1, TenantBegins
    <3> QED BY <3>1, <3>2, <3>3, <3>4
  <2> QED BY <1>1, <2>1 DEF KeysOf!InIndex, KeysOf!OfKind
<1> QED BY <1>2, <1>3, <1>4

LEMMA NamedQueries ==
  ASSUME KeysOf!keysAreText, LayoutInv, NEW w \in Text
  PROVE  /\ KeysOf!InIndex(KeysOf!Tagged("APIKEYSVC", w), <<>>)
              = {r \in KeysOf!OfKind({"keyid"}) : r.p = w}
         /\ KeysOf!InIndex(KeysOf!Tagged("ROLE", w), <<>>)
              = {r \in KeysOf!OfKind({"roleassign"}) : r.x = w}
<1>1. /\ table = recorded /\ \A r \in recorded : r \in KeysOf!Record
      /\ w \in Str
  BY AskedBy DEF LayoutInv, KeysOf!RecordsKeepApart, KeysOf!TypeOK
<1>2. {"keyid", "roleassign"} \subseteq KeysOf!Indexed
  BY DEF KeysOf!Indexed
<1>3. \A r \in recorded :
        r.kind \in KeysOf!Indexed => KeysOf!BeginsWith(KeysOf!IndexKey(r)[2], <<>>)
  BY <1>1, IndexSortsUnder, AllOfThem
<1>4. \A r \in recorded :
        r.kind \in KeysOf!Indexed
          => /\ KeysOf!IndexKey(r)[1] = KeysOf!Tagged("APIKEYSVC", w)
                  <=> r.kind = "keyid" /\ r.p = w
             /\ KeysOf!IndexKey(r)[1] = KeysOf!Tagged("ROLE", w)
                  <=> r.kind = "roleassign" /\ r.x = w
  BY <1>1, InItsIndex
<1>5. KeysOf!InIndex(KeysOf!Tagged("APIKEYSVC", w), <<>>)
        = {r \in KeysOf!OfKind({"keyid"}) : r.p = w}
  BY <1>1, <1>2, <1>3, <1>4 DEF KeysOf!InIndex, KeysOf!OfKind
<1>6. KeysOf!InIndex(KeysOf!Tagged("ROLE", w), <<>>)
        = {r \in KeysOf!OfKind({"roleassign"}) : r.x = w}
  BY <1>1, <1>2, <1>3, <1>4 DEF KeysOf!InIndex, KeysOf!OfKind
<1> QED BY <1>5, <1>6

LEMMA WholeListings ==
  ASSUME KeysOf!keysAreText, LayoutInv
  PROVE  /\ KeysOf!InIndex(<<"USER">>, <<>>) = KeysOf!OfKind({"profile"})
         /\ KeysOf!InIndex(<<"SESSION">>, <<>>) = KeysOf!OfKind({"sessionidx"})
         /\ KeysOf!InIndex(<<"APIKEY">>, <<>>) = KeysOf!OfKind({"apikey"})
         /\ KeysOf!InPartition(<<"TENANTS">>, KeysOf!Tagged("TENANT", <<>>))
              = KeysOf!OfKind({"tenant"})
         /\ KeysOf!InPartition(<<"ROLES">>, KeysOf!Tagged("ROLE", <<>>))
              = KeysOf!OfKind({"role"})
         /\ KeysOf!InPartition(<<"TEMPLATES">>, KeysOf!Tagged("MAIL", <<>>))
              = KeysOf!OfKind({"template"})
         /\ KeysOf!InPartition(<<"TEMPLATES">>, KeysOf!Tagged("UI", <<>>))
              = KeysOf!OfKind({"uitranslation"})
         /\ KeysOf!InPartition(<<"WEBHOOKS">>, KeysOf!Tagged("WHK", <<>>))
              = KeysOf!OfKind({"webhook"})
<1>1. table = recorded /\ \A r \in recorded : r \in KeysOf!Record
  BY DEF LayoutInv, KeysOf!RecordsKeepApart, KeysOf!TypeOK
<1>2. {"profile", "sessionidx", "apikey"} \subseteq KeysOf!Indexed
  BY DEF KeysOf!Indexed
<1>3. \A r \in recorded :
        r.kind \in KeysOf!Indexed
          => /\ KeysOf!BeginsWith(KeysOf!IndexKey(r)[2], <<>>)
             /\ KeysOf!IndexKey(r)[1] = <<"USER">> <=> r.kind = "profile"
             /\ KeysOf!IndexKey(r)[1] = <<"SESSION">> <=> r.kind = "sessionidx"
             /\ KeysOf!IndexKey(r)[1] = <<"APIKEY">> <=> r.kind = "apikey"
  BY <1>1, IndexSortsUnder, AllOfThem, InItsIndex
<1>4. /\ KeysOf!InIndex(<<"USER">>, <<>>) = KeysOf!OfKind({"profile"})
      /\ KeysOf!InIndex(<<"SESSION">>, <<>>) = KeysOf!OfKind({"sessionidx"})
      /\ KeysOf!InIndex(<<"APIKEY">>, <<>>) = KeysOf!OfKind({"apikey"})
  BY <1>1, <1>2, <1>3 DEF KeysOf!InIndex, KeysOf!OfKind
<1>5. \A r \in recorded :
        /\ KeysOf!PartitionKey(r) = <<"TENANTS">> <=> r.kind = "tenant"
        /\ KeysOf!PartitionKey(r) = <<"ROLES">> <=> r.kind = "role"
        /\ KeysOf!PartitionKey(r) = <<"WEBHOOKS">> <=> r.kind = "webhook"
        /\ KeysOf!PartitionKey(r) = <<"TEMPLATES">>
             <=> r.kind \in {"template", "uitranslation"}
  BY <1>1, InItsPartition
<1>6. /\ KeysOf!InPartition(<<"TENANTS">>, KeysOf!Tagged("TENANT", <<>>))
           = KeysOf!OfKind({"tenant"})
      /\ KeysOf!InPartition(<<"ROLES">>, KeysOf!Tagged("ROLE", <<>>))
           = KeysOf!OfKind({"role"})
      /\ KeysOf!InPartition(<<"WEBHOOKS">>, KeysOf!Tagged("WHK", <<>>))
           = KeysOf!OfKind({"webhook"})
  <2>1. \A r \in recorded :
          /\ r.kind = "tenant"
               => KeysOf!BeginsWith(KeysOf!SortKey(r), KeysOf!Tagged("TENANT", <<>>))
          /\ r.kind = "role"
               => KeysOf!BeginsWith(KeysOf!SortKey(r), KeysOf!Tagged("ROLE", <<>>))
          /\ r.kind = "webhook"
               => KeysOf!BeginsWith(KeysOf!SortKey(r), KeysOf!Tagged("WHK", <<>>))
    BY <1>1, SortsUnder
  <2> QED BY <1>1, <1>5, <2>1 DEF KeysOf!InPartition, KeysOf!OfKind
<1>7. /\ KeysOf!InPartition(<<"TEMPLATES">>, KeysOf!Tagged("MAIL", <<>>))
           = KeysOf!OfKind({"template"})
      /\ KeysOf!InPartition(<<"TEMPLATES">>, KeysOf!Tagged("UI", <<>>))
           = KeysOf!OfKind({"uitranslation"})
  <2>1. \A r \in recorded :
          r.kind \in {"template", "uitranslation"}
            => /\ KeysOf!BeginsWith(KeysOf!SortKey(r), KeysOf!Tagged("MAIL", <<>>))
                    <=> r.kind = "template"
               /\ KeysOf!BeginsWith(KeysOf!SortKey(r), KeysOf!Tagged("UI", <<>>))
                    <=> r.kind = "uitranslation"
    BY <1>1, SortsUnder
  <2> QED BY <1>1, <1>5, <2>1 DEF KeysOf!InPartition, KeysOf!OfKind
<1> QED BY <1>4, <1>6, <1>7

LEMMA QueriesFindTheirOwn ==
  ASSUME KeysOf!keysAreText, LayoutInv
  PROVE  KeysOf!QueriesReachTheirOwn
BY UsersQueries, OwnersQueries, TenantsQueries, NamedQueries, WholeListings
   DEF KeysOf!QueriesReachTheirOwn

(* Whatever strings callers supply: every query of the stores selects, of  *)
(* the whole table, what it is asked for and nothing else, so no item of   *)
(* another tenant, of another kind, or of a user whose id continues        *)
(* another's (keys.go, tenantPrefix and the key builders).                 *)
THEOREM QueriesAreExact == KeysOf!Spec => []KeysOf!QueriesReachTheirOwn
<1>1. LayoutInv /\ [KeysOf!Next]_(KeysOf!layoutVars) => LayoutInv'
  BY LayoutStep DEF KeysOf!layoutVars, layoutVars
<1>2. LayoutInv => KeysOf!QueriesReachTheirOwn
  BY LayoutAssumption, QueriesFindTheirOwn
<1> QED BY LayoutInit, <1>1, <1>2, PTL DEF KeysOf!Spec
-----------------------------------------------------------------------------
(* Ranks.  What is read of a set that is ordered is its first n elements,  *)
(* those with fewer than n before them.                                    *)

Orders(R, S) ==
  /\ \A e \in S : <<e, e>> \notin R
  /\ \A e, f, g \in S : <<e, f>> \in R /\ <<f, g>> \in R => <<e, g>> \in R
  /\ \A e, f \in S : e = f \/ <<e, f>> \in R \/ <<f, e>> \in R

Below(R, S, e) == {g \in S : <<g, e>> \in R}

Rank(R, S, e) == Cardinality(Below(R, S, e))

Foremost(R, S, n) == {e \in S : Rank(R, S, e) < n}

LEMMA RankType ==
  ASSUME NEW R, NEW S, IsFiniteSet(S), Orders(R, S), NEW e \in S
  PROVE  /\ IsFiniteSet(Below(R, S, e))
         /\ Rank(R, S, e) \in Nat
         /\ Rank(R, S, e) < Cardinality(S)
<1>1. Below(R, S, e) \subseteq S /\ e \notin Below(R, S, e)
  BY DEF Below, Orders
<1>2. IsFiniteSet(Below(R, S, e)) /\ Rank(R, S, e) <= Cardinality(S)
  BY <1>1, FS_Subset DEF Rank
<1>3. Rank(R, S, e) # Cardinality(S)
  BY <1>1, FS_Subset DEF Rank
<1>4. Rank(R, S, e) \in Nat /\ Cardinality(S) \in Nat
  BY <1>2, FS_CardinalityType DEF Rank
<1> QED BY <1>2, <1>3, <1>4

LEMMA RankGrows ==
  ASSUME NEW R, NEW S, IsFiniteSet(S), Orders(R, S), NEW e \in S, NEW f \in S,
         <<e, f>> \in R
  PROVE  Rank(R, S, e) < Rank(R, S, f)
<1>1. Below(R, S, e) \subseteq Below(R, S, f)
  BY DEF Below, Orders
<1>2. e \in Below(R, S, f) /\ e \notin Below(R, S, e)
  BY DEF Below, Orders
<1>3. /\ IsFiniteSet(Below(R, S, f))
      /\ Rank(R, S, e) \in Nat /\ Rank(R, S, f) \in Nat
  BY RankType
<1>4. Rank(R, S, e) <= Rank(R, S, f)
  BY <1>1, <1>3, FS_Subset DEF Rank
<1>5. Rank(R, S, e) # Rank(R, S, f)
  BY <1>1, <1>2, <1>3, FS_Subset DEF Rank
<1> QED BY <1>3, <1>4, <1>5

LEMMA RanksAreAll ==
  ASSUME NEW R, NEW S, IsFiniteSet(S), Orders(R, S),
         NEW n \in Nat, n < Cardinality(S)
  PROVE  \E e \in S : Rank(R, S, e) = n
<1> DEFINE r == [e \in S |-> Rank(R, S, e)]
           T == 0 .. Cardinality(S) - 1
<1>1. Cardinality(S) \in Nat
  BY FS_CardinalityType
<1>2. r \in [S -> T]
  BY <1>1, RankType
<1>3. \A e, f \in S : r[e] = r[f] => e = f
  <2> TAKE e, f \in S
  <2>1. Rank(R, S, e) \in Nat /\ Rank(R, S, f) \in Nat
    BY RankType
  <2>2. e = f \/ Rank(R, S, e) < Rank(R, S, f) \/ Rank(R, S, f) < Rank(R, S, e)
    BY RankGrows DEF Orders
  <2> QED BY <2>1, <2>2
<1>4. IsFiniteSet(T) /\ Cardinality(T) = Cardinality(S)
  <2>1. /\ 0 \in Int /\ Cardinality(S) - 1 \in Int
        /\ ~ (0 > Cardinality(S) - 1)
        /\ Cardinality(S) - 1 - 0 + 1 = Cardinality(S)
    BY <1>1
  <2>2. /\ IsFiniteSet(T)
        /\ Cardinality(T) = IF 0 > Cardinality(S) - 1 THEN 0
                            ELSE Cardinality(S) - 1 - 0 + 1
    BY <2>1, FS_Interval
  <2> QED BY <2>1, <2>2
<1>5. r \in Injection(S, T)
  BY <1>2, <1>3 DEF Injection, IsInjective
<1>6. r \in Surjection(S, T)
  BY <1>4, <1>5, FS_Injection
<1>7. n \in T
  BY <1>1
<1>8. PICK e \in S : r[e] = n
  BY <1>6, <1>7 DEF Surjection
<1> QED BY <1>8

(* The foremost n are n, or all there are, and before all the others.      *)
LEMMA ForemostProperties ==
  ASSUME NEW R, NEW S, IsFiniteSet(S), Orders(R, S), NEW n \in Nat
  PROVE  /\ IsFiniteSet(Foremost(R, S, n))
         /\ Cardinality(Foremost(R, S, n)) \in 0 .. n
         /\ Foremost(R, S, n) # S => Cardinality(Foremost(R, S, n)) = n
         /\ \A g \in Foremost(R, S, n), e \in S \ Foremost(R, S, n) : <<g, e>> \in R
<1> DEFINE F == Foremost(R, S, n)
<1>1. F \subseteq S
  BY DEF Foremost
<1>2. IsFiniteSet(F) /\ Cardinality(F) \in Nat /\ Cardinality(S) \in Nat
  BY <1>1, FS_Subset, FS_CardinalityType
<1>3. \A g \in F, e \in S \ F : <<g, e>> \in R
  <2> TAKE g \in F, e \in S \ F
  <2>1. g \in S /\ e \in S /\ Rank(R, S, g) < n /\ ~ (Rank(R, S, e) < n)
    BY DEF Foremost
  <2>2. Rank(R, S, g) \in Nat /\ Rank(R, S, e) \in Nat
    BY <2>1, RankType
  <2>3. ~ (<<e, g>> \in R) /\ e # g
    BY <2>1, <2>2, RankGrows
  <2> QED BY <2>1, <2>3 DEF Orders
<1>4. CASE n >= Cardinality(S)
  <2>1. F = S
    <3>1. \A e \in S : Rank(R, S, e) < n
      <4> TAKE e \in S
      <4>1. Rank(R, S, e) \in Nat /\ Rank(R, S, e) < Cardinality(S)
        BY RankType
      <4> QED BY <4>1, <1>2, <1>4
    <3> QED BY <3>1 DEF Foremost
  <2> QED BY <1>2, <1>3, <1>4, <2>1
<1>5. CASE n < Cardinality(S)
  <2> DEFINE r == [e \in F |-> Rank(R, S, e)]
             T == 0 .. n - 1
  <2>1. r \in [F -> T]
    <3> SUFFICES ASSUME NEW e \in F PROVE Rank(R, S, e) \in T
      OBVIOUS
    <3>1. e \in S /\ Rank(R, S, e) < n
      BY DEF Foremost
    <3>2. Rank(R, S, e) \in Nat
      BY <3>1, RankType
    <3> QED BY <3>1, <3>2
  <2>2. \A m \in T : \E e \in F : r[e] = m
    <3> TAKE m \in T
    <3>1. m \in Nat /\ m < Cardinality(S) /\ m < n
      BY <1>2, <1>5
    <3>2. PICK e \in S : Rank(R, S, e) = m
      BY <3>1, RanksAreAll
    <3>3. e \in F
      BY <3>1, <3>2 DEF Foremost
    <3> QED BY <3>2, <3>3
  <2>3. \A e, f \in F : r[e] = r[f] => e = f
    <3> TAKE e, f \in F
    <3>1. e \in S /\ f \in S
      BY <1>1
    <3>2. Rank(R, S, e) \in Nat /\ Rank(R, S, f) \in Nat
      BY <3>1, RankType
    <3>3. e = f \/ Rank(R, S, e) < Rank(R, S, f) \/ Rank(R, S, f) < Rank(R, S, e)
      BY <3>1, RankGrows DEF Orders
    <3> QED BY <3>2, <3>3
  <2>4. IsFiniteSet(T) /\ Cardinality(T) = n
    BY FS_Interval
  <2>5. r \in Injection(F, T)
    BY <2>1, <2>3 DEF Injection, IsInjective
  <2>6. r \in Surjection(F, T)
    BY <2>1, <2>2 DEF Surjection
  <2>7. Cardinality(F) = n
    BY <2>4, <2>5, <2>6, FS_Injection
  <2> QED BY <1>2, <1>3, <2>7
<1> HIDE DEF F
<1>6. n >= Cardinality(S) \/ n < Cardinality(S)
  BY <1>2
<1> QED BY <1>4, <1>5, <1>6 DEF F

(* The last of the elements there are.                                     *)
LEMMA LastOne ==
  ASSUME NEW R, NEW S, IsFiniteSet(S), Orders(R, S), S # {}
  PROVE  \E e \in S : \A g \in S : g = e \/ <<g, e>> \in R
<1>1. Cardinality(S) \in Nat /\ Cardinality(S) # 0
  BY FS_CardinalityType, FS_EmptySet
<1>2. Cardinality(S) - 1 \in Nat /\ Cardinality(S) - 1 < Cardinality(S)
  BY <1>1
<1>3. PICK e \in S : Rank(R, S, e) = Cardinality(S) - 1
  BY <1>2, RanksAreAll
<1>4. Below(R, S, e) \subseteq S \ {e}
  BY DEF Below, Orders
<1>5. IsFiniteSet(S \ {e}) /\ Cardinality(S \ {e}) = Cardinality(S) - 1
  BY <1>3, FS_RemoveElement
<1>6. Below(R, S, e) = S \ {e}
  BY <1>3, <1>4, <1>5, FS_Subset DEF Rank
<1> QED BY <1>3, <1>6 DEF Below
-----------------------------------------------------------------------------
(* The event log.  *)

InTime == {p \in LogOf!Event \X LogOf!Event : LogOf!Before(p[1], p[2])}

LEMMA EventFacts ==
  ASSUME NEW e \in LogOf!Event
  PROVE  e.at \in Nat /\ e.id \in Nat /\ e = [at |-> e.at, id |-> e.id]
<1>1. EventId \subseteq Nat /\ MaxTime \in Nat
  BY TelemetryAssumption DEF LogOf!boundsAreNumbers
<1>2. e.at \in 0 .. MaxTime /\ e.id \in EventId
  BY DEF LogOf!Event
<1>3. e = [at |-> e.at, id |-> e.id]
  BY DEF LogOf!Event
<1> QED BY <1>1, <1>2, <1>3

LEMMA BeforeIsAnOrder ==
  /\ \A e \in LogOf!Event : ~ LogOf!Before(e, e)
  /\ \A e, f, g \in LogOf!Event :
       LogOf!Before(e, f) /\ LogOf!Before(f, g) => LogOf!Before(e, g)
  /\ \A e, f \in LogOf!Event : e = f \/ LogOf!Before(e, f) \/ LogOf!Before(f, e)
<1>1. \A e \in LogOf!Event : ~ LogOf!Before(e, e)
  BY EventFacts DEF LogOf!Before
<1>2. ASSUME NEW e \in LogOf!Event, NEW f \in LogOf!Event, NEW g \in LogOf!Event,
             LogOf!Before(e, f), LogOf!Before(f, g)
      PROVE  LogOf!Before(e, g)
  <2>1. /\ e.at \in Nat /\ f.at \in Nat /\ g.at \in Nat
        /\ e.id \in Nat /\ f.id \in Nat /\ g.id \in Nat
    BY EventFacts
  <2> QED BY <2>1, <1>2 DEF LogOf!Before
<1>3. ASSUME NEW e \in LogOf!Event, NEW f \in LogOf!Event,
             ~ LogOf!Before(e, f), ~ LogOf!Before(f, e)
      PROVE  e = f
  <2>1. e.at \in Nat /\ f.at \in Nat /\ e.id \in Nat /\ f.id \in Nat
    BY EventFacts
  <2>2. e.at = f.at /\ e.id = f.id
    BY <2>1, <1>3 DEF LogOf!Before
  <2>3. e = [at |-> e.at, id |-> e.id] /\ f = [at |-> f.at, id |-> f.id]
    BY EventFacts
  <2> QED BY <2>2, <2>3
<1> QED BY <1>1, <1>2, <1>3

(* A page of the sort key's order is the foremost of what is left.         *)
LEMMA PageProperties ==
  ASSUME NEW S \in SUBSET LogOf!Event, IsFiniteSet(S), NEW n \in Nat
  PROVE  /\ LogOf!First(n, S) \subseteq S
         /\ IsFiniteSet(LogOf!First(n, S))
         /\ Cardinality(LogOf!First(n, S)) \in 0 .. n
         /\ LogOf!First(n, S) # S => Cardinality(LogOf!First(n, S)) = n
         /\ \A g \in LogOf!First(n, S), e \in S \ LogOf!First(n, S) : LogOf!Before(g, e)
<1>1. Orders(InTime, S)
  BY BeforeIsAnOrder DEF Orders, InTime
<1>2. \A e \in S : {g \in S : LogOf!Before(g, e)} = Below(InTime, S, e)
  BY DEF Below, InTime
<1>3. \A T : LogOf!Cardinality(T) = Cardinality(T)
  BY DEF LogOf!Cardinality, Cardinality
<1>4. \A e \in S : LogOf!Cardinality({g \in S : LogOf!Before(g, e)}) = Rank(InTime, S, e)
  BY <1>2, <1>3 DEF Rank
<1>5. LogOf!First(n, S) = Foremost(InTime, S, n)
  BY <1>4 DEF LogOf!First, Foremost
<1>6. Foremost(InTime, S, n) \subseteq S
  BY DEF Foremost
<1>7. \A g, e : <<g, e>> \in InTime => LogOf!Before(g, e)
  BY DEF InTime
<1> DEFINE F == Foremost(InTime, S, n)
<1>8. /\ IsFiniteSet(F) /\ Cardinality(F) \in 0 .. n
      /\ F # S => Cardinality(F) = n
      /\ \A g \in F, e \in S \ F : <<g, e>> \in InTime
  BY <1>1, ForemostProperties
<1> HIDE DEF F
<1> QED BY <1>5, <1>6, <1>7, <1>8 DEF F

(* Division, from what the provers know of it.                             *)
LEMMA Division ==
  ASSUME NEW d \in Int, d > 0, NEW a \in Int
  PROVE  /\ a \div d \in Int /\ a % d \in Int
         /\ a = (a \div d) * d + (a % d)
         /\ 0 <= a % d /\ a % d < d
<1>0. d \in Nat \ {0}
  OBVIOUS
<1>1. a \div d \in Int /\ a % d \in Int /\ 0 <= a % d /\ a % d < d
  <2>1. a \div d \in Int
    BY <1>0
  <2>2. a % d \in 0 .. d - 1
    BY <1>0
  <2> QED BY <2>1, <2>2
<1>2. a = (a \div d) * d + (a % d)
  BY Z3
<1> QED BY <1>1, <1>2

(* A day is the instants from its first one on, DayLength of them.         *)
LEMMA DayOf ==
  ASSUME NEW d \in Int, d > 0, NEW m \in Int, m % d = 0, NEW a \in Int
  PROVE  a \div d = m \div d <=> m <= a /\ a < m + d
<1>1. m \div d \in Int /\ m = (m \div d) * d
  BY Division
<1>2. ASSUME a \div d = m \div d PROVE m <= a /\ a < m + d
  BY <1>1, <1>2, Division
<1>3. ASSUME m <= a, a < m + d PROVE a \div d = m \div d
  <2> DEFINE q == m \div d
  <2>1. q \in Int /\ q * d <= a /\ a < q * d + d
    BY <1>1, <1>3
  <2> HIDE DEF q
  <2>2. a \div d = q
    BY <2>1, Z3
  <2> QED BY <2>2 DEF q
<1> QED BY <1>2, <1>3

LEMMA FirstOfDay ==
  ASSUME NEW d \in Int, d > 0, NEW a \in Int
  PROVE  /\ a - (a % d) \in Int /\ a - (a % d) <= a
         /\ (a - (a % d)) % d = 0
<1>1. /\ a % d \in Int /\ a \div d \in Int
      /\ a = (a \div d) * d + (a % d) /\ 0 <= a % d
  BY Division
<1>2. \A k \in Int : (k * d) % d = 0
  BY Z3
<1>3. a - (a % d) = (a \div d) * d
  BY <1>1
<1> QED BY <1>1, <1>2, <1>3

LEMMA DayAfter ==
  ASSUME NEW d \in Int, d > 0, NEW m \in Int, m % d = 0
  PROVE  (m + d) % d = 0
<1> DEFINE q == m \div d
<1>1. q \in Int /\ m = q * d
  BY Division
<1> HIDE DEF q
<1>2. m + d = (q + 1) * d /\ q + 1 \in Int
  BY <1>1
<1>3. \A k \in Int : (k * d) % d = 0
  BY Z3
<1> QED BY <1>2, <1>3
-----------------------------------------------------------------------------
(* What a query has still to reach: what comes after the last page read of *)
(* the day, or in a later one.  It comes after all that was put out, and   *)
(* what the query owes is put out or among it.                             *)

StillAhead(e) == query.day <= e.at /\ \A h \in query.from : LogOf!Before(h, e)

LogTyped ==
  /\ now \in 0 .. MaxTime
  /\ events \subseteq LogOf!Event /\ IsFiniteSet(events)
  /\ due \subseteq events
  /\ query \in LogOf!Query
  /\ query.pc # "idle" => filter \in LogOf!Filter
  /\ query.pc = "idle" => query.from = {} /\ query.out = {}
  /\ query.pc # "end" => query.answer = "none"

Paging ==
  /\ query.day % DayLength = 0
  /\ IsFiniteSet(query.out) /\ Cardinality(query.out) < LogOf!Limit
  /\ \A h \in query.from : h.at < query.day + DayLength
  /\ \A g \in query.out, e \in LogOf!Event : StillAhead(e) => LogOf!Before(g, e)
  /\ \A e \in due : /\ query.since <= e.at /\ e.at <= query.until
                    /\ e.id \in filter.ids
                    /\ e \in query.out \/ StillAhead(e)

LogInv ==
  /\ LogTyped
  /\ query.pc = "page" => Paging
  /\ LogOf!AnswersHaveNoHoles

LEMMA LogNumbers ==
  /\ EventId \subseteq Nat /\ MaxTime \in Nat
  /\ DayLength \in Nat \ {0} /\ Retention \in Nat \ {0} /\ PageSize \in Nat \ {0}
  /\ MaxResults \in Nat \ {0} /\ Limits \subseteq Nat
BY TelemetryAssumption DEF LogOf!boundsAreNumbers

LEMMA SameCardinality == \A S : LogOf!Cardinality(S) = Cardinality(S)
BY DEF LogOf!Cardinality, Cardinality

LEMMA QueryFacts ==
  ASSUME NEW q \in LogOf!Query
  PROVE  /\ q.pc \in {"idle", "page", "end"}
         /\ q.since \in Int /\ q.until \in Int /\ q.day \in Int
         /\ q.from \subseteq LogOf!Event /\ q.out \subseteq LogOf!Event
BY DEF LogOf!Query

LEMMA LimitType ==
  ASSUME filter \in LogOf!Filter
  PROVE  LogOf!Limit \in Nat \ {0}
<1>1. filter.limit \in Nat
  BY LogNumbers DEF LogOf!Filter
<1> QED BY <1>1, LogNumbers DEF LogOf!Limit

LEMMA LogInit == LogOf!Init => LogInv
<1> SUFFICES ASSUME LogOf!Init PROVE LogInv
  OBVIOUS
<1>1. query \in LogOf!Query
  BY DEF LogOf!Init, LogOf!Query
<1>2. query.pc = "idle" /\ query.from = {} /\ query.out = {} /\ query.answer = "none"
  BY DEF LogOf!Init
<1>3. IsFiniteSet(events) /\ due = {} /\ events = {} /\ now \in 0 .. MaxTime
  BY FS_EmptySet, LogNumbers DEF LogOf!Init
<1> QED BY <1>1, <1>2, <1>3 DEF LogInv, LogTyped, LogOf!AnswersHaveNoHoles

(* Events that come and go, and the clock. *)
LEMMA LogGoesOn ==
  ASSUME LogInv, LogTyped', UNCHANGED <<filter, query>>, due' \subseteq due
  PROVE  LogInv'
<1>1. LogOf!Limit' = LogOf!Limit /\ \A e : StillAhead(e)' <=> StillAhead(e)
  BY DEF LogOf!Limit, StillAhead
<1>2. query.pc = "page" => Paging'
  BY <1>1, Zenon DEF LogInv, Paging
<1>3. LogOf!AnswersHaveNoHoles'
  BY Zenon DEF LogInv, LogOf!AnswersHaveNoHoles
<1> QED BY <1>2, <1>3 DEF LogInv

LEMMA LogChanges ==
  ASSUME LogInv
  PROVE  /\ \A e \in LogOf!Event : LogOf!Record(e) => LogInv'
         /\ \A e \in events : LogOf!Reap(e) => LogInv'
         /\ LogOf!Tick => LogInv'
<1>1. ASSUME NEW e \in LogOf!Event, LogOf!Record(e) PROVE LogInv'
  <2>1. IsFiniteSet(events \cup {e})
    BY FS_AddElement DEF LogInv, LogTyped
  <2>2. LogTyped'
    BY <1>1, <2>1 DEF LogInv, LogTyped, LogOf!Record
  <2>3. UNCHANGED <<filter, query>> /\ due' \subseteq due
    BY <1>1 DEF LogOf!Record
  <2> QED BY <2>2, <2>3, LogGoesOn
<1>2. ASSUME NEW e \in events, LogOf!Reap(e) PROVE LogInv'
  <2>1. IsFiniteSet(events \ {e})
    BY FS_RemoveElement DEF LogInv, LogTyped
  <2>2. LogTyped'
    BY <1>2, <2>1 DEF LogInv, LogTyped, LogOf!Reap
  <2>3. UNCHANGED <<filter, query>> /\ due' \subseteq due
    BY <1>2 DEF LogOf!Reap
  <2> QED BY <2>2, <2>3, LogGoesOn
<1>3. ASSUME LogOf!Tick PROVE LogInv'
  <2>1. now' \in 0 .. MaxTime
    BY <1>3, LogNumbers DEF LogInv, LogTyped, LogOf!Tick
  <2>2. LogTyped'
    BY <1>3, <2>1 DEF LogInv, LogTyped, LogOf!Tick
  <2>3. UNCHANGED <<filter, query>> /\ due' \subseteq due
    BY <1>3 DEF LogOf!Tick
  <2> QED BY <2>2, <2>3, LogGoesOn
<1> QED BY <1>1, <1>2, <1>3

LEMMA FailStep == ASSUME LogInv, LogOf!Fail PROVE LogInv'
<1>1. query' \in LogOf!Query /\ query'.pc = "end" /\ query'.answer = "failed"
  BY DEF LogOf!Fail, LogInv, LogTyped, LogOf!Query
<1>2. LogTyped'
  BY <1>1 DEF LogOf!Fail, LogInv, LogTyped
<1> QED BY <1>1, <1>2 DEF LogInv, LogOf!AnswersHaveNoHoles

LEMMA AskStep ==
  ASSUME LogInv, NEW f \in LogOf!Filter, LogOf!Ask(f)
  PROVE  LogInv'
<1> DEFINE opening == LogOf!Since(f)
           closing == LogOf!Until(f)
           range == [query EXCEPT !.since = opening, !.until = closing]
           refused == [range EXCEPT !.pc = "end", !.answer = "rangeTooLarge"]
           nothing == [range EXCEPT !.pc = "end", !.answer = "all"]
           begun == [range EXCEPT !.pc = "page", !.day = LogOf!FirstDay(opening)]
<1>1. /\ query \in LogOf!Query /\ now \in Nat /\ now \in 0 .. MaxTime
      /\ query.pc = "idle" /\ query.from = {} /\ query.out = {} /\ query.answer = "none"
  BY LogNumbers DEF LogInv, LogTyped, LogOf!Ask
<1>2. opening \in Int /\ closing \in Int
  <2>1. /\ f.since \in 0 .. MaxTime \/ f.since = always
        /\ f.until \in 0 .. MaxTime \/ f.until = always
    BY DEF LogOf!Filter, LogOf!Ends
  <2> QED BY <1>1, <2>1, LogNumbers DEF LogOf!Since, LogOf!Until
<1>3. LogOf!FirstDay(opening) \in Int /\ LogOf!FirstDay(opening) <= opening
      /\ LogOf!FirstDay(opening) % DayLength = 0
  <2> HIDE DEF opening
  <2>1. DayLength \in Int /\ DayLength > 0
    BY LogNumbers
  <2> DEFINE day == opening - (opening % DayLength)
  <2>2. day \in Int /\ day <= opening /\ day % DayLength = 0
    BY <1>2, <2>1, FirstOfDay
  <2>3. LogOf!FirstDay(opening) = day
    BY DEF LogOf!FirstDay
  <2> QED BY <2>2, <2>3
<1>4. \A e \in due' : /\ e \in events /\ e \in LogOf!Event
                      /\ opening <= e.at /\ e.at <= closing /\ e.id \in f.ids
  <2> TAKE e \in due'
  <2>1. e \in events /\ LogOf!Asked(f, e) /\ ~ LogOf!Expired(e)
    BY DEF LogOf!Ask
  <2>2. e \in LogOf!Event
    BY <2>1 DEF LogInv, LogTyped
  <2>3. e.at \in Nat
    BY <2>2, EventFacts
  <2>4. opening <= e.at
    BY <1>1, <2>1, <2>3, LogNumbers DEF LogOf!Asked, LogOf!Since, LogOf!Expired
  <2>5. e.at <= closing /\ e.id \in f.ids
    BY <2>1 DEF LogOf!Asked
  <2> QED BY <2>1, <2>2, <2>4, <2>5
<1>5. query' = IF closing < opening THEN nothing
               ELSE IF LogOf!Days(opening, closing) > MaxDays THEN refused ELSE begun
  BY Zenon DEF LogOf!Ask
<1>6. filter' = f /\ UNCHANGED <<now, events>>
  BY DEF LogOf!Ask
<1>7. /\ refused \in LogOf!Query /\ refused.pc = "end" /\ refused.answer = "rangeTooLarge"
      /\ nothing \in LogOf!Query /\ nothing.pc = "end" /\ nothing.answer = "all"
      /\ begun \in LogOf!Query /\ begun.pc = "page" /\ begun.answer = "none"
      /\ begun.since = opening /\ begun.until = closing /\ begun.from = {} /\ begun.out = {}
      /\ begun.day = LogOf!FirstDay(opening)
  <2> HIDE DEF opening, closing
  <2> DEFINE day == LogOf!FirstDay(opening)
  <2>1. day \in Int
    BY <1>3
  <2> HIDE DEF day
  <2>2. range \in LogOf!Query
    BY <1>1, <1>2 DEF LogOf!Query
  <2>3. /\ range.since = opening /\ range.until = closing /\ range.from = {}
        /\ range.out = {} /\ range.answer = "none"
    BY <1>1, <1>2 DEF LogOf!Query
  <2> HIDE DEF range
  <2>4. /\ refused \in LogOf!Query /\ refused.pc = "end" /\ refused.answer = "rangeTooLarge"
        /\ nothing \in LogOf!Query /\ nothing.pc = "end" /\ nothing.answer = "all"
    BY <2>2 DEF LogOf!Query
  <2> DEFINE first == [range EXCEPT !.pc = "page", !.day = day]
  <2>5. /\ first \in LogOf!Query /\ first.pc = "page" /\ first.answer = "none"
        /\ first.since = opening /\ first.until = closing /\ first.from = {} /\ first.out
             = {}
        /\ first.day = day
    BY <2>1, <2>2, <2>3 DEF LogOf!Query
  <2>6. first = begun
    BY DEF day
  <2> HIDE DEF first
  <2> QED BY <2>4, <2>5, <2>6 DEF day
<1> HIDE DEF opening, closing, range, refused, nothing, begun
<1>8. LogTyped'
  <2>1. query' \in LogOf!Query /\ query'.pc # "idle"
        /\ (query'.pc # "end" => query'.answer = "none")
    BY <1>5, <1>7
  <2>2. IsFiniteSet(events) /\ events \subseteq LogOf!Event
    BY DEF LogInv, LogTyped
  <2> QED BY <1>1, <1>4, <1>6, <2>1, <2>2 DEF LogTyped
<1>9. CASE closing < opening
  <2>1. due' = {}
    <3>1. \A e \in due' : FALSE
      <4> TAKE e \in due'
      <4>1. e.at \in Nat /\ opening <= e.at /\ e.at <= closing
        BY <1>4, EventFacts
      <4> QED BY <1>2, <1>9, <4>1
    <3> QED BY <3>1
  <2> QED BY <1>5, <1>7, <1>8, <1>9, <2>1 DEF LogInv, LogOf!AnswersHaveNoHoles
<1>10. CASE ~ (closing < opening) /\ LogOf!Days(opening, closing) > MaxDays
  BY <1>5, <1>7, <1>8, <1>10 DEF LogInv, LogOf!AnswersHaveNoHoles
<1>11. CASE ~ (closing < opening) /\ ~ (LogOf!Days(opening, closing) > MaxDays)
  <2>1. query' = begun
    BY <1>5, <1>11
  <2>2. Paging'
    <3>1. query'.day % DayLength = 0
      BY <1>3, <1>7, <2>1
    <3>2. IsFiniteSet(query'.out) /\ Cardinality(query'.out) < LogOf!Limit'
      <4>1. filter' \in LogOf!Filter
        BY <1>6
      <4>2. LogOf!Limit' \in Nat \ {0}
        <5>1. filter'.limit \in Nat
          BY <4>1, LogNumbers DEF LogOf!Filter
        <5> QED BY <5>1, LogNumbers DEF LogOf!Limit
      <4>3. Cardinality({}) = 0 /\ IsFiniteSet({})
        BY FS_EmptySet
      <4> QED BY <1>7, <2>1, <4>2, <4>3
    <3>3. \A e \in due' : StillAhead(e)'
      <4> TAKE e \in due'
      <4>1. e.at \in Nat /\ opening <= e.at
        BY <1>4, EventFacts
      <4>2. LogOf!FirstDay(opening) <= e.at
        BY <1>2, <1>3, <4>1
      <4> QED BY <1>7, <2>1, <4>2 DEF StillAhead
    <3> QED BY <1>4, <1>6, <1>7, <2>1, <3>1, <3>2, <3>3 DEF Paging
  <2> QED BY <1>7, <1>8, <2>1, <2>2 DEF LogInv, LogOf!AnswersHaveNoHoles
<1> QED BY <1>9, <1>10, <1>11

(* One page: every event the query owes and has not put out is in a later  *)
(* day, or left by this page, unless the page filled the answer.           *)
LEMMA ReadPageStep ==
  ASSUME LogInv, LogOf!ReadPage
  PROVE  LogInv'
<1> DEFINE rest == {e \in events :
                      /\ LogOf!PartitionOf(e.at) = LogOf!PartitionOf(query.day)
                      /\ query.since <= e.at /\ e.at <= query.until
                      /\ \A g \in query.from : LogOf!Before(g, e)}
           page == LogOf!First(PageSize, rest)
           match == {e \in page : e.id \in filter.ids}
           room == LogOf!Limit - Cardinality(query.out)
           fresh == LogOf!First(room, match)
           out == query.out \cup fresh
           next == query.day + DayLength
           full == [query EXCEPT !.pc = "end", !.from = {}, !.out = out,
                     !.answer = IF filter.limit = 0 THEN "resultTooLarge" ELSE "cut"]
           more == [query EXCEPT !.from = page, !.out = out]
           after == [query EXCEPT !.from = {}, !.out = out, !.day = next]
           done == [query EXCEPT !.pc = "end", !.from = {}, !.out = out, !.answer = "all"]
<1>1. /\ query \in LogOf!Query /\ query.pc = "page" /\ Paging
      /\ filter \in LogOf!Filter /\ events \subseteq LogOf!Event /\ IsFiniteSet(events)
      /\ due \subseteq events /\ now \in 0 .. MaxTime /\ query.answer = "none"
  BY DEF LogInv, LogTyped, LogOf!ReadPage
<1>2. /\ LogOf!Limit \in Nat \ {0} /\ IsFiniteSet(query.out)
      /\ Cardinality(query.out) \in Nat /\ Cardinality(query.out) < LogOf!Limit
      /\ room \in Nat \ {0}
  BY <1>1, LimitType, FS_CardinalityType DEF Paging
<1>3. /\ page \subseteq rest /\ IsFiniteSet(page)
      /\ page # rest => Cardinality(page) = PageSize
      /\ \A g \in page, e \in rest \ page : LogOf!Before(g, e)
      /\ rest \subseteq events /\ rest \subseteq LogOf!Event
  <2>1. rest \subseteq events /\ rest \in SUBSET LogOf!Event /\ IsFiniteSet(rest)
    BY <1>1, FS_Subset
  <2> HIDE DEF rest
  <2> QED BY <2>1, PageProperties, LogNumbers
<1>4. /\ fresh \subseteq match /\ IsFiniteSet(fresh) /\ Cardinality(fresh) \in 0 .. room
      /\ fresh # match => Cardinality(fresh) = room
      /\ \A g \in fresh, e \in match \ fresh : LogOf!Before(g, e)
  <2>1. match \in SUBSET LogOf!Event /\ IsFiniteSet(match) /\ room \in Nat
    BY <1>2, <1>3, FS_Subset
  <2> HIDE DEF match, room
  <2> QED BY <2>1, PageProperties
<1>5. query' = IF Cardinality(out) = LogOf!Limit THEN full
               ELSE IF Cardinality(page) = PageSize THEN more
               ELSE IF next <= query.until THEN after ELSE done
  BY SameCardinality, Zenon DEF LogOf!ReadPage
<1>6. UNCHANGED <<now, events, filter, due>>
  BY DEF LogOf!ReadPage
<1>7. \A e \in LogOf!Event :
        LogOf!PartitionOf(e.at) = LogOf!PartitionOf(query.day)
          <=> query.day <= e.at /\ e.at < next
  <2> TAKE e \in LogOf!Event
  <2>1. e.at \in Int /\ query.day \in Int /\ query.day % DayLength = 0
        /\ DayLength \in Int /\ DayLength > 0
    BY <1>1, EventFacts, QueryFacts, LogNumbers DEF Paging
  <2>2. e.at \div DayLength = query.day \div DayLength
          <=> query.day <= e.at /\ e.at < query.day + DayLength
    BY <2>1, DayOf
  <2> QED BY <2>2 DEF LogOf!PartitionOf
<1>8. next \in Int /\ next % DayLength = 0 /\ query.day \in Int /\ query.until \in Int
      /\ query.day < next
  <2>1. query.day \in Int /\ query.until \in Int /\ query.day % DayLength = 0
        /\ DayLength \in Int /\ DayLength > 0
    BY <1>1, QueryFacts, LogNumbers DEF Paging
  <2>2. (query.day + DayLength) % DayLength = 0
    BY <2>1, DayAfter
  <2> QED BY <2>1, <2>2
<1>9. \A e \in rest : StillAhead(e) /\ e.at < next
  BY <1>3, <1>7 DEF StillAhead
<1>10. \A e \in LogOf!Event : StillAhead(e) => e \in rest \/ next <= e.at \/ e \notin due
  <2> SUFFICES ASSUME NEW e \in LogOf!Event, StillAhead(e), e \in due, ~ (next <= e.at)
               PROVE  e \in rest
    OBVIOUS
  <2>1. e.at \in Nat
    BY EventFacts
  <2>2. query.day <= e.at /\ e.at < next /\ \A h \in query.from : LogOf!Before(h, e)
    BY <1>8, <2>1 DEF StillAhead
  <2>3. e \in events /\ query.since <= e.at /\ e.at <= query.until
    BY <1>1 DEF Paging
  <2> QED BY <1>7, <2>2, <2>3
<1> DEFINE Owed == due \ out
<1>11. \A e \in Owed : /\ e \in LogOf!Event /\ StillAhead(e) /\ e.id \in filter.ids
                       /\ e \in rest \/ next <= e.at
  <2> TAKE e \in Owed
  <2>1. e \in due /\ e \notin query.out
    OBVIOUS
  <2>2. e \in LogOf!Event /\ e.id \in filter.ids /\ StillAhead(e)
    BY <1>1, <2>1 DEF Paging
  <2> QED BY <1>10, <2>1, <2>2
<1>12. \A g \in query.out, e \in LogOf!Event : StillAhead(e) => LogOf!Before(g, e)
  BY <1>1 DEF Paging
<1>13. fresh \subseteq page /\ \A g \in fresh : g \in LogOf!Event /\ g.at < next
  BY <1>3, <1>4, <1>9
<1>14. \A g \in page, e \in LogOf!Event : next <= e.at => LogOf!Before(g, e)
  <2> SUFFICES ASSUME NEW g \in page, NEW e \in LogOf!Event, next <= e.at
               PROVE  LogOf!Before(g, e)
    OBVIOUS
  <2>1. g \in LogOf!Event /\ g.at < next
    BY <1>3, <1>9
  <2>2. g.at \in Nat /\ e.at \in Nat
    BY <2>1, EventFacts
  <2> QED BY <1>8, <2>1, <2>2 DEF LogOf!Before
(* What is put out comes before what is owed. *)
<1>15. \A e \in Owed, g \in out : LogOf!Before(g, e)
  <2> SUFFICES ASSUME NEW e \in Owed, NEW g \in out PROVE LogOf!Before(g, e)
    OBVIOUS
  <2>1. CASE g \in query.out
    BY <1>11, <1>12, <2>1
  <2>2. CASE g \in fresh /\ next <= e.at
    BY <1>11, <1>13, <1>14, <2>2
  <2>3. CASE g \in fresh /\ e \in rest
    <3>1. CASE e \in page
      <4>1. e \in match /\ e \notin fresh
        BY <1>11, <3>1
      <4> QED BY <1>4, <2>3, <4>1
    <3>2. CASE e \notin page
      BY <1>3, <1>13, <2>3, <3>2
    <3> QED BY <3>1, <3>2
  <2> QED BY <1>11, <2>1, <2>2, <2>3
<1>16. /\ IsFiniteSet(out) /\ Cardinality(out) = Cardinality(query.out) + Cardinality(fresh)
       /\ out \subseteq LogOf!Event
  <2>1. query.out \cap fresh = {}
    <3> SUFFICES ASSUME NEW g \in query.out, g \in fresh PROVE FALSE
      OBVIOUS
    <3>1. g \in LogOf!Event /\ StillAhead(g)
      BY <1>3, <1>9, <1>13
    <3> QED BY <1>12, <3>1, BeforeIsAnOrder
  <2>2. Cardinality(query.out \cap fresh) = 0
    BY <2>1, FS_EmptySet
  <2>3. out \subseteq LogOf!Event
    BY <1>1, <1>13, QueryFacts
  <2>4. Cardinality(fresh) \in Nat
    BY <1>4, FS_CardinalityType
  <2> HIDE DEF fresh
  <2>5. /\ IsFiniteSet(query.out \cup fresh)
        /\ Cardinality(query.out \cup fresh)
             = Cardinality(query.out) + Cardinality(fresh)
                 - Cardinality(query.out \cap fresh)
    BY <1>2, <1>4, FS_Union
  <2> QED BY <1>2, <2>2, <2>3, <2>4, <2>5
<1>17. Cardinality(out) \in Nat /\ Cardinality(out) <= LogOf!Limit
  <2>1. Cardinality(fresh) \in Nat /\ Cardinality(fresh) <= room
    BY <1>2, <1>4
  <2> QED BY <1>2, <1>16, <2>1
(* Nothing of what the page shows is owed once the answer has room left.   *)
<1>18. ASSUME Cardinality(out) # LogOf!Limit
       PROVE  \A e \in Owed : e \notin page
  <2> SUFFICES ASSUME NEW e \in Owed, e \in page PROVE FALSE
    OBVIOUS
  <2>1. e \in match /\ e \notin fresh
    BY <1>11
  <2>2. Cardinality(fresh) = room
    BY <1>4, <2>1
  <2> QED BY <1>2, <1>16, <1>18, <2>2
<1>19. /\ full \in LogOf!Query /\ full.pc = "end" /\ full.out = out
       /\ full.answer \in {"resultTooLarge", "cut"}
       /\ more \in LogOf!Query /\ more.pc = "page" /\ more.out = out /\ more.from = page
       /\ more.day = query.day /\ more.since = query.since /\ more.until = query.until
       /\ more.answer = "none"
       /\ after \in LogOf!Query /\ after.pc = "page" /\ after.out = out /\ after.from = {}
       /\ after.day = next /\ after.since = query.since /\ after.until = query.until
       /\ after.answer = "none"
       /\ done \in LogOf!Query /\ done.pc = "end" /\ done.out = out /\ done.answer = "all"
  <2>1. page \subseteq LogOf!Event /\ out \subseteq LogOf!Event
    BY <1>3, <1>16
  <2> DEFINE told == IF filter.limit = 0 THEN "resultTooLarge" ELSE "cut"
  <2>2. told \in {"resultTooLarge", "cut"}
    OBVIOUS
  <2> HIDE DEF rest, page, fresh, out, next, told
  <2>3. full \in LogOf!Query /\ full.pc = "end" /\ full.out = out /\ full.answer = told
    BY <1>1, <2>1, <2>2 DEF LogOf!Query, told
  <2>4. /\ more \in LogOf!Query /\ more.pc = "page" /\ more.out = out /\ more.from = page
        /\ more.day = query.day /\ more.since = query.since /\ more.until = query.until
        /\ more.answer = "none"
    BY <1>1, <2>1 DEF LogOf!Query
  <2>5. /\ after \in LogOf!Query /\ after.pc = "page" /\ after.out = out /\ after.from = {}
        /\ after.day = next /\ after.since = query.since /\ after.until = query.until
        /\ after.answer = "none"
    BY <1>1, <1>8, <2>1 DEF LogOf!Query
  <2>6. done \in LogOf!Query /\ done.pc = "end" /\ done.out = out /\ done.answer = "all"
    BY <1>1, <2>1 DEF LogOf!Query
  <2> QED BY <2>2, <2>3, <2>4, <2>5, <2>6
<1>20. \A g \in out : g \notin Owed
  OBVIOUS
<1> HIDE DEF full, more, after, done
<1>21. LogTyped'
  <2>1. query' \in LogOf!Query /\ query'.pc # "idle"
        /\ (query'.pc # "end" => query'.answer = "none")
    BY <1>5, <1>19
  <2> QED BY <1>1, <1>6, <2>1 DEF LogTyped
<1>22. CASE Cardinality(out) = LogOf!Limit
  <2>1. query' = full
    BY <1>5, <1>22
  <2>2. LogOf!AnswersHaveNoHoles'
    <3>1. query'.answer # "all" /\ query'.out = out /\ due' = due
      BY <1>6, <1>19, <2>1
    <3>2. ASSUME NEW e \in due, NEW g \in out, LogOf!Before(e, g), e \notin out PROVE FALSE
      <4>1. e \in LogOf!Event /\ g \in LogOf!Event /\ LogOf!Before(g, e)
        BY <1>11, <1>15, <1>16, <3>2
      <4> QED BY <3>2, <4>1, BeforeIsAnOrder
    <3> HIDE DEF out
    <3> QED BY <3>1, <3>2 DEF LogOf!AnswersHaveNoHoles
  <2> QED BY <1>19, <1>21, <2>1, <2>2 DEF LogInv
<1>23. ASSUME Cardinality(out) # LogOf!Limit, Cardinality(page) = PageSize
       PROVE  LogInv'
  <2>1. query' = more
    BY <1>5, <1>23
  <2>2. /\ query'.pc = "page" /\ query'.out = out /\ query'.from = page
        /\ query'.day = query.day /\ query'.since = query.since
        /\ query'.until = query.until /\ query'.answer = "none"
        /\ due' = due /\ filter' = filter
    BY <1>6, <1>19, <2>1
  <2>3. \A e \in LogOf!Event :
          StillAhead(e)' <=> query.day <= e.at /\ \A h \in page : LogOf!Before(h, e)
    BY <2>2 DEF StillAhead
  <2>4. ASSUME NEW e \in Owed PROVE StillAhead(e)'
    <3>1. e \in LogOf!Event /\ query.day <= e.at /\ e \notin page
      BY <1>11, <1>18, <1>23 DEF StillAhead
    <3>2. \A h \in page : LogOf!Before(h, e)
      BY <1>3, <1>11, <1>14, <3>1
    <3> QED BY <2>3, <3>1, <3>2
  <2>5. ASSUME NEW g \in out, NEW e \in LogOf!Event, StillAhead(e)' PROVE LogOf!Before(g, e)
    <3>1. \A h \in page : LogOf!Before(h, e)
      BY <2>3, <2>5
    <3>2. CASE g \in fresh
      BY <1>13, <3>1, <3>2
    <3>3. CASE g \in query.out
      <4>1. page # {}
        BY <1>23, LogNumbers, FS_EmptySet
      <4>2. PICK h \in page : TRUE
        BY <4>1
      <4>3. h \in LogOf!Event /\ LogOf!Before(g, h) /\ LogOf!Before(h, e)
        BY <1>3, <1>9, <1>12, <3>1, <3>3
      <4> QED BY <1>16, <4>3, BeforeIsAnOrder
    <3> QED BY <3>2, <3>3
  <2>6. \A h \in page : h.at < next
    BY <1>3, <1>9
  <2>7. Cardinality(out) < LogOf!Limit /\ LogOf!Limit' = LogOf!Limit
    BY <1>2, <1>17, <1>23, <2>2 DEF LogOf!Limit
  <2>8. \A e \in due : /\ query.since <= e.at /\ e.at <= query.until /\ e.id \in filter.ids
                       /\ e \in out \/ StillAhead(e)'
    BY <1>1, <2>4 DEF Paging
  <2>9. Paging'
    <3>1. query.day % DayLength = 0
      BY <1>1 DEF Paging
    <3>2. \A h \in page : h.at < query.day + DayLength
      BY <2>6
    <3>3. IsFiniteSet(out)
      BY <1>16
    <3> HIDE DEF page, out
    <3> QED BY <2>2, <2>5, <2>7, <2>8, <3>1, <3>2, <3>3 DEF Paging
  <2> QED BY <1>21, <2>2, <2>9 DEF LogInv, LogOf!AnswersHaveNoHoles
<1>24. ASSUME Cardinality(out) # LogOf!Limit, Cardinality(page) # PageSize
       PROVE  \A e \in Owed : next <= e.at
  BY <1>3, <1>11, <1>18, <1>24
<1>25. ASSUME Cardinality(out) # LogOf!Limit, Cardinality(page) # PageSize,
              next <= query.until
       PROVE  LogInv'
  <2>1. query' = after
    BY <1>5, <1>25
  <2>2. /\ query'.pc = "page" /\ query'.out = out /\ query'.from = {}
        /\ query'.day = next /\ query'.since = query.since
        /\ query'.until = query.until /\ query'.answer = "none"
        /\ due' = due /\ filter' = filter
    BY <1>6, <1>19, <2>1
  <2>3. \A e \in LogOf!Event : StillAhead(e)' <=> next <= e.at
    BY <2>2 DEF StillAhead
  <2>4. ASSUME NEW g \in out, NEW e \in LogOf!Event, next <= e.at PROVE LogOf!Before(g, e)
    <3>1. CASE g \in fresh
      BY <1>13, <1>14, <2>4, <3>1
    <3>2. CASE g \in query.out
      <4>1. StillAhead(e)
        <5>1. e.at \in Nat
          BY EventFacts
        <5>2. \A h \in query.from : h \in LogOf!Event /\ h.at \in Nat /\ h.at < next
          BY <1>1, EventFacts, QueryFacts DEF Paging
        <5> QED BY <1>8, <2>4, <5>1, <5>2 DEF StillAhead, LogOf!Before
      <4> QED BY <1>12, <3>2, <4>1
    <3> QED BY <3>1, <3>2
  <2>5. Cardinality(out) < LogOf!Limit /\ LogOf!Limit' = LogOf!Limit
    BY <1>2, <1>17, <1>25, <2>2 DEF LogOf!Limit
  <2>6. \A e \in due : /\ query.since <= e.at /\ e.at <= query.until /\ e.id \in filter.ids
                       /\ e \in out \/ StillAhead(e)'
    <3> SUFFICES ASSUME NEW e \in due, e \notin out PROVE StillAhead(e)'
      BY <1>1 DEF Paging
    <3>1. e \in LogOf!Event /\ next <= e.at
      BY <1>11, <1>24, <1>25
    <3> QED BY <2>3, <3>1
  <2>7. Paging'
    <3>1. next % DayLength = 0
      BY <1>8
    <3>2. IsFiniteSet(out)
      BY <1>16
    <3> HIDE DEF out, next
    <3> QED BY <2>2, <2>3, <2>4, <2>5, <2>6, <3>1, <3>2 DEF Paging
  <2> QED BY <1>21, <2>2, <2>7 DEF LogInv, LogOf!AnswersHaveNoHoles
<1>26. ASSUME Cardinality(out) # LogOf!Limit, Cardinality(page) # PageSize,
              ~ (next <= query.until)
       PROVE  LogInv'
  <2>1. query' = done
    BY <1>5, <1>26
  <2>2. due \subseteq out
    <3> SUFFICES ASSUME NEW e \in Owed PROVE FALSE
      OBVIOUS
    <3>1. e \in LogOf!Event /\ next <= e.at
      BY <1>11, <1>24, <1>26
    <3>2. e.at \in Nat /\ e.at <= query.until
      BY <1>1, <3>1, EventFacts DEF Paging
    <3> QED BY <1>8, <1>26, <3>1, <3>2
  <2> QED BY <1>6, <1>19, <1>21, <2>1, <2>2 DEF LogInv, LogOf!AnswersHaveNoHoles
<1> QED BY <1>22, <1>23, <1>25, <1>26

LEMMA LogStep == LogInv /\ [LogOf!Next]_telemetryVars => LogInv'
<1> SUFFICES ASSUME LogInv, [LogOf!Next]_telemetryVars PROVE LogInv'
  OBVIOUS
<1>1. CASE UNCHANGED telemetryVars
  <2>1. LogTyped' /\ UNCHANGED <<filter, query>> /\ due' \subseteq due
    BY <1>1 DEF telemetryVars, LogInv, LogTyped
  <2> QED BY <2>1, LogGoesOn
<1>2. CASE LogOf!Next
  BY <1>2, LogChanges, AskStep, ReadPageStep, FailStep DEF LogOf!Next
<1> QED BY <1>1, <1>2
-----------------------------------------------------------------------------
(* Listings.  *)

ByKey == {p \in Listed \X Listed : p[1] < p[2]}

LEMMA ListingNumbers ==
  /\ Listed \subseteq Nat \ {0}
  /\ WalkLimit \in Nat \ {0} /\ MaxBatch \in Nat \ {0} /\ MaxWindow \in Nat \ {0}
BY ListingsAssumption DEF ListingOf!boundsAreNumbers

LEMMA CountedAlike == \A S : ListingOf!Cardinality(S) = Cardinality(S)
BY DEF ListingOf!Cardinality, Cardinality

LEMMA KeysAreOrdered ==
  ASSUME NEW S \in SUBSET Listed
  PROVE  Orders(ByKey, S)
BY ListingNumbers DEF Orders, ByKey

(* The first n of some keys are n, or all there are, and before the rest.  *)
LEMMA FirstKeys ==
  ASSUME NEW S \in SUBSET Listed, IsFiniteSet(S), NEW n \in Nat
  PROVE  /\ ListingOf!First(n, S) \subseteq S
         /\ IsFiniteSet(ListingOf!First(n, S))
         /\ Cardinality(ListingOf!First(n, S)) \in 0 .. n
         /\ ListingOf!First(n, S) # S => Cardinality(ListingOf!First(n, S)) = n
         /\ \A g \in ListingOf!First(n, S), e \in S \ ListingOf!First(n, S) : g < e
<1>1. Orders(ByKey, S)
  BY KeysAreOrdered
<1>2. \A k \in S : Cardinality({j \in S : j <= k}) <= n <=> Rank(ByKey, S, k) < n
  <2> TAKE k \in S
  <2>1. {j \in S : j <= k} = Below(ByKey, S, k) \cup {k}
    <3>1. \A j \in S : j \in Nat /\ j \in Listed
      BY ListingNumbers
    <3>2. \A j \in S : <<j, k>> \in ByKey <=> j < k
      BY <3>1 DEF ByKey
    <3>3. \A j \in S : j <= k <=> j < k \/ j = k
      BY <3>1
    <3> QED BY <3>2, <3>3 DEF Below
  <2>2. k \notin Below(ByKey, S, k)
    BY <1>1 DEF Below, Orders
  <2>3. IsFiniteSet(Below(ByKey, S, k)) /\ Rank(ByKey, S, k) \in Nat
    BY <1>1, RankType
  <2>4. Cardinality(Below(ByKey, S, k) \cup {k}) = Rank(ByKey, S, k) + 1
    BY <2>2, <2>3, FS_AddElement DEF Rank
  <2> QED BY <2>1, <2>3, <2>4
<1>3. \A k \in S : ListingOf!Cardinality({j \in S : j <= k}) <= n <=> Rank(ByKey, S, k) < n
  BY <1>2, CountedAlike
<1>4. ListingOf!First(n, S) = Foremost(ByKey, S, n)
  BY <1>3 DEF ListingOf!First, Foremost
<1>5. Foremost(ByKey, S, n) \subseteq S
  BY DEF Foremost
<1>6. \A g, e : <<g, e>> \in ByKey => g < e
  BY DEF ByKey
<1> DEFINE F == Foremost(ByKey, S, n)
<1>7. /\ IsFiniteSet(F) /\ Cardinality(F) \in 0 .. n
      /\ F # S => Cardinality(F) = n
      /\ \A g \in F, e \in S \ F : <<g, e>> \in ByKey
  BY <1>1, ForemostProperties
<1> HIDE DEF F
<1> QED BY <1>4, <1>5, <1>6, <1>7 DEF F

LEMMA LastKey ==
  ASSUME NEW S \in SUBSET Listed, IsFiniteSet(S), S # {}
  PROVE  ListingOf!Max(S) \in S /\ \A k \in S : k <= ListingOf!Max(S)
<1>1. Orders(ByKey, S)
  BY KeysAreOrdered
<1>2. PICK e \in S : \A g \in S : g = e \/ <<g, e>> \in ByKey
  BY <1>1, LastOne
<1>3. \A g \in S : e >= g
  <2> TAKE g \in S
  <2>1. g \in Nat /\ e \in Nat
    BY ListingNumbers
  <2>2. g = e \/ g < e
    BY <1>2 DEF ByKey
  <2> QED BY <2>1, <2>2
<1>4. \A m \in S : (\A y \in S : m >= y) => \A y \in S : y <= m
  BY ListingNumbers
<1> QED BY <1>3, <1>4 DEF ListingOf!Max

LEMMA LesserOf ==
  ASSUME NEW a \in Int, NEW b \in Int
  PROVE  /\ ListingOf!Min({a, b}) \in {a, b}
         /\ ListingOf!Min({a, b}) <= a /\ ListingOf!Min({a, b}) <= b
<1>1. \E m \in {a, b} : \A y \in {a, b} : m <= y
  OBVIOUS
<1> DEFINE m == CHOOSE m \in {a, b} : \A y \in {a, b} : m <= y
<1>2. m \in {a, b} /\ \A y \in {a, b} : m <= y
  BY <1>1
<1>3. ListingOf!Min({a, b}) = m
  BY DEF ListingOf!Min
<1> HIDE DEF m
<1> QED BY <1>2, <1>3

(* What the walk has still to meet is behind its cursor, in the batch that *)
(* is being resolved, or on a later page: more entries come up to it than  *)
(* the offset of that page, which counts the entries the walk has passed.  *)

Upto(k) == {j \in shown : j <= k}

Span(c, k) == {j \in shown : c < j /\ j <= k}

Unmet == steady \ (met \cup walk.out)

Batch == walk.todo \cup walk.found

Ahead(k) == {j \in shown \ Batch : j < k}

Passed == {j \in shown \ Batch : j <= walk.cursor}

WalkTyped ==
  /\ ListingOf!TypeOK
  /\ IsFiniteSet(shown)
  /\ IsFiniteSet(walk.out) /\ IsFiniteSet(Batch)
  /\ steady \subseteq record
  /\ walk.pc # "end" => walk.answer = "none"
  /\ walk.pc = "idle" => walk.out = {}
  /\ walk.pc = "idle" /\ walk.offset = 0 => steady = {} /\ met = {}
  /\ walk.pc \in {"query", "resolve", "answer"} =>
       /\ ListingOf!InWindow /\ walk.skipped <= walk.offset
       /\ Cardinality(walk.out) <= WalkLimit
  /\ walk.pc \in {"query", "resolve"} => Cardinality(walk.out) < WalkLimit

BetweenPages == \A k \in Unmet : Cardinality(Upto(k)) > walk.offset

Querying ==
  /\ \A k \in Unmet : /\ k > walk.cursor
                      /\ Cardinality(Span(walk.cursor, k)) + walk.skipped > walk.offset
  /\ \A k \in walk.out : k <= walk.cursor
  /\ Cardinality(Upto(walk.cursor)) >= walk.skipped + Cardinality(walk.out)

Resolving ==
  /\ walk.skipped = walk.offset
  /\ Batch \subseteq shown /\ walk.out \cap Batch = {}
  /\ \A k \in walk.out \cup Batch : k <= walk.cursor
  /\ \A k \in Batch : Cardinality(Ahead(k)) >= walk.offset + Cardinality(walk.out)
  /\ Cardinality(Passed) >= walk.offset + Cardinality(walk.out)
  /\ \A k \in Unmet : k \in Batch \/ k > walk.cursor
  /\ walk.last => Unmet \subseteq Batch

Answering ==
  /\ Cardinality(walk.out) = WalkLimit =>
       \A k \in Unmet : Cardinality(Upto(k)) > walk.offset + WalkLimit
  /\ Cardinality(walk.out) # WalkLimit => Unmet = {}

Unshifted ==
  /\ ListingOf!Walking => steady \subseteq shown
  /\ walk.pc = "idle" => BetweenPages
  /\ walk.pc = "query" => Querying
  /\ walk.pc = "resolve" => Resolving
  /\ walk.pc = "answer" => Answering
  /\ walk.answer = "everyone" => steady \subseteq met

WalkInv == WalkTyped /\ (~ shifted => Unshifted)

LEMMA WalkFacts ==
  ASSUME NEW v \in ListingOf!Walk
  PROVE  /\ v.pc \in {"idle", "query", "resolve", "answer", "end"}
         /\ v.offset \in Nat /\ v.skipped \in Nat /\ v.cursor \in Nat
         /\ v.offset \in 0 .. MaxWindow /\ v.skipped \in 0 .. MaxWindow
         /\ v.cursor \in Listed \cup {0} /\ v.last \in BOOLEAN
         /\ v.todo \subseteq Listed /\ v.found \subseteq Listed /\ v.out \subseteq Listed
<1>1. /\ v.pc \in {"idle", "query", "resolve", "answer", "end"}
      /\ v.offset \in 0 .. MaxWindow /\ v.skipped \in 0 .. MaxWindow
      /\ v.cursor \in Listed \cup {0} /\ v.last \in BOOLEAN
      /\ v.todo \subseteq Listed /\ v.found \subseteq Listed /\ v.out \subseteq Listed
  BY DEF ListingOf!Walk
<1>2. v.offset \in Nat /\ v.skipped \in Nat
  BY <1>1, ListingNumbers
<1>3. v.cursor \in Nat
  <2>1. v.cursor \in Listed \/ v.cursor = 0
    BY <1>1
  <2>2. \A k \in Listed : k \in Nat
    BY ListingNumbers
  <2> QED BY <2>1, <2>2
<1> QED BY <1>1, <1>2, <1>3

LEMMA Smaller ==
  ASSUME NEW T, IsFiniteSet(T), NEW S \in SUBSET T
  PROVE  /\ Cardinality(S) \in Nat /\ Cardinality(T) \in Nat
         /\ Cardinality(S) <= Cardinality(T)
BY FS_Subset, FS_CardinalityType

LEMMA WalkInit == ListingOf!Init => WalkInv
<1> SUFFICES ASSUME ListingOf!Init PROVE WalkInv
  OBVIOUS
<1>1. walk \in ListingOf!Walk
  BY ListingNumbers DEF ListingOf!Init, ListingOf!Walk
<1>2. /\ walk.pc = "idle" /\ walk.offset = 0 /\ walk.out = {} /\ walk.todo = {}
      /\ walk.found = {} /\ walk.answer = "none"
      /\ steady = {} /\ met = {} /\ shown = {} /\ record = {} /\ entry = {}
      /\ listing \in {"ofItself", "beside"} /\ shifted = FALSE
  BY DEF ListingOf!Init
<1>3. IsFiniteSet({})
  BY FS_EmptySet
<1>4. WalkTyped
  BY <1>1, <1>2, <1>3 DEF WalkTyped, ListingOf!TypeOK, Batch
<1>5. Unmet = {}
  BY <1>2 DEF Unmet
<1>6. Unshifted
  BY <1>2, <1>5 DEF Unshifted, BetweenPages
<1> QED BY <1>4, <1>6 DEF WalkInv

(* Records that come and go, and an index that grows.                      *)
LEMMA WalkGoesOn ==
  ASSUME WalkInv, WalkTyped', UNCHANGED <<walk, met, shifted>>,
         steady' \subseteq steady, shown \subseteq shown'
  PROVE  WalkInv'
<1> SUFFICES ASSUME Unshifted PROVE Unshifted'
  BY DEF WalkInv
<1>1. Unmet' \subseteq Unmet /\ Batch' = Batch
  BY DEF Unmet, Batch
<1>2. \A k : Upto(k) \subseteq Upto(k)' /\ IsFiniteSet(Upto(k)')
  <2> TAKE k
  <2>1. IsFiniteSet(shown') /\ Upto(k)' \subseteq shown'
    BY DEF WalkTyped, Upto
  <2>2. Upto(k) \subseteq Upto(k)'
    BY DEF Upto
  <2>3. IsFiniteSet(Upto(k)')
    BY <2>1, FS_Subset
  <2> QED BY <2>2, <2>3
<1>3. \A c, k : Span(c, k) \subseteq Span(c, k)' /\ IsFiniteSet(Span(c, k)')
  <2> TAKE c, k
  <2>1. IsFiniteSet(shown') /\ Span(c, k)' \subseteq shown'
    BY DEF WalkTyped, Span
  <2>2. Span(c, k) \subseteq Span(c, k)'
    BY DEF Span
  <2>3. IsFiniteSet(Span(c, k)')
    BY <2>1, FS_Subset
  <2> QED BY <2>2, <2>3
<1>4. \A k : Ahead(k) \subseteq Ahead(k)' /\ IsFiniteSet(Ahead(k)')
  <2> TAKE k
  <2>1. IsFiniteSet(shown') /\ Ahead(k)' \subseteq shown'
    BY DEF WalkTyped, Ahead
  <2>2. Ahead(k) \subseteq Ahead(k)'
    BY <1>1 DEF Ahead
  <2>3. IsFiniteSet(Ahead(k)')
    BY <2>1, FS_Subset
  <2> QED BY <2>2, <2>3
<1>5. Passed \subseteq Passed' /\ IsFiniteSet(Passed')
  <2>1. IsFiniteSet(shown') /\ Passed' \subseteq shown'
    BY DEF WalkTyped, Passed
  <2>2. Passed \subseteq Passed'
    BY <1>1 DEF Passed
  <2>3. IsFiniteSet(Passed')
    BY <2>1, FS_Subset
  <2> QED BY <2>2, <2>3
<1>6. walk \in ListingOf!Walk
  BY DEF WalkInv, WalkTyped, ListingOf!TypeOK
<1>7. Cardinality(walk.out) \in Nat
  BY FS_CardinalityType DEF WalkInv, WalkTyped
<1>8. walk.pc = "idle" => BetweenPages'
  <2> SUFFICES ASSUME walk.pc = "idle", NEW k \in Unmet'
               PROVE  Cardinality(Upto(k)') > walk.offset
    BY DEF BetweenPages, Upto
  <2>1. Cardinality(Upto(k)) > walk.offset
    BY <1>1 DEF Unshifted, BetweenPages
  <2> QED BY <1>2, <1>6, <2>1, Smaller, WalkFacts
<1>9. walk.pc = "query" => Querying'
  <2> SUFFICES ASSUME walk.pc = "query" PROVE Querying'
    OBVIOUS
  <2>1. Querying
    BY DEF Unshifted
  <2>2. ASSUME NEW k \in Unmet'
        PROVE  /\ k > walk.cursor
               /\ Cardinality(Span(walk.cursor, k)') + walk.skipped > walk.offset
    <3>1. k > walk.cursor /\ Cardinality(Span(walk.cursor, k)) + walk.skipped > walk.offset
      BY <1>1, <2>1 DEF Querying
    <3>2. /\ Cardinality(Span(walk.cursor, k)) \in Nat
          /\ Cardinality(Span(walk.cursor, k)') \in Nat
          /\ Cardinality(Span(walk.cursor, k)) <= Cardinality(Span(walk.cursor, k)')
      BY <1>3, Smaller
    <3> QED BY <1>6, <3>1, <3>2, WalkFacts
  <2>3. Cardinality(Upto(walk.cursor)') >= walk.skipped + Cardinality(walk.out)
    <3>1. /\ Cardinality(Upto(walk.cursor)) \in Nat
          /\ Cardinality(Upto(walk.cursor)') \in Nat
          /\ Cardinality(Upto(walk.cursor)) <= Cardinality(Upto(walk.cursor)')
      BY <1>2, Smaller
    <3> QED BY <1>6, <1>7, <2>1, <3>1, WalkFacts DEF Querying
  <2> QED BY <2>1, <2>2, <2>3 DEF Querying, Span, Upto
<1>10. walk.pc = "resolve" => Resolving'
  <2> SUFFICES ASSUME walk.pc = "resolve" PROVE Resolving'
    OBVIOUS
  <2>1. Resolving
    BY DEF Unshifted
  <2>2. ASSUME NEW k \in Batch
        PROVE  Cardinality(Ahead(k)') >= walk.offset + Cardinality(walk.out)
    <3>1. Cardinality(Ahead(k)) >= walk.offset + Cardinality(walk.out)
      BY <2>1 DEF Resolving
    <3>2. /\ Cardinality(Ahead(k)) \in Nat /\ Cardinality(Ahead(k)') \in Nat
          /\ Cardinality(Ahead(k)) <= Cardinality(Ahead(k)')
      BY <1>4, Smaller
    <3> QED BY <1>6, <1>7, <3>1, <3>2, WalkFacts
  <2>3. Cardinality(Passed') >= walk.offset + Cardinality(walk.out)
    <3>1. /\ Cardinality(Passed) \in Nat /\ Cardinality(Passed') \in Nat
          /\ Cardinality(Passed) <= Cardinality(Passed')
      BY <1>5, Smaller
    <3> QED BY <1>6, <1>7, <2>1, <3>1, WalkFacts DEF Resolving
  <2>4. Batch \subseteq shown'
    BY <2>1 DEF Resolving
  <2> QED BY <1>1, <2>1, <2>2, <2>3, <2>4 DEF Resolving, Ahead
<1>11. walk.pc = "answer" => Answering'
  <2> SUFFICES ASSUME walk.pc = "answer" PROVE Answering'
    OBVIOUS
  <2>1. Answering
    BY DEF Unshifted
  <2>2. ASSUME Cardinality(walk.out) = WalkLimit, NEW k \in Unmet'
        PROVE  Cardinality(Upto(k)') > walk.offset + WalkLimit
    <3>1. Cardinality(Upto(k)) > walk.offset + WalkLimit
      BY <1>1, <2>1, <2>2 DEF Answering
    <3>2. /\ Cardinality(Upto(k)) \in Nat /\ Cardinality(Upto(k)') \in Nat
          /\ Cardinality(Upto(k)) <= Cardinality(Upto(k)')
      BY <1>2, Smaller
    <3> QED BY <1>6, <3>1, <3>2, WalkFacts, ListingNumbers
  <2> QED BY <1>1, <2>1, <2>2 DEF Answering, Upto
<1>12. ListingOf!Walking' => steady' \subseteq shown'
  BY DEF Unshifted, ListingOf!Walking
<1>13. walk.answer = "everyone" => steady' \subseteq met
  BY DEF Unshifted
<1> QED BY <1>8, <1>9, <1>10, <1>11, <1>12, <1>13 DEF Unshifted

LEMMA ListingChanges ==
  ASSUME WalkInv, NEW k \in Listed
  PROVE  /\ ListingOf!Record(k) => WalkInv'
         /\ ListingOf!Remove(k) => WalkInv'
         /\ ListingOf!ReapRecord(k) => WalkInv'
         /\ ListingOf!ReapEntry(k) => WalkInv'
<1>1. WalkTyped
  BY DEF WalkInv
<1>2. ASSUME UNCHANGED <<listing, walk, met, shifted>>, shown' = shown,
             record' \subseteq Listed, entry' \subseteq Listed,
             steady' \subseteq steady, steady' \subseteq record'
      PROVE  WalkInv'
  <2>1. WalkTyped'
    BY <1>1, <1>2, Zenon DEF WalkTyped, ListingOf!TypeOK, Batch, ListingOf!InWindow
  <2> QED BY <1>2, <2>1, WalkGoesOn
<1>3. record \subseteq Listed /\ entry \subseteq Listed /\ steady \subseteq record
  BY <1>1 DEF WalkTyped, ListingOf!TypeOK
<1>4. ListingOf!Record(k) => WalkInv'
  BY <1>2, <1>3 DEF ListingOf!Record
<1>5. ListingOf!Remove(k) => WalkInv'
  BY <1>2, <1>3 DEF ListingOf!Remove
<1>6. ListingOf!ReapRecord(k) => WalkInv'
  BY <1>2, <1>3 DEF ListingOf!ReapRecord
<1>7. ListingOf!ReapEntry(k) => WalkInv'
  BY <1>2, <1>3 DEF ListingOf!ReapEntry
<1> QED BY <1>4, <1>5, <1>6, <1>7

LEMMA PropagateStep ==
  ASSUME WalkInv, NEW k \in Listed, ListingOf!Propagate(k)
  PROVE  WalkInv'
<1>1. WalkTyped /\ UNCHANGED <<listing, record, entry, walk, met>>
      /\ steady' \subseteq steady
  BY DEF WalkInv, ListingOf!Propagate
<1>2. IsFiniteSet(shown \cup {k}) /\ IsFiniteSet(shown \ {k})
  BY <1>1, FS_AddElement, FS_RemoveElement DEF WalkTyped
<1>3. IsFiniteSet(shown') /\ shown' \subseteq Listed /\ shifted' \in BOOLEAN
  BY <1>1, <1>2 DEF ListingOf!Propagate, WalkTyped, ListingOf!TypeOK
<1>4. ListingOf!TypeOK'
  BY <1>1, <1>3 DEF WalkTyped, ListingOf!TypeOK
<1>5. WalkTyped'
  <2>1. Batch' = Batch /\ (ListingOf!InWindow' <=> ListingOf!InWindow)
    BY <1>1 DEF Batch, ListingOf!InWindow
  <2>2. steady' \subseteq record' /\ (steady = {} => steady' = {})
    BY <1>1 DEF WalkTyped
  <2> QED BY <1>1, <1>3, <1>4, <2>1, <2>2 DEF WalkTyped
<1>6. CASE k \notin shown
  <2>1. shown \subseteq shown' /\ shifted' = shifted
    <3>1. shown' = shown \cup {k}
      BY <1>6 DEF ListingOf!Propagate
    <3>2. shifted \in BOOLEAN /\ shifted' = (shifted \/ FALSE)
      BY <1>1, <1>6 DEF ListingOf!Propagate, WalkTyped, ListingOf!TypeOK
    <3> QED BY <3>1, <3>2
  <2> QED BY <1>1, <1>5, <2>1, WalkGoesOn
<1>7. CASE k \in shown /\ ListingOf!Walking
  <2>1. shifted'
    BY <1>7 DEF ListingOf!Propagate
  <2> QED BY <1>5, <2>1 DEF WalkInv
<1>8. CASE k \in shown /\ ~ ListingOf!Walking
  <2>1. (shifted' <=> shifted) /\ ~ ListingOf!Walking'
    BY <1>1, <1>8 DEF ListingOf!Propagate, ListingOf!Walking
  <2>2. walk.pc = "end" \/ (walk.pc = "idle" /\ ~ (walk.offset > 0))
    BY <1>8 DEF ListingOf!Walking
  <2>3. walk.pc = "idle" => steady' = {}
    <3>1. walk.offset \in Nat
      BY <1>1, WalkFacts DEF WalkTyped, ListingOf!TypeOK
    <3>2. walk.pc = "idle" => walk.offset = 0
      BY <2>2, <3>1
    <3> QED BY <1>1, <3>2 DEF WalkTyped
  <2>4. ~ shifted => (walk.answer = "everyone" => steady' \subseteq met)
    BY <1>1 DEF WalkInv, Unshifted
  <2>5. walk.pc = "idle" => BetweenPages'
    BY <2>3 DEF BetweenPages, Unmet
  <2>6. ~ shifted' => Unshifted'
    BY <1>1, <2>1, <2>2, <2>4, <2>5 DEF Unshifted
  <2> QED BY <1>5, <2>6 DEF WalkInv
<1> QED BY <1>6, <1>7, <1>8

LEMMA NextPageStep ==
  ASSUME WalkInv, ListingOf!NextPage
  PROVE  WalkInv'
<1> DEFINE begun == [walk EXCEPT !.pc = "query", !.skipped = 0, !.cursor = 0, !.out = {}]
           refused == [walk EXCEPT !.pc = "end", !.answer = "windowTooLarge"]
<1>1. /\ WalkTyped /\ walk \in ListingOf!Walk /\ walk.pc = "idle" /\ walk.out = {}
      /\ walk.answer = "none"
      /\ UNCHANGED <<listing, record, entry, shown, met, shifted>>
  BY DEF WalkInv, WalkTyped, ListingOf!TypeOK, ListingOf!NextPage
<1>2. walk' = IF ListingOf!InWindow THEN begun ELSE refused
  BY DEF ListingOf!NextPage
<1>3. /\ begun \in ListingOf!Walk /\ begun.pc = "query" /\ begun.skipped = 0
      /\ begun.cursor = 0 /\ begun.out = {} /\ begun.offset = walk.offset
      /\ begun.todo = walk.todo /\ begun.found = walk.found /\ begun.answer = "none"
  <2>1. 0 \in 0 .. MaxWindow /\ 0 \in Listed \cup {0} /\ {} \subseteq Listed
    BY ListingNumbers
  <2>2. walk \in ListingOf!Walk
    BY <1>1
  <2>3. begun \in ListingOf!Walk
    BY <2>1, <2>2 DEF ListingOf!Walk
  <2>4. /\ begun.pc = "query" /\ begun.skipped = 0 /\ begun.cursor = 0 /\ begun.out = {}
        /\ begun.offset = walk.offset /\ begun.todo = walk.todo
        /\ begun.found = walk.found /\ begun.answer = walk.answer
    BY <2>2 DEF ListingOf!Walk
  <2> QED BY <1>1, <2>3, <2>4
<1>4. /\ refused \in ListingOf!Walk /\ refused.pc = "end" /\ refused.answer
           = "windowTooLarge"
      /\ refused.out = {}
      /\ refused.todo = walk.todo /\ refused.found = walk.found
  BY <1>1 DEF ListingOf!Walk
<1> HIDE DEF begun, refused
<1>5. walk.offset \in Nat /\ Cardinality({}) = 0 /\ IsFiniteSet({})
  BY <1>1, WalkFacts, FS_EmptySet
<1>6. /\ walk.offset = 0 => steady' = record \cap shown
      /\ walk.offset # 0 => steady' = steady
  BY DEF ListingOf!NextPage
<1>7. steady' \subseteq record /\ steady' \subseteq Listed
  BY <1>1, <1>6 DEF WalkTyped, ListingOf!TypeOK
<1>8. Batch' = Batch /\ walk'.out = {} /\ walk' \in ListingOf!Walk
  BY <1>1, <1>2, <1>3, <1>4 DEF Batch
<1>9. ListingOf!TypeOK'
  BY <1>1, <1>7, <1>8 DEF WalkTyped, ListingOf!TypeOK
<1>10. CASE ~ ListingOf!InWindow
  <2>1. walk' = refused
    BY <1>2, <1>10
  <2>2. WalkTyped'
    BY <1>1, <1>4, <1>5, <1>7, <1>8, <1>9, <2>1 DEF WalkTyped
  <2>3. Unshifted'
    BY <1>4, <2>1 DEF Unshifted, ListingOf!Walking
  <2> QED BY <2>2, <2>3 DEF WalkInv
<1>11. CASE ListingOf!InWindow
  <2>1. walk' = begun
    BY <1>2, <1>11
  <2>2. ListingOf!InWindow'
    BY <1>3, <1>11, <2>1 DEF ListingOf!InWindow
  <2>3. WalkTyped'
    <3>1. Cardinality({}) < WalkLimit /\ Cardinality({}) <= WalkLimit /\ 0 <= walk.offset
      BY <1>5, ListingNumbers
    <3> QED BY <1>1, <1>3, <1>5, <1>7, <1>8, <1>9, <2>1, <2>2, <3>1 DEF WalkTyped
  <2>4. ASSUME ~ shifted PROVE Unshifted'
    <3>1. Unshifted
      BY <2>4 DEF WalkInv
    <3>2. steady' \subseteq shown
      <4>1. CASE walk.offset = 0
        BY <1>6, <4>1
      <4>2. CASE walk.offset # 0
        <5>1. ListingOf!Walking
          BY <1>1, <1>5, <4>2 DEF ListingOf!Walking
        <5> QED BY <1>6, <3>1, <4>2, <5>1 DEF Unshifted
      <4> QED BY <4>1, <4>2
    <3>3. \A k \in Listed : k \in Nat /\ k > 0
      BY ListingNumbers
    <3>4. IsFiniteSet(shown) /\ shown \subseteq Listed
      BY <1>1 DEF WalkTyped, ListingOf!TypeOK
    <3>5. ASSUME NEW k \in Unmet'
          PROVE  k > 0 /\ Cardinality(Span(0, k)) + 0 > walk.offset
      <4>1. k \in steady' /\ k \in shown /\ k \in Listed
        BY <1>7, <3>2 DEF Unmet
      <4>2. Span(0, k) = Upto(k) /\ IsFiniteSet(Upto(k))
        <5>1. Span(0, k) = Upto(k) /\ Upto(k) \in SUBSET shown
          BY <3>3, <3>4 DEF Span, Upto
        <5> QED BY <3>4, <5>1, FS_Subset
      <4>3. Cardinality(Upto(k)) \in Nat
        BY <4>2, FS_CardinalityType
      <4>4. Cardinality(Upto(k)) > walk.offset
        <5>1. CASE walk.offset = 0
          <6>1. k \in Upto(k)
            BY <3>3, <4>1 DEF Upto
          <6>2. Cardinality(Upto(k)) # 0
            BY <4>2, <6>1, FS_EmptySet
          <6> QED BY <4>3, <5>1, <6>2
        <5>2. CASE walk.offset # 0
          <6>1. k \in Unmet
            BY <1>1, <1>3, <1>6, <2>1, <5>2 DEF Unmet
          <6> QED BY <1>1, <3>1, <6>1 DEF Unshifted, BetweenPages
        <5> QED BY <5>1, <5>2
      <4> QED BY <1>5, <3>3, <4>1, <4>2, <4>3, <4>4
    <3>6. Cardinality(Upto(0)) >= 0 + 0
      <4>1. Upto(0) \in SUBSET shown
        BY DEF Upto
      <4>2. Cardinality(Upto(0)) \in Nat
        BY <3>4, <4>1, Smaller
      <4> QED BY <4>2
    <3>7. Querying'
      <4>1. /\ walk'.cursor = 0 /\ walk'.skipped = 0 /\ walk'.offset = walk.offset
            /\ walk'.out = {} /\ Cardinality({}) = 0 /\ shown' = shown
        BY <1>1, <1>3, <1>5, <2>1
      <4> QED BY <3>5, <3>6, <4>1 DEF Querying, Span, Upto
    <3>8. walk'.pc = "query" /\ walk'.answer = "none" /\ shown' = shown
      BY <1>1, <1>3, <2>1
    <3> QED BY <3>2, <3>7, <3>8 DEF Unshifted
  <2> QED BY <1>1, <2>3, <2>4 DEF WalkInv
<1> QED BY <1>10, <1>11

LEMMA WalkFails == ASSUME WalkInv, ListingOf!Fail PROVE WalkInv'
<1> DEFINE failed == [walk EXCEPT !.pc = "end", !.answer = "failed"]
<1>1. /\ WalkTyped /\ walk \in ListingOf!Walk /\ walk' = failed
      /\ UNCHANGED <<listing, record, entry, shown, met, steady, shifted>>
  BY DEF WalkInv, WalkTyped, ListingOf!TypeOK, ListingOf!Fail
<1>2. /\ failed \in ListingOf!Walk /\ failed.pc = "end" /\ failed.answer = "failed"
      /\ failed.out = walk.out /\ failed.todo = walk.todo /\ failed.found = walk.found
  BY <1>1 DEF ListingOf!Walk
<1> HIDE DEF failed
<1>3. ListingOf!TypeOK'
  BY <1>1, <1>2 DEF WalkTyped, ListingOf!TypeOK
<1>4. Batch' = Batch
  BY <1>1, <1>2 DEF Batch
<1>5. WalkTyped'
  BY <1>1, <1>2, <1>3, <1>4 DEF WalkTyped
<1>6. Unshifted'
  BY <1>1, <1>2 DEF Unshifted, ListingOf!Walking
<1> QED BY <1>5, <1>6 DEF WalkInv

LEMMA AnswerStep == ASSUME WalkInv, ListingOf!Answer PROVE WalkInv'
<1> DEFINE turned == [walk EXCEPT !.pc = "idle", !.offset = @ + WalkLimit, !.out = {}]
           ended == [walk EXCEPT !.pc = "end", !.answer = "everyone"]
<1>1. /\ WalkTyped /\ walk \in ListingOf!Walk /\ walk.pc = "answer"
      /\ walk.answer = "none" /\ ListingOf!InWindow
      /\ met' = met \cup walk.out
      /\ UNCHANGED <<listing, record, entry, shown, steady, shifted>>
  BY DEF WalkInv, WalkTyped, ListingOf!TypeOK, ListingOf!Answer
<1>2. walk' = IF Cardinality(walk.out) = WalkLimit THEN turned ELSE ended
  BY CountedAlike, Zenon DEF ListingOf!Answer
<1>3. walk.offset + WalkLimit \in 0 .. MaxWindow /\ walk.offset + WalkLimit # 0
  <2>1. walk.offset \in Nat
    BY <1>1, WalkFacts
  <2> QED BY <1>1, <2>1, ListingNumbers DEF ListingOf!InWindow
<1>4. /\ turned \in ListingOf!Walk /\ turned.pc = "idle" /\ turned.out = {}
      /\ turned.offset = walk.offset + WalkLimit /\ turned.answer = "none"
      /\ turned.todo = walk.todo /\ turned.found = walk.found
  <2>1. walk \in ListingOf!Walk /\ {} \subseteq Listed
    BY <1>1
  <2>2. turned \in ListingOf!Walk
    BY <1>3, <2>1 DEF ListingOf!Walk
  <2>3. /\ turned.pc = "idle" /\ turned.out = {}
        /\ turned.offset = walk.offset + WalkLimit /\ turned.answer = walk.answer
        /\ turned.todo = walk.todo /\ turned.found = walk.found
    BY <2>1 DEF ListingOf!Walk
  <2> QED BY <1>1, <2>2, <2>3
<1>5. /\ ended \in ListingOf!Walk /\ ended.pc = "end" /\ ended.answer = "everyone"
      /\ ended.out = walk.out /\ ended.todo = walk.todo /\ ended.found = walk.found
  BY <1>1 DEF ListingOf!Walk
<1> HIDE DEF turned, ended
<1>6. met' \subseteq Listed
  BY <1>1, WalkFacts DEF WalkTyped, ListingOf!TypeOK
<1>7. Batch' = Batch /\ walk' \in ListingOf!Walk
  BY <1>2, <1>4, <1>5 DEF Batch
<1>8. ListingOf!TypeOK'
  BY <1>1, <1>6, <1>7 DEF WalkTyped, ListingOf!TypeOK
<1>9. CASE Cardinality(walk.out) = WalkLimit
  <2>1. walk' = turned
    BY <1>2, <1>9
  <2>2. WalkTyped'
    <3>1. IsFiniteSet({})
      BY FS_EmptySet
    <3> QED BY <1>1, <1>3, <1>4, <1>7, <1>8, <2>1, <3>1 DEF WalkTyped
  <2>3. ASSUME ~ shifted PROVE Unshifted'
    <3>1. Answering /\ (ListingOf!Walking => steady \subseteq shown)
      BY <1>1, <2>3 DEF WalkInv, Unshifted
    <3>2. steady' \subseteq shown'
      BY <1>1, <3>1 DEF ListingOf!Walking
    <3>3. Unmet' = Unmet
      BY <1>1, <1>4, <2>1 DEF Unmet
    <3>4. \A k \in Unmet : Cardinality(Upto(k)) > walk.offset + WalkLimit
      BY <1>9, <3>1 DEF Answering
    <3>5. BetweenPages'
      BY <1>1, <1>4, <2>1, <3>3, <3>4 DEF BetweenPages, Upto
    <3> QED BY <1>4, <2>1, <3>2, <3>5 DEF Unshifted
  <2> QED BY <1>1, <2>2, <2>3 DEF WalkInv
<1>10. CASE Cardinality(walk.out) # WalkLimit
  <2>1. walk' = ended
    BY <1>2, <1>10
  <2>2. WalkTyped'
    BY <1>1, <1>5, <1>7, <1>8, <2>1 DEF WalkTyped
  <2>3. ASSUME ~ shifted PROVE Unshifted'
    <3>1. Unmet = {}
      BY <1>1, <1>10, <2>3 DEF WalkInv, Unshifted, Answering
    <3>2. steady' \subseteq met'
      BY <1>1, <3>1 DEF Unmet
    <3> QED BY <1>5, <2>1, <3>2 DEF Unshifted, ListingOf!Walking
  <2> QED BY <1>1, <2>2, <2>3 DEF WalkInv
<1> QED BY <1>9, <1>10

(* A call that leaves keys to be asked for again. *)
LEMMA ResolveSome ==
  ASSUME WalkInv, NEW processed \in SUBSET walk.todo, ListingOf!Resolve(processed),
         processed # walk.todo
  PROVE  WalkInv'
<1> DEFINE found == walk.found \cup (processed \cap record)
           todo == walk.todo \ processed
           asked == [walk EXCEPT !.todo = todo, !.found = found]
<1>1. /\ WalkTyped /\ walk \in ListingOf!Walk /\ walk.pc = "resolve" /\ walk.answer = "none"
      /\ UNCHANGED <<listing, record, entry, shown, met, steady, shifted>>
  BY DEF WalkInv, WalkTyped, ListingOf!TypeOK, ListingOf!Resolve
<1>2. walk' = asked
  BY Zenon DEF ListingOf!Resolve
<1>3. walk.todo \subseteq Listed /\ walk.found \subseteq Listed
  BY <1>1, WalkFacts
<1>4. found \subseteq Listed /\ todo \subseteq Listed /\ todo \cup found \subseteq Batch
  BY <1>3 DEF Batch
<1>5. /\ asked \in ListingOf!Walk /\ asked.pc = "resolve" /\ asked.answer = "none"
      /\ asked.offset = walk.offset /\ asked.skipped = walk.skipped
      /\ asked.cursor = walk.cursor /\ asked.last = walk.last /\ asked.out = walk.out
      /\ asked.todo = todo /\ asked.found = found
  <2> HIDE DEF todo, found
  <2> QED BY <1>1, <1>4 DEF ListingOf!Walk
<1> HIDE DEF asked
<1>6. Batch' = todo \cup found
  BY <1>2, <1>5 DEF Batch
<1>7. IsFiniteSet(Batch') /\ Batch' \subseteq Batch
  BY <1>1, <1>4, <1>6, FS_Subset DEF WalkTyped
<1>8. ListingOf!TypeOK' /\ (ListingOf!InWindow' <=> ListingOf!InWindow)
  BY <1>1, <1>2, <1>5 DEF WalkTyped, ListingOf!TypeOK, ListingOf!InWindow
<1>9. WalkTyped'
  BY <1>1, <1>2, <1>5, <1>7, <1>8 DEF WalkTyped
<1>10. ASSUME ~ shifted PROVE Unshifted'
  <2>1. Resolving /\ steady \subseteq shown /\ walk.answer # "everyone"
    BY <1>1, <1>10 DEF WalkInv, Unshifted, ListingOf!Walking
  <2>2. Unmet' = Unmet /\ Unmet \subseteq record
    BY <1>1, <1>2, <1>5 DEF Unmet, WalkTyped
  <2>3. \A k \in Unmet : k \in Batch => k \in Batch'
    BY <1>6, <2>2 DEF Batch
  <2>4. Cardinality(walk.out) \in Nat /\ walk.offset \in Nat /\ IsFiniteSet(shown)
    BY <1>1, FS_CardinalityType, WalkFacts DEF WalkTyped
  <2>5. ASSUME NEW k \in Batch'
        PROVE  Cardinality(Ahead(k)') >= walk.offset + Cardinality(walk.out)
    <3>1. Cardinality(Ahead(k)) >= walk.offset + Cardinality(walk.out)
      BY <1>7, <2>1 DEF Resolving
    <3>2. Ahead(k) \subseteq Ahead(k)' /\ Ahead(k)' \in SUBSET shown
      BY <1>1, <1>7 DEF Ahead
    <3>3. IsFiniteSet(Ahead(k)')
      BY <2>4, <3>2, FS_Subset
    <3>4. /\ Cardinality(Ahead(k)) \in Nat /\ Cardinality(Ahead(k)') \in Nat
          /\ Cardinality(Ahead(k)) <= Cardinality(Ahead(k)')
      BY <3>2, <3>3, Smaller
    <3> QED BY <2>4, <3>1, <3>4
  <2>6. Cardinality(Passed') >= walk.offset + Cardinality(walk.out)
    <3>1. Cardinality(Passed) >= walk.offset + Cardinality(walk.out)
      BY <2>1 DEF Resolving
    <3>2. Passed \subseteq Passed' /\ Passed' \in SUBSET shown
      BY <1>1, <1>2, <1>5, <1>7 DEF Passed
    <3>3. IsFiniteSet(Passed')
      BY <2>4, <3>2, FS_Subset
    <3>4. /\ Cardinality(Passed) \in Nat /\ Cardinality(Passed') \in Nat
          /\ Cardinality(Passed) <= Cardinality(Passed')
      BY <3>2, <3>3, Smaller
    <3> QED BY <2>4, <3>1, <3>4
  <2>7. Resolving'
    <3>1. /\ walk'.skipped = walk'.offset /\ Batch' \subseteq shown
          /\ walk.out \cap Batch' = {}
          /\ \A k \in walk.out \cup Batch' : k <= walk.cursor
      BY <1>2, <1>5, <1>7, <2>1 DEF Resolving
    <3>2. \A k \in Unmet' : k \in Batch' \/ k > walk.cursor
      BY <2>1, <2>2, <2>3 DEF Resolving
    <3>3. walk.last => Unmet' \subseteq Batch'
      BY <2>1, <2>2, <2>3 DEF Resolving
    <3>4. /\ walk'.out = walk.out /\ walk'.cursor = walk.cursor /\ walk'.last = walk.last
          /\ walk'.offset = walk.offset /\ shown' = shown
      BY <1>1, <1>2, <1>5
    <3>5. \A k \in Batch' : Cardinality(Ahead(k)') >= walk'.offset + Cardinality(walk'.out)
      BY <2>5, <3>4
    <3>6. Cardinality(Passed') >= walk'.offset + Cardinality(walk'.out)
      BY <2>6, <3>4
    <3> QED BY <3>1, <3>2, <3>3, <3>4, <3>5, <3>6 DEF Resolving
  <2> QED BY <1>1, <1>2, <1>5, <2>1, <2>7 DEF Unshifted
<1> QED BY <1>1, <1>9, <1>10 DEF WalkInv

(* The call that leaves none: the page takes what it has room for. *)
LEMMA ResolveAll ==
  ASSUME WalkInv, ListingOf!Resolve(walk.todo)
  PROVE  WalkInv'
<1> DEFINE found == walk.found \cup (walk.todo \cap record)
           room == WalkLimit - Cardinality(walk.out)
           fresh == ListingOf!First(room, found)
           out == walk.out \cup fresh
           filled == Cardinality(out) = WalkLimit \/ walk.last
           state == IF filled THEN "answer" ELSE "query"
           taken == [walk EXCEPT !.pc = state, !.todo = {}, !.found = {}, !.out = out]
<1>1. /\ WalkTyped /\ walk \in ListingOf!Walk /\ walk.pc = "resolve" /\ walk.answer = "none"
      /\ Cardinality(walk.out) < WalkLimit /\ IsFiniteSet(walk.out) /\ IsFiniteSet(Batch)
      /\ IsFiniteSet(shown) /\ shown \subseteq Listed /\ steady \subseteq record
      /\ ListingOf!InWindow /\ walk.skipped <= walk.offset
      /\ UNCHANGED <<listing, record, entry, shown, met, steady, shifted>>
  BY DEF WalkInv, WalkTyped, ListingOf!TypeOK, ListingOf!Resolve
<1>2. walk' = taken
  <2>1. ListingOf!Filled(out, walk.last) <=> filled
    BY CountedAlike DEF ListingOf!Filled
  <2>2. ListingOf!First(WalkLimit - ListingOf!Cardinality(walk.out), found) = fresh
    BY CountedAlike
  <2>3. walk' = [walk EXCEPT
                   !.pc = IF ListingOf!Filled(out, walk.last) THEN "answer" ELSE "query",
                   !.todo = {}, !.found = {}, !.out = out]
    BY <2>2, Zenon DEF ListingOf!Resolve
  <2> QED BY <2>1, <2>3
<1>3. /\ walk.todo \subseteq Listed /\ walk.found \subseteq Listed
      /\ walk.out \subseteq Listed
      /\ walk.offset \in Nat /\ walk.skipped \in Nat /\ walk.cursor \in Nat
      /\ walk.last \in BOOLEAN
  BY <1>1, WalkFacts
<1>4. found \subseteq Batch /\ found \in SUBSET Listed /\ IsFiniteSet(found)
  <2>1. found \subseteq Batch /\ found \in SUBSET Listed
    BY <1>3 DEF Batch
  <2> QED BY <1>1, <2>1, FS_Subset
<1>5. Cardinality(walk.out) \in Nat /\ room \in Nat \ {0} /\ WalkLimit \in Nat
  BY <1>1, FS_CardinalityType, ListingNumbers
<1>6. /\ fresh \subseteq found /\ IsFiniteSet(fresh) /\ Cardinality(fresh) \in 0 .. room
      /\ fresh # found => Cardinality(fresh) = room
      /\ \A g \in fresh, e \in found \ fresh : g < e
  <2> HIDE DEF found, room
  <2> QED BY <1>4, <1>5, FirstKeys
<1>7. /\ IsFiniteSet(out) /\ out \subseteq Listed
      /\ Cardinality(out) \in Nat
      /\ Cardinality(out) <= Cardinality(walk.out) + Cardinality(fresh)
      /\ walk.out \cap fresh = {} =>
           Cardinality(out) = Cardinality(walk.out) + Cardinality(fresh)
  <2> HIDE DEF fresh
  <2>1. /\ IsFiniteSet(walk.out \cup fresh)
        /\ Cardinality(walk.out \cup fresh)
             = Cardinality(walk.out) + Cardinality(fresh) - Cardinality(walk.out \cap fresh)
    BY <1>1, <1>6, FS_Union
  <2>2. IsFiniteSet(walk.out \cap fresh) /\ Cardinality(walk.out \cap fresh) \in Nat
    <3>1. IsFiniteSet(walk.out \cap fresh)
      BY <1>1, FS_Subset
    <3> QED BY <3>1, FS_CardinalityType
  <2>3. walk.out \cap fresh = {} => Cardinality(walk.out \cap fresh) = 0
    BY FS_EmptySet
  <2>4. out \subseteq Listed
    BY <1>3, <1>4, <1>6
  <2>5. Cardinality(out) \in Nat
    BY <2>1, FS_CardinalityType
  <2>6. Cardinality(fresh) \in Nat
    BY <1>6, FS_CardinalityType
  <2> QED BY <1>5, <2>1, <2>2, <2>3, <2>4, <2>5, <2>6
<1>8. Cardinality(out) <= WalkLimit
  <2>1. Cardinality(fresh) \in Nat /\ Cardinality(fresh) <= room
    BY <1>5, <1>6
  <2> QED BY <1>5, <1>7, <2>1
<1>9. /\ taken \in ListingOf!Walk /\ taken.pc = state /\ taken.out = out
      /\ taken.todo = {} /\ taken.found = {} /\ taken.answer = "none"
      /\ taken.offset = walk.offset /\ taken.skipped = walk.skipped
      /\ taken.cursor = walk.cursor
  <2>1. state \in {"answer", "query"} /\ out \subseteq Listed /\ {} \subseteq Listed
    BY <1>7
  <2> HIDE DEF state, out
  <2> QED BY <1>1, <2>1 DEF ListingOf!Walk
<1> HIDE DEF taken
<1>10. Batch' = {}
  BY <1>2, <1>9 DEF Batch
<1>11. ListingOf!TypeOK' /\ (ListingOf!InWindow' <=> ListingOf!InWindow)
  BY <1>1, <1>2, <1>9 DEF WalkTyped, ListingOf!TypeOK, ListingOf!InWindow
<1>12. WalkTyped'
  <2>1. IsFiniteSet({})
    BY FS_EmptySet
  <2>2. state = "query" => Cardinality(out) < WalkLimit
    BY <1>5, <1>7, <1>8
  <2>3. state \in {"answer", "query"}
    OBVIOUS
  <2>4. /\ walk'.pc = state /\ walk'.out = out /\ walk'.answer = "none"
        /\ walk'.offset = walk.offset /\ walk'.skipped = walk.skipped
    BY <1>2, <1>9
  <2> HIDE DEF state, out
  <2> QED BY <1>1, <1>7, <1>8, <1>10, <1>11, <2>1, <2>2, <2>3, <2>4 DEF WalkTyped
<1>13. ASSUME ~ shifted PROVE Unshifted'
  <2>1. Resolving /\ steady \subseteq shown
    BY <1>1, <1>13 DEF WalkInv, Unshifted, ListingOf!Walking
  <2>2. walk.out \cap fresh = {} /\ fresh \subseteq Batch /\ Batch \subseteq shown
    BY <1>4, <1>6, <2>1 DEF Resolving
  <2>3. Cardinality(out) = Cardinality(walk.out) + Cardinality(fresh)
    BY <1>7, <2>2
  <2>4. Cardinality(fresh) \in Nat
    BY <1>6, FS_CardinalityType
  (* What the page had no room for.  *)
  <2>5. ASSUME NEW k \in Batch, k \in steady, k \notin fresh
        PROVE  /\ Cardinality(out) = WalkLimit
               /\ Cardinality(Upto(k)) > walk.offset + WalkLimit
    <3>1. k \in found /\ k \in found \ fresh
      BY <1>1, <2>5 DEF Batch
    <3>2. Cardinality(fresh) = room /\ \A g \in fresh : g < k
      BY <1>6, <3>1
    <3>3. Cardinality(out) = WalkLimit
      BY <1>5, <2>3, <3>2
    <3>4. /\ Ahead(k) \cap fresh = {} /\ Ahead(k) \cup fresh \subseteq Upto(k) \ {k}
          /\ Ahead(k) \in SUBSET shown /\ Upto(k) \in SUBSET shown /\ k \in Upto(k)
      <4>1. \A j \in shown : j \in Nat
        BY <1>1, ListingNumbers
      <4>2. k \in shown /\ k \in Nat
        BY <2>2, <2>5, <4>1
      <4>3. \A j \in shown : j < k => j <= k /\ j # k
        BY <4>1, <4>2
      <4>4. k \in Upto(k)
        BY <4>2 DEF Upto
      <4>5. Ahead(k) \subseteq Upto(k) \ {k}
        BY <4>3 DEF Ahead, Upto
      <4>6. fresh \subseteq Upto(k) \ {k}
        BY <2>2, <3>2, <4>3 DEF Upto
      <4>7. Ahead(k) \cap fresh = {}
        BY <2>2 DEF Ahead
      <4>8. Ahead(k) \in SUBSET shown /\ Upto(k) \in SUBSET shown
        BY DEF Ahead, Upto
      <4> QED BY <4>4, <4>5, <4>6, <4>7, <4>8
    <3>5. IsFiniteSet(Ahead(k)) /\ IsFiniteSet(Upto(k))
      BY <1>1, <3>4, FS_Subset
    <3>6. Cardinality(Ahead(k) \cup fresh) = Cardinality(Ahead(k)) + Cardinality(fresh)
      <4>1. Cardinality(Ahead(k) \cap fresh) = 0
        BY <3>4, FS_EmptySet
      <4>2. Cardinality(Ahead(k) \cup fresh)
              = Cardinality(Ahead(k)) + Cardinality(fresh)
                  - Cardinality(Ahead(k) \cap fresh)
        BY <1>6, <3>5, FS_Union
      <4>3. Cardinality(Ahead(k)) \in Nat
        BY <3>5, FS_CardinalityType
      <4> QED BY <2>4, <4>1, <4>2, <4>3
    <3>7. /\ Cardinality(Upto(k)) \in Nat /\ IsFiniteSet(Upto(k) \ {k})
          /\ Cardinality(Upto(k) \ {k}) = Cardinality(Upto(k)) - 1
      BY <3>4, <3>5, FS_RemoveElement, FS_CardinalityType
    <3>8. Cardinality(Ahead(k) \cup fresh) <= Cardinality(Upto(k) \ {k})
      BY <3>4, <3>7, Smaller
    <3>9. Cardinality(Ahead(k)) >= walk.offset + Cardinality(walk.out)
      BY <2>1 DEF Resolving
    <3>10. Cardinality(Ahead(k)) \in Nat
      BY <3>5, FS_CardinalityType
    <3> QED BY <1>3, <1>5, <3>2, <3>3, <3>6, <3>7, <3>8, <3>9, <3>10
  (* All that was passed, with what the page takes of the batch.  *)
  <2>6. /\ Cardinality(Upto(walk.cursor)) \in Nat
        /\ Cardinality(Upto(walk.cursor)) >= walk.offset + Cardinality(out)
    <3>1. /\ Passed \cap fresh = {} /\ Passed \cup fresh \subseteq Upto(walk.cursor)
          /\ Passed \in SUBSET shown /\ Upto(walk.cursor) \in SUBSET shown
      BY <2>1, <2>2 DEF Passed, Upto, Resolving
    <3>2. IsFiniteSet(Passed) /\ IsFiniteSet(Upto(walk.cursor))
      BY <1>1, <3>1, FS_Subset
    <3>3. Cardinality(Passed) \in Nat
      BY <3>2, FS_CardinalityType
    <3>4. Cardinality(Passed \cup fresh) = Cardinality(Passed) + Cardinality(fresh)
      <4>1. Cardinality(Passed \cap fresh) = 0
        BY <3>1, FS_EmptySet
      <4>2. Cardinality(Passed \cup fresh)
              = Cardinality(Passed) + Cardinality(fresh) - Cardinality(Passed \cap fresh)
        BY <1>6, <3>2, FS_Union
      <4> QED BY <2>4, <3>3, <4>1, <4>2
    <3>5. /\ Cardinality(Upto(walk.cursor)) \in Nat
          /\ Cardinality(Passed \cup fresh) <= Cardinality(Upto(walk.cursor))
      BY <3>1, <3>2, Smaller
    <3>6. Cardinality(Passed) >= walk.offset + Cardinality(walk.out)
      BY <2>1 DEF Resolving
    <3> QED BY <1>3, <1>5, <2>3, <2>4, <3>3, <3>4, <3>5, <3>6
  <2>7. /\ walk'.pc = state /\ walk'.out = out /\ walk'.answer = "none"
        /\ walk'.offset = walk.offset /\ walk'.skipped = walk.offset
        /\ walk'.cursor = walk.cursor /\ shown' = shown
    BY <1>1, <1>2, <1>9, <2>1 DEF Resolving
  <2>8. \A k \in Unmet' : /\ k \in steady /\ k \notin fresh /\ k \in Unmet
                          /\ k \in Batch \/ k > walk.cursor
    <3> TAKE k \in Unmet'
    <3>1. k \in steady /\ k \notin fresh /\ k \in Unmet
      BY <1>1, <2>7 DEF Unmet
    <3> QED BY <2>1, <3>1 DEF Resolving
  <2>9. ASSUME NEW k \in Unmet', k > walk.cursor
        PROVE  /\ Cardinality(Upto(k)) \in Nat
               /\ Cardinality(Upto(k)) > Cardinality(Upto(walk.cursor))
               /\ Cardinality(Span(walk.cursor, k)) \in Nat \ {0}
    <3>1. k \in shown /\ k \in Nat /\ \A j \in shown : j \in Nat
      BY <1>1, <2>1, <2>8, ListingNumbers
    <3>2. /\ Upto(walk.cursor) \subseteq Upto(k) /\ k \in Upto(k)
          /\ k \notin Upto(walk.cursor) /\ k \in Span(walk.cursor, k)
          /\ Upto(k) \in SUBSET shown /\ Span(walk.cursor, k) \in SUBSET shown
      BY <1>3, <2>9, <3>1 DEF Upto, Span
    <3>3. IsFiniteSet(Upto(k)) /\ IsFiniteSet(Span(walk.cursor, k))
      BY <1>1, <3>2, FS_Subset
    <3>4. /\ Cardinality(Upto(k)) \in Nat
          /\ Cardinality(Upto(walk.cursor)) <= Cardinality(Upto(k))
      BY <3>2, <3>3, Smaller
    <3>5. Cardinality(Upto(walk.cursor)) # Cardinality(Upto(k))
      BY <3>2, <3>3, FS_Subset
    <3>6. Cardinality(Span(walk.cursor, k)) \in Nat /\ Cardinality(Span(walk.cursor, k)) # 0
      BY <3>2, <3>3, FS_CardinalityType, FS_EmptySet
    <3> QED BY <2>6, <3>4, <3>5, <3>6
  <2>10. CASE state = "query"
    <3>1. Cardinality(out) # WalkLimit
      BY <2>10
    <3>2. \A k \in Unmet' : k > walk.cursor
      BY <2>5, <2>8, <3>1
    <3>3. \A k \in Unmet' : Cardinality(Span(walk.cursor, k)) + walk.offset > walk.offset
      BY <1>3, <2>9, <3>2
    <3>4. \A k \in out : k <= walk.cursor
      BY <2>1, <2>2 DEF Resolving
    <3> HIDE DEF out, state
    <3>5. Querying'
      BY <2>6, <2>7, <3>2, <3>3, <3>4 DEF Querying, Span, Upto
    <3> QED BY <1>1, <2>1, <2>7, <2>10, <3>5 DEF Unshifted
  <2>11. CASE state = "answer"
    <3>1. ASSUME Cardinality(out) = WalkLimit, NEW k \in Unmet'
          PROVE  Cardinality(Upto(k)) > walk.offset + WalkLimit
      <4>1. CASE k \in Batch
        BY <2>5, <2>8, <4>1
      <4>2. CASE k > walk.cursor
        BY <1>3, <1>5, <2>6, <2>9, <3>1, <4>2
      <4> QED BY <2>8, <4>1, <4>2
    <3>2. ASSUME Cardinality(out) # WalkLimit PROVE Unmet' = {}
      <4>1. walk.last
        BY <2>11, <3>2
      <4>2. \A k \in Unmet' : k \in Batch
        BY <2>1, <2>8, <4>1 DEF Resolving
      <4>3. \A k \in Unmet' : FALSE
        BY <2>5, <2>8, <3>2, <4>2
      <4> QED BY <4>3
    <3> HIDE DEF out, state
    <3>3. Answering'
      BY <2>7, <3>1, <3>2 DEF Answering, Upto
    <3> QED BY <1>1, <2>1, <2>7, <2>11, <3>3 DEF Unshifted
  <2>12. state = "query" \/ state = "answer"
    OBVIOUS
  <2> QED BY <2>10, <2>11, <2>12
<1> QED BY <1>1, <1>12, <1>13 DEF WalkInv

LEMMA QueryStep ==
  ASSUME WalkInv, ListingOf!Query
  PROVE  WalkInv'
<1> DEFINE rest == {k \in shown : k > walk.cursor}
           within == walk.offset - walk.skipped
           size == WalkLimit - Cardinality(walk.out) + within
           want == ListingOf!Min({MaxBatch, size})
           page == ListingOf!First(want, rest)
           drop == ListingOf!Min({within, Cardinality(page)})
           dropped == ListingOf!First(drop, page)
           entries == page \ dropped
           last == Cardinality(page) < want
           state == IF entries # {} THEN "resolve" ELSE IF last THEN "answer" ELSE "query"
           skipped == walk.skipped + drop
           cursor == IF page = {} THEN walk.cursor ELSE ListingOf!Max(page)
           read == [walk EXCEPT !.pc = state, !.skipped = skipped, !.cursor = cursor,
                     !.last = last, !.todo = entries, !.found = {}]
<1>1. /\ WalkTyped /\ walk \in ListingOf!Walk /\ walk.pc = "query" /\ walk.answer = "none"
      /\ Cardinality(walk.out) < WalkLimit /\ IsFiniteSet(walk.out)
      /\ IsFiniteSet(shown) /\ shown \subseteq Listed /\ steady \subseteq record
      /\ ListingOf!InWindow /\ walk.skipped <= walk.offset
      /\ UNCHANGED <<listing, record, entry, shown, met, steady, shifted>>
  BY DEF WalkInv, WalkTyped, ListingOf!TypeOK, ListingOf!Query
<1>2. walk' = read
  BY CountedAlike, Zenon DEF ListingOf!Query, ListingOf!Want
<1>3. /\ walk.out \subseteq Listed
      /\ walk.offset \in Nat /\ walk.skipped \in Nat /\ walk.cursor \in Nat
      /\ walk.offset \in 0 .. MaxWindow /\ walk.cursor \in Listed \cup {0}
  BY <1>1, WalkFacts
<1>4. /\ Cardinality(walk.out) \in Nat /\ within \in Nat /\ size \in Nat \ {0}
      /\ MaxBatch \in Nat \ {0}
  BY <1>1, <1>3, FS_CardinalityType, ListingNumbers
<1>5. want \in Nat \ {0}
  <2> HIDE DEF size
  <2>0. MaxBatch \in Int /\ size \in Int
    BY <1>4
  <2>1. want \in {MaxBatch, size}
    BY <2>0, LesserOf
  <2> QED BY <1>4, <2>1
<1>6. /\ page \subseteq rest /\ IsFiniteSet(page) /\ Cardinality(page) \in 0 .. want
      /\ page # rest => Cardinality(page) = want
      /\ \A g \in page, e \in rest \ page : g < e
      /\ page \in SUBSET Listed /\ Cardinality(page) \in Nat
  <2>1. rest \in SUBSET Listed /\ IsFiniteSet(rest) /\ want \in Nat
    BY <1>1, <1>5, FS_Subset
  <2> HIDE DEF rest, want
  <2> QED BY <2>1, FirstKeys, FS_CardinalityType
<1>7. /\ drop \in Nat /\ drop <= within /\ drop <= Cardinality(page)
      /\ drop = within \/ drop = Cardinality(page)
  <2> HIDE DEF page, within
  <2>0. within \in Int /\ Cardinality(page) \in Int
    BY <1>4, <1>6
  <2>1. /\ drop \in {within, Cardinality(page)}
        /\ drop <= within /\ drop <= Cardinality(page)
    BY <2>0, LesserOf
  <2> QED BY <1>4, <1>6, <2>1
<1>8. /\ dropped \subseteq page /\ IsFiniteSet(dropped)
      /\ Cardinality(dropped) = drop
      /\ \A g \in dropped, e \in page \ dropped : g < e
  <2> HIDE DEF page, drop
  <2>1. /\ dropped \subseteq page /\ IsFiniteSet(dropped)
        /\ Cardinality(dropped) \in 0 .. drop
        /\ dropped # page => Cardinality(dropped) = drop
        /\ \A g \in dropped, e \in page \ dropped : g < e
    BY <1>6, <1>7, FirstKeys
  <2>2. dropped = page => Cardinality(dropped) = drop
    <3> SUFFICES ASSUME dropped = page PROVE Cardinality(dropped) = drop
      OBVIOUS
    <3>1. Cardinality(dropped) = Cardinality(page) /\ Cardinality(dropped) <= drop
      BY <1>7, <2>1
    <3> QED BY <1>6, <1>7, <3>1
  <2> QED BY <2>1, <2>2
<1>9. entries # {} => drop = within
  <2> SUFFICES ASSUME entries # {} PROVE drop # Cardinality(page)
    BY <1>7
  <2>1. dropped # page
    OBVIOUS
  <2> HIDE DEF page, dropped, drop
  <2> QED BY <1>6, <1>8, <2>1, FS_Subset
<1>10. entries = {} => dropped = page
  BY <1>8
<1>11. /\ skipped \in 0 .. MaxWindow /\ skipped <= walk.offset
       /\ entries # {} => skipped = walk.offset
  <2>1. /\ drop \in Nat /\ drop <= walk.offset - walk.skipped
        /\ entries # {} => drop = walk.offset - walk.skipped
    BY <1>7, <1>9
  <2>2. MaxWindow \in Nat
    BY ListingNumbers
  <2> HIDE DEF entries, drop
  <2>3. skipped \in 0 .. MaxWindow /\ skipped <= walk.offset
    BY <1>3, <2>1, <2>2
  <2>4. entries # {} => skipped = walk.offset
    BY <1>3, <2>1
  <2> QED BY <2>3, <2>4
<1>12. /\ page # {} => cursor \in page /\ \A k \in page : k <= cursor
       /\ page = {} => cursor = walk.cursor
       /\ cursor \in Listed \cup {0} /\ cursor \in Nat /\ walk.cursor <= cursor
  <2>1. CASE page = {}
    <3> HIDE DEF page
    <3>1. cursor = walk.cursor
      BY <2>1
    <3> HIDE DEF cursor
    <3>2. walk.cursor <= walk.cursor
      BY <1>3
    <3> QED BY <1>3, <2>1, <3>1, <3>2
  <2>2. CASE page # {}
    <3> HIDE DEF page
    <3>1. ListingOf!Max(page) \in page /\ \A k \in page : k <= ListingOf!Max(page)
      BY <1>6, <2>2, LastKey
    <3>2. ListingOf!Max(page) \in Listed /\ ListingOf!Max(page) \in Nat
          /\ ListingOf!Max(page) > walk.cursor
      BY <1>6, <3>1, ListingNumbers
    <3> QED BY <1>3, <2>2, <3>1, <3>2
  <2> QED BY <2>1, <2>2
<1>13. /\ read \in ListingOf!Walk /\ read.pc = state /\ read.skipped = skipped
       /\ read.cursor = cursor /\ read.last = last /\ read.todo = entries /\ read.found = {}
       /\ read.out = walk.out /\ read.offset = walk.offset /\ read.answer = "none"
  <2>1. /\ state \in {"resolve", "answer", "query"} /\ last \in BOOLEAN
        /\ entries \subseteq Listed /\ {} \subseteq Listed
    <3>1. state \in {"resolve", "answer", "query"} /\ last \in BOOLEAN
      OBVIOUS
    <3> HIDE DEF page, dropped, state, last
    <3>2. entries \subseteq Listed
      BY <1>6
    <3> QED BY <3>1, <3>2
  <2> HIDE DEF state, last, entries, skipped, cursor
  <2> QED BY <1>1, <1>11, <1>12, <2>1 DEF ListingOf!Walk
<1> HIDE DEF read
<1>14. Batch' = entries /\ IsFiniteSet(entries) /\ entries \in SUBSET shown
  <2>1. Batch' = entries
    BY <1>2, <1>13 DEF Batch
  <2>2. entries \in SUBSET page /\ entries \in SUBSET shown
    BY <1>6
  <2> HIDE DEF entries, page
  <2> QED BY <1>6, <2>1, <2>2, FS_Subset
<1>15. ListingOf!TypeOK' /\ (ListingOf!InWindow' <=> ListingOf!InWindow)
  BY <1>1, <1>2, <1>13 DEF WalkTyped, ListingOf!TypeOK, ListingOf!InWindow
<1>16. /\ walk'.pc = state /\ walk'.out = walk.out /\ walk'.answer = "none"
       /\ walk'.offset = walk.offset /\ walk'.skipped = skipped
       /\ walk'.cursor = cursor /\ walk'.last = last /\ shown' = shown
       /\ Unmet' = Unmet
  BY <1>1, <1>2, <1>13 DEF Unmet
<1>17. state \in {"resolve", "answer", "query"}
  OBVIOUS
<1>18. WalkTyped'
  <2> HIDE DEF state, entries, skipped, cursor, last
  <2>1. Cardinality(walk.out) <= WalkLimit
    BY <1>1, <1>4, ListingNumbers
  <2> QED BY <1>1, <1>11, <1>14, <1>15, <1>16, <1>17, <2>1 DEF WalkTyped
<1>19. ASSUME ~ shifted PROVE Unshifted'
  <2>1. Querying /\ steady \subseteq shown
    BY <1>1, <1>19 DEF WalkInv, Unshifted, ListingOf!Walking
  <2>2. \A k \in shown : k \in Nat
    BY <1>1, ListingNumbers
  <2>3. \A k \in Unmet : k \in rest
    BY <2>1 DEF Unmet, Querying
  (* The keys before one that is read, or dropped, are so too.  *)
  <2>4. \A k \in dropped : Span(walk.cursor, k) \subseteq dropped
    <3> SUFFICES ASSUME NEW k \in dropped, NEW j \in Span(walk.cursor, k)
                 PROVE  j \in dropped
      OBVIOUS
    <3>1. k \in page /\ k \in Nat /\ j \in rest /\ j <= k /\ j \in Nat
      BY <1>3, <1>6, <1>8, <2>2 DEF Span
    <3>2. ~ (k < j)
      BY <3>1
    <3>3. j \in page
      BY <1>6, <3>1, <3>2
    <3> QED BY <1>8, <3>2, <3>3
  <2>5. \A k \in Unmet : k \notin dropped
    <3> SUFFICES ASSUME NEW k \in Unmet, k \in dropped PROVE FALSE
      OBVIOUS
    <3> HIDE DEF dropped, drop
    <3>1. Span(walk.cursor, k) \in SUBSET dropped
      BY <2>4
    <3>2. /\ Cardinality(Span(walk.cursor, k)) \in Nat
          /\ Cardinality(Span(walk.cursor, k)) <= drop
      BY <1>8, <3>1, Smaller
    <3>3. Cardinality(Span(walk.cursor, k)) + walk.skipped > walk.offset
      BY <2>1 DEF Querying
    <3> QED BY <1>3, <1>7, <3>2, <3>3
  <2>6. \A k \in Unmet : k \in entries \/ k \in rest \ page
    BY <2>3, <2>5
  <2>7. last => page = rest
    <3>1. last => Cardinality(page) < want
      OBVIOUS
    <3> HIDE DEF last, page, rest, want
    <3> QED BY <1>5, <1>6, <3>1
  <2>8. page # {} => \A k \in rest \ page : k > cursor
    BY <1>6, <1>12
  (* What the walk has passed, with what this page drops.  *)
  <2> DEFINE behind == Upto(walk.cursor) \cup dropped
  <2>9. /\ IsFiniteSet(behind) /\ Cardinality(behind) \in Nat
        /\ Cardinality(behind) >= skipped + Cardinality(walk.out)
        /\ behind \subseteq shown /\ \A j \in behind : j <= cursor
        /\ behind \cap entries = {} /\ \A j \in behind, k \in entries : j < k
    <3>1. Upto(walk.cursor) \in SUBSET shown
      BY DEF Upto
    <3>2. IsFiniteSet(Upto(walk.cursor)) /\ Cardinality(Upto(walk.cursor)) \in Nat
      BY <1>1, <3>1, Smaller, FS_Subset
    <3>3. \A j \in page : j \in shown /\ j \in Nat /\ j > walk.cursor
      BY <1>6, <2>2
    <3>4. \A j \in Upto(walk.cursor) : j \in Nat /\ j <= walk.cursor
      BY <2>2 DEF Upto
    <3>5. Upto(walk.cursor) \cap dropped = {}
      <4> HIDE DEF page, dropped
      <4> SUFFICES ASSUME NEW j \in Upto(walk.cursor), j \in page PROVE FALSE
        BY <1>8
      <4>1. j \in Nat /\ j <= walk.cursor /\ j > walk.cursor
        BY <3>3, <3>4
      <4> QED BY <1>3, <4>1
    <3>6. Cardinality(behind) = Cardinality(Upto(walk.cursor)) + drop /\ IsFiniteSet(behind)
      <4> HIDE DEF dropped, drop
      <4>1. Cardinality(Upto(walk.cursor) \cap dropped) = 0
        BY <3>5, FS_EmptySet
      <4>2. /\ IsFiniteSet(behind)
            /\ Cardinality(behind)
                 = Cardinality(Upto(walk.cursor)) + Cardinality(dropped)
                     - Cardinality(Upto(walk.cursor) \cap dropped)
        BY <1>8, <3>2, FS_Union
      <4> QED BY <1>7, <1>8, <3>2, <4>1, <4>2
    <3>7. behind \subseteq shown
      BY <1>8, <3>1, <3>3
    <3>8. \A j \in behind : j <= cursor
      <4> TAKE j \in behind
      <4>1. CASE j \in Upto(walk.cursor)
        <5> HIDE DEF cursor
        <5>1. j \in Nat /\ j <= walk.cursor
          BY <3>4, <4>1
        <5> QED BY <1>3, <1>12, <5>1
      <4>2. CASE j \in dropped
        BY <1>8, <1>12, <4>2
      <4> QED BY <4>1, <4>2
    <3>9. \A j \in behind, k \in entries : j < k
      <4> TAKE j \in behind, k \in entries
      <4>1. k \in page /\ k \in Nat /\ k > walk.cursor
        BY <3>3
      <4>2. CASE j \in Upto(walk.cursor)
        BY <1>3, <3>4, <4>1, <4>2
      <4>3. CASE j \in dropped
        BY <1>8, <4>3
      <4> QED BY <4>2, <4>3
    <3>10. behind \cap entries = {}
      <4>1. \A j \in entries : j \in Nat
        <5> HIDE DEF page, dropped
        <5> QED BY <3>3
      <4> HIDE DEF entries, behind
      <4>2. \A j \in entries : ~ (j < j)
        BY <4>1
      <4> QED BY <3>9, <4>2
    <3>11. Cardinality(Upto(walk.cursor)) >= walk.skipped + Cardinality(walk.out)
      BY <2>1 DEF Querying
    <3>12. Cardinality(behind) >= skipped + Cardinality(walk.out)
      <4> HIDE DEF behind, drop
      <4> QED BY <1>3, <1>4, <1>7, <3>2, <3>6, <3>11
    <3>13. Cardinality(behind) \in Nat
      BY <3>6, FS_CardinalityType
    <3> QED BY <3>6, <3>7, <3>8, <3>9, <3>10, <3>12, <3>13
  <2>10. \A S \in SUBSET shown : behind \subseteq S =>
           Cardinality(S) >= skipped + Cardinality(walk.out)
    <3> TAKE S \in SUBSET shown
    <3> HAVE behind \subseteq S
    <3> HIDE DEF behind
    <3>1. IsFiniteSet(S)
      BY <1>1, FS_Subset
    <3>2. Cardinality(S) \in Nat /\ Cardinality(behind) <= Cardinality(S)
      BY <3>1, Smaller
    <3>3. skipped + Cardinality(walk.out) \in Nat
      BY <1>4, <1>11
    <3> QED BY <2>9, <3>2, <3>3
  <2>11. \A k \in walk.out : k <= cursor
    <3> TAKE k \in walk.out
    <3>1. k <= walk.cursor /\ k \in Nat
      BY <1>3, <2>1, ListingNumbers DEF Querying
    <3> HIDE DEF cursor
    <3> QED BY <1>3, <1>12, <3>1
  <2>12. CASE entries # {}
    <3>1. page # {} /\ skipped = walk.offset /\ state = "resolve"
      BY <1>11, <2>12
    <3>2. walk.out \cap entries = {}
      <4>1. \A k \in entries : k \in Nat /\ k > walk.cursor
        BY <1>6, <2>2
      <4>2. \A k \in walk.out : k <= walk.cursor /\ k \in Nat
        BY <1>3, <2>1, ListingNumbers DEF Querying
      <4> QED BY <1>3, <4>1, <4>2
    <3>3. \A k \in entries : k <= cursor
      BY <1>12, <3>1
    <3>4. ASSUME NEW k \in entries
          PROVE  Cardinality(Ahead(k)') >= walk.offset + Cardinality(walk.out)
      <4>1. Ahead(k)' = {j \in shown \ entries : j < k}
        BY <1>14, <1>16 DEF Ahead
      <4>2. behind \subseteq {j \in shown \ entries : j < k}
        BY <2>9, <3>4
      <4> HIDE DEF behind, entries, skipped
      <4>3. {j \in shown \ entries : j < k} \in SUBSET shown
        OBVIOUS
      <4> QED BY <2>10, <3>1, <4>1, <4>2, <4>3
    <3>5. Cardinality(Passed') >= walk.offset + Cardinality(walk.out)
      <4>1. Passed' = {j \in shown \ entries : j <= cursor}
        BY <1>14, <1>16 DEF Passed
      <4>2. behind \subseteq {j \in shown \ entries : j <= cursor}
        BY <2>9
      <4> HIDE DEF behind, entries, skipped, cursor
      <4>3. {j \in shown \ entries : j <= cursor} \in SUBSET shown
        OBVIOUS
      <4> QED BY <2>10, <3>1, <4>1, <4>2, <4>3
    <3>6. \A k \in Unmet : k \in entries \/ k > cursor
      BY <2>6, <2>8, <3>1
    <3>7. last => Unmet \subseteq entries
      BY <2>6, <2>7
    <3> HIDE DEF entries, last, cursor, skipped, state
    <3>8. Resolving'
      BY <1>14, <1>16, <2>11, <3>1, <3>2, <3>3, <3>4, <3>5, <3>6, <3>7 DEF Resolving
    <3> QED BY <1>1, <1>16, <2>1, <3>1, <3>8 DEF Unshifted
  <2>13. CASE entries = {} /\ last
    <3>1. Unmet = {} /\ state = "answer"
      BY <2>6, <2>7, <2>13
    <3>2. Answering'
      BY <1>16, <3>1 DEF Answering
    <3> QED BY <1>1, <1>16, <2>1, <3>1, <3>2 DEF Unshifted
  <2>14. CASE entries = {} /\ ~ last
    <3>1. state = "query" /\ page = dropped /\ page # {}
      <4>1. Cardinality({}) = 0
        BY FS_EmptySet
      <4>2. page # {}
        <5>1. ~ (Cardinality(page) < want)
          BY <2>14
        <5> HIDE DEF page, want
        <5> QED BY <1>5, <4>1, <5>1
      <4> QED BY <1>10, <2>14, <4>2
    <3>2. \A k \in Unmet : k \in rest \ page /\ k > cursor
      BY <2>6, <2>8, <2>14, <3>1
    <3>3. ASSUME NEW k \in Unmet
          PROVE  Cardinality(Span(cursor, k)) + skipped > walk.offset
      <4>1. Span(walk.cursor, k) \subseteq dropped \cup Span(cursor, k)
        <5> SUFFICES ASSUME NEW j \in Span(walk.cursor, k), j \notin page
                     PROVE  j \in Span(cursor, k)
          BY <3>1
        <5>1. j \in shown /\ j \in rest \ page /\ j <= k
          BY DEF Span
        <5>2. cursor < j
          BY <1>6, <1>12, <3>1, <5>1
        <5> HIDE DEF cursor
        <5> QED BY <5>1, <5>2 DEF Span
      <4>2. Span(cursor, k) \in SUBSET shown
        BY DEF Span
      <4>3. IsFiniteSet(Span(cursor, k)) /\ Cardinality(Span(cursor, k)) \in Nat
        BY <1>1, <4>2, Smaller, FS_Subset
      <4> DEFINE here == Span(cursor, k)
                 there == Span(walk.cursor, k)
      <4> HIDE DEF dropped, drop, here, there
      <4>4. /\ IsFiniteSet(dropped \cup here)
            /\ Cardinality(dropped \cup here)
                 = Cardinality(dropped) + Cardinality(here) - Cardinality(dropped \cap here)
        BY <1>8, <4>3, FS_Union DEF here
      <4>5. Cardinality(dropped \cap here) \in Nat
        BY <1>8, Smaller, FS_Subset, FS_CardinalityType
      <4>6. there \subseteq dropped \cup here
        BY <4>1 DEF here, there
      <4>7. /\ Cardinality(there) \in Nat /\ Cardinality(dropped \cup here) \in Nat
            /\ Cardinality(there) <= Cardinality(dropped \cup here)
        BY <4>4, <4>6, Smaller
      <4>8. Cardinality(there) + walk.skipped > walk.offset
        BY <2>1 DEF Querying, there
      <4>9. Cardinality(here) \in Nat
        BY <4>3 DEF here
      <4>10. Cardinality(here) + (walk.skipped + drop) > walk.offset
        BY <1>3, <1>7, <1>8, <4>4, <4>5, <4>7, <4>8, <4>9
      <4> QED BY <4>10 DEF here
    <3>4. Cardinality(Upto(cursor)) >= skipped + Cardinality(walk.out)
      <4>1. Upto(cursor) \in SUBSET shown /\ behind \subseteq Upto(cursor)
        BY <2>9 DEF Upto
      <4> HIDE DEF behind, skipped, cursor
      <4> QED BY <2>10, <4>1
    <3>5. \A k \in Unmet : k > cursor
      BY <3>2
    <3> HIDE DEF cursor, skipped, state
    <3>6. Querying'
      BY <1>16, <2>11, <3>3, <3>4, <3>5 DEF Querying, Span, Upto
    <3> QED BY <1>1, <1>16, <2>1, <3>1, <3>6 DEF Unshifted
  <2> QED BY <2>12, <2>13, <2>14
<1> QED BY <1>1, <1>18, <1>19 DEF WalkInv

LEMMA WalkStep == WalkInv /\ [ListingOf!Next]_listingVars => WalkInv'
<1> SUFFICES ASSUME WalkInv, [ListingOf!Next]_listingVars PROVE WalkInv'
  OBVIOUS
<1>1. CASE UNCHANGED listingVars
  <2>1. WalkTyped' /\ UNCHANGED <<walk, met, shifted, steady, shown>>
    BY <1>1 DEF listingVars, WalkInv, WalkTyped, ListingOf!TypeOK, Batch, ListingOf!InWindow
  <2> QED BY <2>1, WalkGoesOn
<1>2. CASE ListingOf!Next
  <2>1. ASSUME NEW k \in Listed,
               \/ ListingOf!Record(k) \/ ListingOf!Remove(k) \/ ListingOf!ReapRecord(k)
               \/ ListingOf!ReapEntry(k) \/ ListingOf!Propagate(k)
        PROVE  WalkInv'
    BY <2>1, ListingChanges, PropagateStep
  <2>2. ASSUME NEW processed \in SUBSET walk.todo, ListingOf!Resolve(processed)
        PROVE  WalkInv'
    BY <2>2, ResolveSome, ResolveAll
  <2> QED BY <1>2, <2>1, <2>2, NextPageStep, QueryStep, WalkFails, AnswerStep
          DEF ListingOf!Next
<1> QED BY <1>1, <1>2

(* Nothing is missed by a read, however many records, entries and events   *)
(* there are and come and go meanwhile: a walk over a listing that ends    *)
(* with a short page has been handed every record that stood there all     *)
(* along, unless an entry left the index under way (users.go, sessions.go, *)
(* apikeys.go); the answer to a telemetry query has no hole (telemetry.go);*)
(* and a query of the table selects its own.                               *)
THEOREM NothingIsMissed == MCSpec => []ReadsMissNothing
<1> DEFINE Inv == WalkInv /\ LogInv /\ LayoutInv
<1>1. MCInit => Inv
  BY WalkInit, LogInit, LayoutInit DEF MCInit
<1>2. Inv /\ [MCNext]_partVars => Inv'
  BY PartsApart, WalkStep, LogStep, LayoutStep
<1>3. Inv => ReadsMissNothing
  <2> SUFFICES ASSUME Inv PROVE ReadsMissNothing
    OBVIOUS
  <2>1. ListingOf!WalkMeetsEveryone
    BY DEF WalkInv, Unshifted, ListingOf!WalkMeetsEveryone
  <2>2. LogOf!AnswersHaveNoHoles
    BY DEF LogInv
  <2>3. KeysOf!RecordsKeepApart /\ KeysOf!QueriesReachTheirOwn
    BY LayoutAssumption, QueriesFindTheirOwn DEF LayoutInv
  <2> QED BY <2>1, <2>2, <2>3 DEF ReadsMissNothing
<1> QED BY <1>1, <1>2, <1>3, PTL DEF MCSpec, partVars
=============================================================================

------------------------------ MODULE Documents -------------------------------
(***************************************************************************)
(* Documents that administrators patch (internal/store/dynamodb/           *)
(* settings.go, templates.go, webhooks.go, and store.go: putIfUnchanged,   *)
(* nextStamp): read the document, merge the patch into it, and put the     *)
(* whole back on the condition that its updatedAt is still the one read.   *)
(*                                                                         *)
(* One document.  The settings and a mail template come into being with    *)
(* their first patch and are never deleted; a webhook subscription is      *)
(* added, under a random id and without an updatedAt, and may be removed.  *)
(***************************************************************************)
EXTENDS Naturals, FiniteSets

CONSTANTS
  Writer,       \* requests, one patch each
  NoWriter,     \* nobody: the field was never set
  Field,        \* the fields of the document
  Patch,        \* [Writer -> SUBSET Field]: what each request sets
  Family,       \* "upserted": settings, templates; "added": webhooks
  MaxAttempts,  \* settingsPatchAttempts, templatePatchAttempts (16 in the code)
  MaxFields,    \* MaxSettingsBytes..., counted in fields
  Stamps,       \* what the clocks of the environments may say
  StoreFails    \* TRUE: calls may fail, and answers may be lost

ASSUME DocumentsAssumption ==
  /\ NoWriter \notin Writer
  /\ Patch \in [Writer -> SUBSET Field]
  /\ Family \in {"upserted", "added"}
  /\ MaxAttempts \in Nat \ {0} /\ MaxFields \in Nat
  /\ Stamps \subseteq Nat \ {0}
  /\ StoreFails \in BOOLEAN

VARIABLES
  doc,    \* the item; token is its updatedAt, 0 when it has none
  call,   \* what each request is doing
  life    \* history: whether the webhook was added, whether it was removed

vars == <<doc, call, life>>

Fields == [Field -> Writer \cup {NoWriter}]
Unset == [f \in Field |-> NoWriter]

Document == [state: {"absent", "present"}, fields: Fields, token: Nat]
NoDocument == [state |-> "absent", fields |-> Unset, token |-> 0]

(* seen is the document the request merges its patch into, attempt counts  *)
(* its puts.                                                               *)
Call ==
  [pc: {"idle", "write", "read", "done"}, seen: Document,
   attempt: 0..(MaxAttempts - 1),
   answer: {"none", "patched", "absent", "tooLarge", "conflict", "failed"}]

TypeOK ==
  /\ doc \in Document
  /\ call \in [Writer -> Call]
  /\ life \in {"new", "live", "removed"}

Init ==
  /\ doc = NoDocument
  /\ call = [w \in Writer |-> [pc |-> "idle", seen |-> NoDocument,
                               attempt |-> 0, answer |-> "none"]]
  /\ life = "new"

-----------------------------------------------------------------------------
(* MergeSettings, applyMailTemplatePatch, applyWebhookPatch.               *)
Merge(old, w) == [f \in Field |-> IF f \in Patch[w] THEN w ELSE old[f]]

Size(fields) == Cardinality({f \in Field : fields[f] # NoWriter})

(* Mutant: the size of the patch alone. *)
FitsAlone(w) == Size(Merge(Unset, w)) <= MaxFields

(* The merged document is measured, not the patch.                         *)
Fits(w) == Size(Merge(call[w].seen.fields, w)) <= MaxFields

(* The clock, or just past the token observed if the clock is not past it. *)
nextStamp(observed, clock) == IF clock > observed THEN clock ELSE observed + 1

(* Mutant: the read is trusted. *)
UnchangedPresumed(w) == TRUE

(* attribute_not_exists(updatedAt) if none was observed, which an absent   *)
(* item satisfies too; updatedAt = :observed otherwise.                    *)
Unchanged(w) == call[w].seen.token = doc.token

Become(w, state) == call' = [call EXCEPT ![w] = state]

Answer(w, a) == Become(w, [call[w] EXCEPT !.pc = "done", !.answer = a])

(* UpdateWebhook answers success for an id that is not there.              *)
Nothing == Family = "added" /\ doc.state = "absent"

-----------------------------------------------------------------------------
(* AddWebhook: the id is new, and nobody knows it before.                  *)
AddWebhook ==
  /\ Family = "added" /\ life = "new"
  /\ doc.state = "absent"
  /\ doc' = [NoDocument EXCEPT !.state = "present"]
  /\ life' = "live"
  /\ UNCHANGED call

RemoveWebhook ==
  /\ Family = "added" /\ life = "live"
  /\ doc' = NoDocument
  /\ life' = "removed"
  /\ UNCHANGED call

(* The strongly consistent read before the loop.                           *)
Update(w) ==
  /\ call[w].pc = "idle"
  /\ Family = "added" => life # "new"
  /\ IF Nothing THEN Answer(w, "absent")
     ELSE Become(w, [call[w] EXCEPT !.pc = "write", !.seen = doc])
  /\ UNCHANGED <<doc, life>>

TooLarge(w) ==
  /\ call[w].pc = "write" /\ ~Fits(w)
  /\ Answer(w, "tooLarge")
  /\ UNCHANGED <<doc, life>>

(* putIfUnchanged succeeds.  The answer may be lost on the way; then the   *)
(* SDK sends the same put again, or the request fails (Abandon).           *)
Put(w, clock) ==
  /\ call[w].pc = "write" /\ Fits(w)
  /\ Unchanged(w)
  /\ doc' = [state |-> "present",
             fields |-> Merge(call[w].seen.fields, w),
             token |-> nextStamp(call[w].seen.token, clock)]
  /\ \/ Answer(w, "patched")
     \/ StoreFails /\ UNCHANGED call
  /\ UNCHANGED life

(* Mutant: one attempt short. *)
LastAttemptEarly(w) == call[w].attempt + 2 >= MaxAttempts

LastAttempt(w) == call[w].attempt = MaxAttempts - 1

(* putIfUnchanged loses.  The pre-image is the next observation; when none *)
(* is returned the item is gone, or the endpoint ignored ALL_OLD.          *)
Lose(w) ==
  /\ call[w].pc = "write" /\ Fits(w)
  /\ ~Unchanged(w)
  /\ IF LastAttempt(w) THEN Answer(w, "conflict")
     ELSE \/ /\ doc.state = "present"
             /\ Become(w, [call[w] EXCEPT !.attempt = call[w].attempt + 1,
                                          !.seen = doc])
          \/ Become(w, [call[w] EXCEPT !.attempt = call[w].attempt + 1,
                                       !.pc = "read"])
  /\ UNCHANGED <<doc, life>>

(* The read that tells an absent item from a missing pre-image.            *)
Reread(w) ==
  /\ call[w].pc = "read"
  /\ IF Nothing THEN Answer(w, "absent")
     ELSE Become(w, [call[w] EXCEPT !.pc = "write", !.seen = doc])
  /\ UNCHANGED <<doc, life>>

(* A read or a put fails for another reason.                               *)
Abandon(w) ==
  /\ StoreFails
  /\ call[w].pc \in {"write", "read"}
  /\ Answer(w, "failed")
  /\ UNCHANGED <<doc, life>>

Next ==
  \/ AddWebhook
  \/ RemoveWebhook
  \/ \E w \in Writer :
       \/ Update(w) \/ TooLarge(w) \/ Lose(w) \/ Reread(w) \/ Abandon(w)
       \/ \E clock \in Stamps : Put(w, clock)

Spec == Init /\ [][Next]_vars

-----------------------------------------------------------------------------
(* No more writers than attempts: "every writer lands exactly once and     *)
(* leaves, so a writer loses at most once per concurrent writer"           *)
(* (templatePatchAttempts), so none of them is told ErrTemplateConflict.   *)
NobodyConflicts ==
  Cardinality(Writer) <= MaxAttempts => \A w \in Writer : call[w].answer # "conflict"

(* The stored document never outgrows the cap, however the patches that    *)
(* fit one by one are interleaved (MaxSettingsBytes, MaxTemplateBytes).    *)
FitsTheItem == Size(doc.fields) <= MaxFields

(* Whatever the clocks say, a put that lands changes the token upwards,    *)
(* "the one thing the token exists to prevent" being that it does not      *)
(* (nextStamp).                                                            *)
TokensAdvance ==
  [][(doc.state = "present" /\ doc'.state = "present" /\ doc' # doc)
       => doc'.token > doc.token]_vars

(* A removed webhook stays removed ("permanently deletes a configuration", *)
(* RemoveWebhook; "either the subscription was removed under us, which     *)
(* UpdateWebhook answers with success").                                   *)
RemovalIsFinal == life = "removed" => doc.state = "absent"

(* The patches are applied one by one to the current document.             *)
Told(answer) ==
  CASE answer = "none" -> "nothing"
    [] answer = "patched" -> "stored"
    [] OTHER -> "refused"

Patching == INSTANCE PatchedDocument WITH
  fields <- doc.fields,
  answered <- [w \in Writer |-> Told(call[w].answer)]

ImplementsPatching == Patching!Spec
=============================================================================

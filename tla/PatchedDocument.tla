--------------------------- MODULE PatchedDocument ----------------------------
(***************************************************************************)
(* What the stores of patched documents promise (UpdateSettings,           *)
(* UpdateMailTemplate): a patch is applied, in one step, to the document   *)
(* as it stands then.  Two administrators who patch different fields both  *)
(* land, and nobody is told that a patch was stored when it was not.       *)
(***************************************************************************)
CONSTANTS
  Writer,    \* requests, one patch each
  NoWriter,  \* nobody: the field was never set
  Field,     \* the fields of the document
  Patch      \* [Writer -> SUBSET Field]: what each request sets

VARIABLES
  fields,    \* who set each field
  answered   \* what each request was told

vars == <<fields, answered>>

Init ==
  /\ fields = [f \in Field |-> NoWriter]
  /\ answered = [w \in Writer |-> "nothing"]

Merge(old, w) == [f \in Field |-> IF f \in Patch[w] THEN w ELSE old[f]]

Tell(w, what) ==
  /\ answered[w] = "nothing"
  /\ answered' = [answered EXCEPT ![w] = what]

(* The patch is stored and the request told so.                            *)
Land(w) == fields' = Merge(fields, w) /\ Tell(w, "stored")

(* The patch is stored and the answer lost.                                *)
LandUnheard(w) ==
  /\ answered[w] = "nothing"
  /\ fields' = Merge(fields, w)
  /\ UNCHANGED answered

Refuse(w) == Tell(w, "refused") /\ UNCHANGED fields

Next == \E w \in Writer : Land(w) \/ LandUnheard(w) \/ Refuse(w)

Spec == Init /\ [][Next]_vars
=============================================================================

--------------------------- MODULE ColdStartProofs ---------------------------
(***************************************************************************)
(* Proofs about cmd/auth New, for any environments, declarations, stores   *)
(* and keys.                                                               *)
(***************************************************************************)
EXTENDS ColdStart, WellFoundedInduction, TLAPS

(* The steps an environment takes for itself, those that sign apart. *)
Acts(e) ==
  \/ Start(e) \/ Resolve(e) \/ ResolveFails(e) \/ Evaluate(e) \/ Compose(e)
  \/ ReadTemplates(e) \/ WriteTemplates(e) \/ TemplatesFail(e) \/ Options(e)
  \/ ResolveKey(e) \/ PublishKeys(e) \/ ReadSettings(e) \/ WriteSettings(e) \/ CallFails(e)
  \/ Reclaim(e)

(* Every environment has the attributes of a fresh one, and what is stored *)
(* are the templates and the settings.                                     *)
Shape ==
  /\ DOMAIN env = Environment /\ \A e \in Environment : DOMAIN env[e] = DOMAIN Fresh
  /\ DOMAIN stored = Template \cup Setting

(* What is declared, and the configuration it makes, are given once. *)
Given == given \in Declaration /\ cfg = Load(given)

-----------------------------------------------------------------------------
(* What the operators do to an environment. *)

LEMMA FreshIs ==
  /\ Fresh.phase = "cold" /\ Fresh.missed = {} /\ Fresh.answers = <<>> /\ Fresh.cache = <<>>
  /\ Fresh.primary = Nobody /\ Fresh.published = {} /\ Fresh.refusal = ""
BY DEF Fresh

LEMMA Becomes ==
  ASSUME Shape, NEW e \in Environment, NEW new, Become(e, new)
  PROVE  env'[e] = new /\ DOMAIN env' = Environment /\ \A x \in Environment \ {e} : env'[x] = env[x]
BY DEF Shape, Become

LEMMA Enters ==
  ASSUME Shape, NEW e \in Environment, NEW phase, Enter(e, phase)
  PROVE  /\ env'[e].phase = phase
         /\ env'[e].missed = env[e].missed /\ env'[e].answers = env[e].answers
         /\ env'[e].cache = env[e].cache /\ env'[e].primary = env[e].primary
         /\ env'[e].published = env[e].published /\ env'[e].refusal = env[e].refusal
         /\ env'[e].absent = env[e].absent /\ DOMAIN env'[e] = DOMAIN Fresh
<1>1. env'[e] = [env[e] EXCEPT !.phase = phase]
  BY Becomes DEF Enter
<1>2. DOMAIN env[e] = DOMAIN Fresh
  BY DEF Shape
<1> QED
  BY <1>1, <1>2 DEF Fresh

LEMMA Refuses ==
  ASSUME Shape, NEW e \in Environment, NEW why, Refuse(e, why)
  PROVE  /\ env'[e].phase = "refused" /\ env'[e].refusal = why
         /\ env'[e].missed = {} /\ env'[e].answers = <<>> /\ env'[e].cache = <<>>
         /\ env'[e].primary = Nobody /\ env'[e].published = {} /\ env'[e].absent = {}
         /\ DOMAIN env'[e] = DOMAIN Fresh
<1>1. env'[e] = [Fresh EXCEPT !.phase = "refused", !.refusal = why, !.opened = env[e].opened]
  BY Becomes DEF Refuse
<1> QED
  BY <1>1 DEF Fresh

LEMMA Settles ==
  ASSUME Shape, NEW e \in Environment, NEW slot, NEW answer, NEW cache, Settle(e, slot, answer, cache)
  PROVE  /\ DOMAIN env'[e].answers = {slot} \cup DOMAIN env[e].answers
         /\ env'[e].answers[slot] = answer
         /\ \A x \in DOMAIN env[e].answers \ {slot} : env'[e].answers[x] = env[e].answers[x]
         /\ env'[e].missed = {} /\ env'[e].cache = cache
         /\ env'[e].phase = env[e].phase /\ env'[e].primary = env[e].primary
         /\ env'[e].published = env[e].published /\ env'[e].refusal = env[e].refusal
         /\ env'[e].absent = env[e].absent /\ DOMAIN env'[e] = DOMAIN Fresh
<1>1. env'[e] = [env[e] EXCEPT !.answers = Over([x \in {slot} |-> answer], @), !.missed = {}, !.cache = cache]
  BY Becomes DEF Settle
<1>2. DOMAIN env[e] = DOMAIN Fresh
  BY DEF Shape
<1>3. env'[e].answers = Over([x \in {slot} |-> answer], env[e].answers)
  BY <1>1, <1>2 DEF Fresh
<1>4. /\ DOMAIN env'[e].answers = {slot} \cup DOMAIN env[e].answers
      /\ env'[e].answers[slot] = answer
      /\ \A x \in DOMAIN env[e].answers \ {slot} : env'[e].answers[x] = env[e].answers[x]
  BY <1>3 DEF Over
<1> QED
  BY <1>1, <1>2, <1>4 DEF Fresh

(* A slot is asked at the first store that is left, whose payload is in    *)
(* the cache by then.                                                      *)
Store(e) == StoreOrder[Min(StoresLeft(e))]

Item(e) == <<Store(e), Refs(Current(e))[Store(e)].item>>

LEMMA Resolves ==
  ASSUME NEW e \in Environment, Resolve(e)
  PROVE  \E payload, cache :
           /\ Heard(e, Store(e), payload, cache)
           /\ \/ Item(e) \in DOMAIN env[e].cache /\ cache = env[e].cache /\ payload = cache[Item(e)]
              \/ Item(e) \notin DOMAIN env[e].cache /\ cache = Over([x \in {Item(e)} |-> payload], env[e].cache)
<1>1. IF Item(e) \in DOMAIN env[e].cache
        THEN Heard(e, Store(e), env[e].cache[Item(e)], env[e].cache)
        ELSE Heard(e, Store(e), vault[Item(e)], Over([x \in {Item(e)} |-> vault[Item(e)]], env[e].cache))
  BY DEF Resolve, Item, Store
<1> QED
  BY <1>1, Zenon

(* What is heard of a secret changes nothing else. *)
LEMMA Hears ==
  ASSUME Shape, NEW e \in Environment, NEW store, NEW payload, NEW cache, Heard(e, store, payload, cache)
  PROVE  /\ env'[e].phase = env[e].phase /\ env'[e].primary = env[e].primary
         /\ env'[e].published = env[e].published /\ env'[e].refusal = env[e].refusal
         /\ env'[e].absent = env[e].absent
<1>1. CASE \E slot, answer : Settle(e, slot, answer, cache)
  BY <1>1, Settles
<1>2. CASE Become(e, [env[e] EXCEPT !.missed = @ \cup {store}, !.cache = cache])
  <2>1. env'[e] = [env[e] EXCEPT !.missed = @ \cup {store}, !.cache = cache]
    BY <1>2, Becomes
  <2>2. DOMAIN env[e] = DOMAIN Fresh
    BY DEF Shape
  <2> QED
    BY <2>1, <2>2 DEF Fresh
<1> QED
  BY <1>1, <1>2 DEF Heard

(* The steps that resolve the secrets. *)
LEMMA Walks ==
  ASSUME Shape, NEW e \in Environment, Resolve(e) \/ ResolveFails(e)
  PROVE  /\ env[e].phase = "resolving" /\ env'[e].phase = "resolving"
         /\ env'[e].primary = env[e].primary
         /\ env'[e].published = env[e].published /\ env'[e].refusal = env[e].refusal
         /\ env'[e].absent = env[e].absent
<1>1. CASE Resolve(e)
  BY <1>1, Hears, Resolves DEF Resolve, At
<1>2. CASE ResolveFails(e)
  BY <1>2, Settles DEF ResolveFails, At
<1> QED
  BY <1>1, <1>2

(* A step of an environment changes that one, and nothing of what was      *)
(* given.                                                                  *)
LEMMA OneAtATime ==
  ASSUME Shape, [Next]_vars
  PROVE  /\ given' = given /\ cfg' = cfg /\ DOMAIN env' = Environment
         /\ \/ env' = env
            \/ \E e \in Environment : Acts(e) /\ \A x \in Environment \ {e} : env'[x] = env[x]
<1>1. CASE UNCHANGED vars
  BY <1>1 DEF vars, Shape
<1>2. ASSUME NEW e \in Environment, Acts(e)
      PROVE  /\ given' = given /\ cfg' = cfg /\ DOMAIN env' = Environment
             /\ \A x \in Environment \ {e} : env'[x] = env[x]
  <2>1. given' = given /\ cfg' = cfg
    BY <1>2 DEF Acts, Start, Resolve, ResolveFails, Evaluate, Compose, ReadTemplates, WriteTemplates,
                TemplatesFail, Options, ResolveKey, PublishKeys, ReadSettings, WriteSettings,
                CallFails, Reclaim
  <2>2. \E new : Become(e, new)
    BY <1>2 DEF Acts, Start, Resolve, ResolveFails, Evaluate, Compose, ReadTemplates, WriteTemplates,
                TemplatesFail, Options, ResolveKey, PublishKeys, ReadSettings, WriteSettings,
                CallFails, Reclaim, Heard, Settle, Refuse, Enter, Unseeded, Mount
  <2> QED
    BY <2>1, <2>2, Becomes
<1>3. ASSUME NEW e \in Environment, Sign(e) PROVE given' = given /\ cfg' = cfg /\ env' = env
  BY <1>3 DEF Sign
<1>4. ASSUME NEW item, Rotate(item) PROVE given' = given /\ cfg' = cfg /\ env' = env
  BY <1>4 DEF Rotate
<1>5. ASSUME NEW key, Repoint(key) PROVE given' = given /\ cfg' = cfg /\ env' = env
  BY <1>5 DEF Repoint
<1>6. ASSUME NEW k, Save(k) PROVE given' = given /\ cfg' = cfg /\ env' = env
  BY <1>6 DEF Save
<1>7. DOMAIN env = Environment
  BY DEF Shape
<1> QED
  BY <1>1, <1>2, <1>3, <1>4, <1>5, <1>6, <1>7 DEF Next, Acts

LEMMA ShapeHolds == Spec => [](Shape /\ Given)
<1>1. Init => Shape /\ Given
  BY DEF Init, Shape, Given
<1>2. Shape /\ Given /\ [Next]_vars => (Shape /\ Given)'
  <2> SUFFICES ASSUME Shape, Given, [Next]_vars PROVE (Shape /\ Given)'
    OBVIOUS
  <2>1. Given'
    BY OneAtATime DEF Given
  <2>2. ASSUME NEW e \in Environment, Acts(e) PROVE DOMAIN env'[e] = DOMAIN Fresh
    <3>1. DOMAIN env[e] = DOMAIN Fresh
      BY DEF Shape
    <3>2. ASSUME NEW why, Refuse(e, why) PROVE DOMAIN env'[e] = DOMAIN Fresh
      BY <3>2, Refuses
    <3>3. ASSUME NEW phase, Enter(e, phase) PROVE DOMAIN env'[e] = DOMAIN Fresh
      BY <3>3, Enters
    <3>4. ASSUME NEW new, Become(e, new), DOMAIN new = DOMAIN Fresh PROVE DOMAIN env'[e] = DOMAIN Fresh
      BY <3>4, Becomes
    <3>5. ASSUME NEW slot, NEW answer, NEW cache, Settle(e, slot, answer, cache) PROVE DOMAIN env'[e] = DOMAIN Fresh
      BY <3>5, Settles
    <3>6. ASSUME NEW store, NEW payload, NEW cache, Heard(e, store, payload, cache) PROVE DOMAIN env'[e] = DOMAIN Fresh
      BY <3>1, <3>4, <3>5, <3>6 DEF Heard
    <3>7. CASE Start(e) \/ Resolve(e) \/ ResolveFails(e) \/ Evaluate(e)
      <4>1. CASE Resolve(e)
        BY <3>6, <4>1, Resolves
      <4>2. CASE Start(e)
        BY <3>2, <3>3, <4>2 DEF Start
      <4>3. CASE ResolveFails(e)
        BY <3>5, <4>3 DEF ResolveFails
      <4>4. CASE Evaluate(e)
        BY <3>2, <3>3, <4>4 DEF Evaluate
      <4> QED
        BY <3>7, <4>1, <4>2, <4>3, <4>4
    <3>8. CASE Compose(e) \/ Reclaim(e)
      BY <3>1, <3>2, <3>4, <3>8 DEF Compose, Reclaim
    <3>9. CASE ReadTemplates(e) \/ WriteTemplates(e) \/ TemplatesFail(e)
      BY <3>1, <3>2, <3>3, <3>4, <3>9 DEF ReadTemplates, WriteTemplates, TemplatesFail, Unseeded
    <3>10. CASE Options(e) \/ ResolveKey(e) \/ PublishKeys(e)
      BY <3>1, <3>2, <3>3, <3>4, <3>10 DEF Options, ResolveKey, PublishKeys
    <3>11. CASE ReadSettings(e) \/ WriteSettings(e) \/ CallFails(e)
      BY <3>1, <3>2, <3>4, <3>11 DEF ReadSettings, WriteSettings, Mount, CallFails
    <3> QED
      BY <2>2, <3>7, <3>8, <3>9, <3>10, <3>11 DEF Acts
  <2>3. DOMAIN stored' = Template \cup Setting
    <3>1. DOMAIN stored = Template \cup Setting
      BY DEF Shape
    <3>2. stored' = stored \/ (\E k : stored' = [stored EXCEPT ![k] = "saved"]) \/ \E keys : Seed(keys)
      BY DEF Next, vars, Start, Resolve, ResolveFails, Evaluate, Compose, ReadTemplates,
             WriteTemplates, TemplatesFail, Options, ResolveKey, PublishKeys, ReadSettings,
             WriteSettings, CallFails, Reclaim, Sign, Rotate, Repoint, Save
    <3> QED
      BY <3>1, <3>2 DEF Seed
  <2> QED
    BY <2>1, <2>2, <2>3, OneAtATime, Becomes DEF Shape
<1> QED
  BY <1>1, <1>2, PTL DEF Spec

-----------------------------------------------------------------------------
(* What the steps after the secrets make of an environment. *)

(* What it has resolved so far is kept. *)
Keeps(e) ==
  /\ env'[e].answers = env[e].answers /\ env'[e].missed = env[e].missed
  /\ env'[e].cache = env[e].cache

Proceeds(e, phase) ==
  /\ env'[e].phase = phase /\ env'[e].refusal = env[e].refusal /\ Keeps(e)
  /\ env'[e].primary = env[e].primary /\ env'[e].published = env[e].published

Stops(e, why) ==
  /\ env'[e].phase = "refused" /\ env'[e].refusal = why
  /\ env'[e].answers = <<>> /\ env'[e].missed = {} /\ env'[e].cache = <<>>
  /\ env'[e].primary = Nobody /\ env'[e].published = {}

LEMMA RefuseStops == ASSUME Shape, NEW e \in Environment, NEW why, Refuse(e, why) PROVE Stops(e, why)
BY Refuses DEF Stops

LEMMA EnterProceeds == ASSUME Shape, NEW e \in Environment, NEW phase, Enter(e, phase) PROVE Proceeds(e, phase)
BY Enters DEF Proceeds, Keeps

LEMMA Starts ==
  ASSUME Shape, NEW e \in Environment, Start(e)
  PROVE  env[e].phase = "cold" /\ (Stops(e, "document") \/ Proceeds(e, "resolving"))
BY RefuseStops, EnterProceeds DEF Start, At

LEMMA Evaluates ==
  ASSUME Shape, NEW e \in Environment, Evaluate(e)
  PROVE  /\ env[e].phase = "resolving" /\ Pending(e) = {}
         /\ \/ Stops(e, "problems")
            \/ Problems(given, cfg, Secrets(e)) = {} /\ Proceeds(e, "loaded")
BY RefuseStops, EnterProceeds DEF Evaluate, At

LEMMA Composes ==
  ASSUME Shape, NEW e \in Environment, Compose(e)
  PROVE  /\ env[e].phase = "loaded"
         /\ \/ Stops(e, "unsupported")
            \/ /\ Keeps(e) /\ env'[e].primary = env[e].primary
               /\ \/ env'[e].phase = "email" /\ env'[e].refusal = ""
                  \/ env'[e].phase = "refused" /\ env'[e].refusal = "migration" /\ ~MigrationWiring(cfg)
<1>1. CASE ~Supported(cfg, Secrets(e))
  BY <1>1, RefuseStops DEF Compose, At
<1>2. CASE Supported(cfg, Secrets(e))
  <2> DEFINE wired == MigrationWiring(cfg)
  <2>1. Become(e, [env[e] EXCEPT !.opened = TRUE, !.phase = IF wired THEN "email" ELSE "refused",
                                 !.refusal = IF wired THEN "" ELSE "migration"])
    BY <1>2 DEF Compose
  <2>2. DOMAIN env[e] = DOMAIN Fresh
    BY DEF Shape
  <2>3. env[e].phase = "loaded"
    BY DEF Compose, At
  <2> HIDE DEF wired
  <2>4. env'[e] = [env[e] EXCEPT !.opened = TRUE, !.phase = IF wired THEN "email" ELSE "refused",
                                 !.refusal = IF wired THEN "" ELSE "migration"]
    BY <2>1, Becomes
  <2>5. /\ Keeps(e) /\ env'[e].primary = env[e].primary
        /\ env'[e].phase = IF wired THEN "email" ELSE "refused"
        /\ env'[e].refusal = IF wired THEN "" ELSE "migration"
    BY <2>2, <2>4 DEF Keeps, Fresh
  <2> QED
    BY <2>3, <2>5 DEF wired
<1> QED
  BY <1>1, <1>2

(* An environment whose phase and absent keys alone change. *)
LEMMA Turns ==
  ASSUME Shape, NEW e \in Environment, NEW phase, NEW absent,
         Become(e, [env[e] EXCEPT !.phase = phase, !.absent = absent])
  PROVE  Proceeds(e, phase)
<1>1. env'[e] = [env[e] EXCEPT !.phase = phase, !.absent = absent]
  BY Becomes
<1>2. DOMAIN env[e] = DOMAIN Fresh
  BY DEF Shape
<1> QED
  BY <1>1, <1>2 DEF Proceeds, Keeps, Fresh

LEMMA SeedsTemplates ==
  ASSUME Shape, NEW e \in Environment, ReadTemplates(e) \/ WriteTemplates(e) \/ TemplatesFail(e)
  PROVE  /\ env[e].phase \in {"email", "templates"}
         /\ \/ Stops(e, "templates") /\ (env[e].phase = "templates" \/ cfg.templatesDir # "unset")
            \/ Proceeds(e, "options")
            \/ Proceeds(e, "templates") /\ cfg.templatesDir # "unset"
<1>1. CASE ReadTemplates(e)
  BY <1>1, RefuseStops, EnterProceeds, Turns DEF ReadTemplates, Unseeded, At
<1>2. CASE WriteTemplates(e)
  BY <1>2, Turns DEF WriteTemplates, At
<1>3. CASE TemplatesFail(e)
  BY <1>3, RefuseStops, EnterProceeds DEF TemplatesFail, Unseeded, At
<1> QED
  BY <1>1, <1>2, <1>3

LEMMA TakesOptions ==
  ASSUME Shape, NEW e \in Environment, Options(e)
  PROVE  /\ env[e].phase = "options"
         /\ \/ Stops(e, "claims") /\ ~ClaimsOptions(cfg)
            \/ Stops(e, "oauth") /\ ~OAuthOptions(cfg)
            \/ Proceeds(e, "key") /\ Active(cfg)
            \/ Proceeds(e, "settings") /\ ~Active(cfg)
<1>1. CASE Active(cfg)
  BY <1>1, RefuseStops, EnterProceeds DEF Options, At
<1>2. CASE ~Active(cfg)
  BY <1>2, RefuseStops, EnterProceeds DEF Options, At
<1> QED
  BY <1>1, <1>2

(* The key an environment of its own signs with when none is in KMS. *)
OwnKey(e) ==
  LET pem == SecretValue(Secrets(e), "idProvider.privateKey")
  IN IF pem # NoValue THEN pem ELSE Ephemeral(e)

LEMMA ResolvesKey ==
  ASSUME Shape, NEW e \in Environment, ResolveKey(e)
  PROVE  /\ env[e].phase = "key"
         /\ \/ Stops(e, "key") /\ (cfg.kmsKeyId # "unset" \/ OwnKey(e).item = "weak")
            \/ /\ cfg.kmsKeyId # "unset" /\ Keeps(e) /\ env'[e].refusal = env[e].refusal
               /\ env'[e].phase = "published" /\ env'[e].primary \in env'[e].published
            \/ /\ cfg.kmsKeyId = "unset" /\ Keeps(e) /\ env'[e].refusal = env[e].refusal
               /\ env'[e].phase = "settings" /\ env'[e].primary = OwnKey(e)
               /\ env'[e].primary \in env'[e].published
<1>1. DOMAIN env[e] = DOMAIN Fresh
  BY DEF Shape
<1>2. env[e].phase = "key"
  BY DEF ResolveKey, At
<1>3. ASSUME NEW phase, NEW key,
             Become(e, [env[e] EXCEPT !.phase = phase, !.primary = key, !.published = {key}])
      PROVE  /\ Keeps(e) /\ env'[e].refusal = env[e].refusal /\ env'[e].phase = phase
             /\ env'[e].primary = key /\ env'[e].primary \in env'[e].published
  <2>1. env'[e] = [env[e] EXCEPT !.phase = phase, !.primary = key, !.published = {key}]
    BY <1>3, Becomes
  <2> QED
    BY <1>1, <2>1 DEF Keeps, Fresh
<1>4. CASE cfg.kmsKeyId # "unset"
  BY <1>2, <1>3, <1>4, RefuseStops DEF ResolveKey
<1>5. CASE cfg.kmsKeyId = "unset"
  <2>1. IF OwnKey(e).item = "weak"
          THEN Refuse(e, "key")
          ELSE Become(e, [env[e] EXCEPT !.phase = "settings", !.primary = OwnKey(e), !.published = {OwnKey(e)}])
    BY <1>5 DEF ResolveKey, OwnKey
  <2> QED
    BY <1>2, <1>3, <1>5, <2>1, RefuseStops
<1> QED
  BY <1>4, <1>5

LEMMA PublishesKeys ==
  ASSUME Shape, NEW e \in Environment, PublishKeys(e)
  PROVE  /\ env[e].phase = "published"
         /\ \/ Stops(e, "key")
            \/ /\ Keeps(e) /\ env'[e].refusal = env[e].refusal /\ env'[e].phase = "settings"
               /\ env'[e].primary = env[e].primary /\ env[e].published \subseteq env'[e].published
<1>1. DOMAIN env[e] = DOMAIN Fresh
  BY DEF Shape
<1>2. env[e].phase = "published"
  BY DEF PublishKeys, At
<1>3. CASE Refuse(e, "key")
  BY <1>2, <1>3, RefuseStops
<1>4. ASSUME NEW retired, Become(e, [env[e] EXCEPT !.phase = "settings", !.published = @ \cup retired])
      PROVE  /\ Keeps(e) /\ env'[e].refusal = env[e].refusal /\ env'[e].phase = "settings"
             /\ env'[e].primary = env[e].primary /\ env[e].published \subseteq env'[e].published
  <2>1. env'[e] = [env[e] EXCEPT !.phase = "settings", !.published = @ \cup retired]
    BY <1>4, Becomes
  <2> QED
    BY <1>1, <2>1 DEF Keeps, Fresh
<1>5. \/ Refuse(e, "key")
      \/ \E retired : Become(e, [env[e] EXCEPT !.phase = "settings", !.published = @ \cup retired])
  BY Zenon DEF PublishKeys
<1> QED
  BY <1>2, <1>3, <1>4, <1>5

LEMMA SeedsSettings ==
  ASSUME Shape, NEW e \in Environment, ReadSettings(e) \/ WriteSettings(e)
  PROVE  /\ env[e].phase \in {"settings", "patch"}
         /\ \/ Stops(e, "mount") /\ ~MountAuthSurface(cfg)
            \/ Proceeds(e, "serving") \/ Proceeds(e, "patch")
<1>1. Mount(e) => \/ Stops(e, "mount") /\ ~MountAuthSurface(cfg)
                  \/ Proceeds(e, "serving")
  BY RefuseStops, Turns DEF Mount
<1>2. CASE ReadSettings(e)
  <2>1. Mount(e) \/ \E absent : Become(e, [env[e] EXCEPT !.phase = "patch", !.absent = absent])
    BY <1>2, Zenon DEF ReadSettings
  <2>2. env[e].phase = "settings"
    BY <1>2 DEF ReadSettings, At
  <2> QED
    BY <1>1, <2>1, <2>2, Turns
<1>3. CASE WriteSettings(e)
  BY <1>1, <1>3 DEF WriteSettings, At
<1> QED
  BY <1>2, <1>3

LEMMA Fails == ASSUME Shape, NEW e \in Environment, CallFails(e) PROVE Stops(e, "call")
BY RefuseStops DEF CallFails

LEMMA Reclaims == ASSUME Shape, NEW e \in Environment, Reclaim(e) PROVE env'[e] = Fresh
BY Becomes DEF Reclaim

-----------------------------------------------------------------------------
(* The seeds. *)

(* What changes what is stored: a save, or a seed of the keys a cold start *)
(* had found absent.                                                       *)
LEMMA WhoStores ==
  ASSUME [Next]_vars
  PROVE  \/ stored' = stored
         \/ \E k : stored' = [stored EXCEPT ![k] = "saved"]
         \/ \E e \in Environment : Seed(env[e].absent)
<1>1. CASE UNCHANGED vars
  BY <1>1 DEF vars
<1>2. ASSUME NEW e \in Environment, Acts(e) \/ Sign(e)
      PROVE  stored' = stored \/ Seed(env[e].absent)
  BY <1>2 DEF Acts, Start, Resolve, ResolveFails, Evaluate, Compose, ReadTemplates,
         WriteTemplates, TemplatesFail, Options, ResolveKey, PublishKeys, ReadSettings,
         WriteSettings, CallFails, Reclaim, Sign
<1>3. ASSUME NEW item, Rotate(item) PROVE stored' = stored
  BY <1>3 DEF Rotate
<1>4. ASSUME NEW key, Repoint(key) PROVE stored' = stored
  BY <1>4 DEF Repoint
<1>5. ASSUME NEW k, Save(k) PROVE stored' = [stored EXCEPT ![k] = "saved"]
  BY <1>5 DEF Save
<1> QED
  BY <1>1, <1>2, <1>3, <1>4, <1>5 DEF Next, Acts

(* The seeding of templates and of runtime settings (cmd/auth: email.go,   *)
(* settings.go) replaces what an administrator saved only if its cold      *)
(* start had asked the store before the save, for any environments.        *)
THEOREM SeedsReplaceTheAbsent == Spec => SeedsKeepWhatTheySaw
<1> DEFINE Kept == \A k \in Template \cup Setting :
             stored[k] = "saved" /\ stored'[k] # "saved" => \E e \in Environment : k \in env[e].absent
<1>1. Shape /\ [Next]_vars => [Kept]_vars
  <2> SUFFICES ASSUME Shape, [Next]_vars, NEW k \in Template \cup Setting,
                      stored[k] = "saved", stored'[k] # "saved"
               PROVE  \E e \in Environment : k \in env[e].absent
    OBVIOUS
  <2>1. k \in DOMAIN stored
    BY DEF Shape
  <2>2. ASSUME NEW j, stored' = [stored EXCEPT ![j] = "saved"] PROVE FALSE
    BY <2>1, <2>2
  <2>3. PICK e \in Environment : Seed(env[e].absent)
    BY <2>2, WhoStores
  <2> QED
    BY <2>1, <2>3 DEF Seed
<1> QED
  BY <1>1, ShapeHolds, PTL DEF Spec, SeedsKeepWhatTheySaw

-----------------------------------------------------------------------------
(* The signing key. *)

(* How far an environment has come with its signing key. *)
Keyed(e) ==
  /\ env[e].phase \in {"published", "settings", "patch", "serving"} /\ Active(cfg) =>
       env[e].primary \in env[e].published
  /\ env[e].phase \in {"settings", "patch", "serving"} /\ Active(cfg) /\ cfg.kmsKeyId = "unset" =>
       env[e].primary = OwnKey(e)
  /\ env[e].phase = "key" => Active(cfg)
  /\ env[e].phase = "published" => cfg.kmsKeyId # "unset"
  /\ ~Active(cfg) => env[e].primary = Nobody

AllKeyed == \A e \in Environment : Keyed(e)

LEMMA KeyedStays ==
  ASSUME given' = given, cfg' = cfg, NEW x, env'[x] = env[x], Keyed(x)
  PROVE  Keyed(x)'
BY DEF Keyed, OwnKey, Secrets, Variable, Readable, Refs, Ephemeral

LEMMA KeyedStep ==
  ASSUME Shape, NEW e \in Environment, Acts(e), Keyed(e)
  PROVE  Keyed(e)'
<1>1. DOMAIN env[e] = DOMAIN Fresh
  BY DEF Shape
<1>2. given' = given /\ cfg' = cfg
  BY OneAtATime DEF Next, Acts
<1>3. ASSUME env'[e].answers = env[e].answers PROVE OwnKey(e)' = OwnKey(e)
  BY <1>2, <1>3 DEF OwnKey, Secrets, Variable, Readable, Refs, Ephemeral
<1>4. ASSUME NEW why, Stops(e, why) PROVE Keyed(e)'
  BY <1>2, <1>4 DEF Keyed, Stops
<1>5. ASSUME NEW phase, Proceeds(e, phase), phase \notin {"published", "settings", "patch", "serving"},
             phase = "key" => Active(cfg)
      PROVE  Keyed(e)'
  BY <1>2, <1>5 DEF Keyed, Proceeds
<1>6. CASE Start(e)
  BY <1>4, <1>5, <1>6, Starts
<1>7. CASE Resolve(e) \/ ResolveFails(e)
  BY <1>2, <1>7, Walks DEF Keyed
<1>8. CASE Evaluate(e)
  BY <1>4, <1>5, <1>8, Evaluates
<1>9. CASE Compose(e)
  BY <1>2, <1>4, <1>9, Composes DEF Keyed
<1>10. CASE ReadTemplates(e) \/ WriteTemplates(e) \/ TemplatesFail(e)
  BY <1>4, <1>5, <1>10, SeedsTemplates
<1>11. CASE Options(e)
  <2>1. CASE Proceeds(e, "settings") /\ ~Active(cfg)
    BY <1>2, <2>1 DEF Keyed, Proceeds
  <2> QED
    BY <1>4, <1>5, <1>11, <2>1, TakesOptions
<1>12. CASE ResolveKey(e)
  <2>1. env[e].phase = "key" /\ Active(cfg)
    BY <1>12, ResolvesKey DEF Keyed
  <2> QED
    BY <1>2, <1>3, <1>4, <1>12, <2>1, ResolvesKey DEF Keyed, Keeps
<1>13. CASE PublishKeys(e)
  <2>1. cfg.kmsKeyId # "unset" /\ Active(cfg) /\ env[e].primary \in env[e].published
    BY <1>13, PublishesKeys DEF Keyed, Active
  <2> QED
    BY <1>2, <1>4, <1>13, <2>1, PublishesKeys DEF Keyed
<1>14. CASE ReadSettings(e) \/ WriteSettings(e)
  <2>1. CASE \E phase \in {"serving", "patch"} : Proceeds(e, phase)
    <3>1. env[e].phase \in {"settings", "patch"}
      BY <1>14, SeedsSettings
    <3>2. /\ env'[e].phase \in {"serving", "patch"} /\ env'[e].primary = env[e].primary
          /\ env'[e].published = env[e].published /\ OwnKey(e)' = OwnKey(e)
      BY <1>3, <2>1 DEF Proceeds, Keeps
    <3> QED
      BY <1>2, <3>1, <3>2 DEF Keyed
  <2> QED
    BY <1>4, <1>14, <2>1, SeedsSettings
<1>15. CASE CallFails(e)
  BY <1>4, <1>15, Fails
<1>16. CASE Reclaim(e)
  <2>1. env'[e].phase = "cold" /\ env'[e].primary = Nobody
    BY <1>16, Reclaims, FreshIs
  <2> QED
    BY <1>2, <2>1 DEF Keyed
<1> QED
  BY <1>6, <1>7, <1>8, <1>9, <1>10, <1>11, <1>12, <1>13, <1>14, <1>15, <1>16 DEF Acts

(* Every environment knows its key as far as it has come. *)
LEMMA KeyedHolds == Spec => [](Shape /\ Given /\ AllKeyed)
<1>1. Init => AllKeyed
  <2> SUFFICES ASSUME Init, NEW e \in Environment PROVE Keyed(e)
    BY Zenon DEF AllKeyed
  <2>1. env[e].phase = "cold" /\ env[e].primary = Nobody
    BY DEF Init, Fresh
  <2> QED
    BY <2>1 DEF Keyed
<1>2. Shape /\ AllKeyed /\ [Next]_vars => AllKeyed'
  <2> SUFFICES ASSUME Shape, AllKeyed, [Next]_vars, NEW x \in Environment PROVE Keyed(x)'
    BY DEF AllKeyed
  <2>1. Keyed(x)
    BY DEF AllKeyed
  <2>2. CASE env'[x] = env[x]
    <3>1. given' = given /\ cfg' = cfg
      BY OneAtATime
    <3> QED
      BY <2>1, <2>2, <3>1, KeyedStays
  <2>3. CASE Acts(x)
    BY <2>1, <2>3, KeyedStep
  <2> QED
    BY <2>2, <2>3, OneAtATime
<1> QED
  BY <1>1, <1>2, ShapeHolds, PTL DEF Spec

(* Whatever the alias of the key has come to stand for, a signature is by  *)
(* the key its key identifier names, and the environment that made it      *)
(* publishes that key (kms.go, app.go), for any keys and environments.     *)
THEOREM SignaturesVerify == Spec => []SignsWhatItPublishes
<1>1. Init => SignsWhatItPublishes
  BY DEF Init, SignsWhatItPublishes
<1>2. Shape /\ AllKeyed /\ SignsWhatItPublishes /\ [Next]_vars => SignsWhatItPublishes'
  <2> SUFFICES ASSUME Shape, AllKeyed, SignsWhatItPublishes, [Next]_vars PROVE SignsWhatItPublishes'
    OBVIOUS
  <2>1. CASE signed' = signed
    BY <2>1 DEF SignsWhatItPublishes
  <2>2. ASSUME NEW e \in Environment, Sign(e) PROVE SignsWhatItPublishes'
    <3>1. Keyed(e) /\ env[e].phase = "serving" /\ Active(cfg)
      BY <2>2 DEF AllKeyed, Sign, At
    <3>2. env[e].primary \in env[e].published
      BY <3>1 DEF Keyed
    <3>3. signed' = signed \cup {[key |-> env[e].primary, kid |-> env[e].primary, published |-> env[e].published]}
      BY <2>2 DEF Sign, SigningKey
    <3> QED
      BY <3>2, <3>3 DEF SignsWhatItPublishes
  <2>3. signed' = signed \/ \E e \in Environment : Sign(e)
    BY DEF Next, vars, Start, Resolve, ResolveFails, Evaluate, Compose, ReadTemplates,
           WriteTemplates, TemplatesFail, Options, ResolveKey, PublishKeys, ReadSettings,
           WriteSettings, CallFails, Reclaim, Rotate, Repoint, Save
  <2> QED
    BY <2>1, <2>2, <2>3
<1> QED
  BY <1>1, <1>2, KeyedHolds, PTL DEF Spec

-----------------------------------------------------------------------------
(* The secrets. *)

(* What a store holds for a slot, as the cache of an environment or the    *)
(* vault knows it.                                                         *)
Read(slot, store, known) == Selected(Refs(slot)[store], known[<<store, Refs(slot)[store].item>>])

Tells(slot, store, known) == store \in DOMAIN Refs(slot) /\ Read(slot, store, known) # NoValue

From(slot, store, known) == [value |-> Read(slot, store, known), source |-> store, failed |-> FALSE]

(* The answer of a walk that no store failed. *)
Answer(slot, known) ==
  IF Tells(slot, "secretsManager", known) THEN From(slot, "secretsManager", known)
  ELSE IF Tells(slot, "ssm", known) THEN From(slot, "ssm", known)
  ELSE Variable(slot)

Knows(slot, store, cache) == store \in DOMAIN Refs(slot) => <<store, Refs(slot)[store].item>> \in DOMAIN cache

(* The items that answer rests on are in the cache. *)
Consulted(slot, cache) ==
  /\ Knows(slot, "secretsManager", cache)
  /\ ~Tells(slot, "secretsManager", cache) => Knows(slot, "ssm", cache)

Truthful(e, slot) ==
  \/ env[e].answers[slot].failed
  \/ /\ Consulted(slot, env[e].cache)
     /\ env[e].answers[slot] = Answer(slot, env[e].cache)

RemoteSlots == {SlotOrder[i] : i \in Remote}

(* The walk: answers are those of slots that have stores to ask, and true  *)
(* to the cache; a store missed is the first of the two that the current   *)
(* slot refers to, and the cache knows what it holds.                      *)
Walked(e) ==
  /\ \A slot \in DOMAIN env[e].answers : slot \in RemoteSlots /\ Truthful(e, slot)
  /\ env[e].missed # {} =>
       /\ env[e].missed = {"secretsManager"} /\ env[e].phase = "resolving" /\ Pending(e) # {}
       /\ {"secretsManager", "ssm"} \subseteq DOMAIN Refs(Current(e))
       /\ Knows(Current(e), "secretsManager", env[e].cache)
       /\ ~Tells(Current(e), "secretsManager", env[e].cache)

(* Past the loader, every secret has been asked for and nothing was found  *)
(* wrong.                                                                  *)
Accepted(e) ==
  env[e].phase \notin {"cold", "resolving", "refused"} =>
    Pending(e) = {} /\ Problems(given, cfg, Secrets(e)) = {}

(* What the configuration alone decides stays with it. *)
LEMMA Constant ==
  ASSUME given' = given, cfg' = cfg
  PROVE  /\ Remote' = Remote /\ RemoteSlots' = RemoteSlots
         /\ \A slot : /\ Refs(slot)' = Refs(slot) /\ Readable(slot)' = Readable(slot)
                       /\ Variable(slot)' = Variable(slot)
         /\ \A slot, known : /\ Answer(slot, known)' = Answer(slot, known)
                              /\ Consulted(slot, known)' = Consulted(slot, known)
         /\ \A slot, store, known : /\ Tells(slot, store, known)' = Tells(slot, store, known)
                                     /\ Knows(slot, store, known)' = Knows(slot, store, known)
<1>1. \A slot : Refs(slot)' = Refs(slot) /\ Readable(slot)' = Readable(slot) /\ Variable(slot)' = Variable(slot)
  BY DEF Refs, Readable, Variable
<1>2. Remote' = Remote
  BY <1>1 DEF Remote
<1>3. RemoteSlots' = RemoteSlots
  BY <1>2 DEF RemoteSlots
<1>4. \A slot, store, known : /\ Tells(slot, store, known)' = Tells(slot, store, known)
                              /\ Knows(slot, store, known)' = Knows(slot, store, known)
                              /\ From(slot, store, known)' = From(slot, store, known)
  BY <1>1 DEF Tells, Knows, From, Read
<1>5. \A slot, known : /\ Answer(slot, known)' = Answer(slot, known)
                       /\ Consulted(slot, known)' = Consulted(slot, known)
  BY <1>1, <1>4 DEF Answer, Consulted
<1> QED
  BY <1>1, <1>2, <1>3, <1>4, <1>5

LEMMA AnswersDecide ==
  ASSUME given' = given, cfg' = cfg, NEW x, env'[x].answers = env[x].answers
  PROVE  Pending(x)' = Pending(x) /\ Current(x)' = Current(x) /\ Secrets(x)' = Secrets(x)
<1>1. Remote' = Remote /\ \A slot : Readable(slot)' = Readable(slot) /\ Variable(slot)' = Variable(slot)
  BY Constant
<1>2. Pending(x)' = Pending(x)
  BY <1>1 DEF Pending
<1>3. Current(x)' = Current(x)
  BY <1>2 DEF Current
<1>4. Secrets(x)' = Secrets(x)
  BY <1>1 DEF Secrets
<1> QED
  BY <1>2, <1>3, <1>4

(* An environment that keeps what it has resolved keeps what is said of it.*)
LEMMA WalkedStays ==
  ASSUME given' = given, cfg' = cfg, NEW x, Walked(x),
         env'[x].answers = env[x].answers, env'[x].cache = env[x].cache, env'[x].missed = env[x].missed,
         env[x].phase = "resolving" => env'[x].phase = "resolving" \/ Pending(x) = {}
  PROVE  Walked(x)'
<1>1. /\ Pending(x)' = Pending(x) /\ Current(x)' = Current(x) /\ RemoteSlots' = RemoteSlots
  BY AnswersDecide, Constant
<1>2. \A slot : Truthful(x, slot)' = Truthful(x, slot) /\ Refs(slot)' = Refs(slot)
  BY Constant DEF Truthful
<1>3. \A slot, store : /\ Tells(slot, store, env[x].cache)' = Tells(slot, store, env[x].cache)
                       /\ Knows(slot, store, env[x].cache)' = Knows(slot, store, env[x].cache)
  <2>1. \A slot, store, known : /\ Tells(slot, store, known)' = Tells(slot, store, known)
                                /\ Knows(slot, store, known)' = Knows(slot, store, known)
    BY Constant
  <2> QED
    BY <2>1 DEF Tells, Knows, Read
<1> QED
  BY <1>1, <1>2, <1>3 DEF Walked

LEMMA AcceptedStays ==
  ASSUME given' = given, cfg' = cfg, NEW x, Accepted(x), env'[x].answers = env[x].answers,
         env'[x].phase \in {"cold", "resolving", "refused"} \/ env[x].phase \notin {"cold", "resolving", "refused"}
  PROVE  Accepted(x)'
BY AnswersDecide DEF Accepted

(* A nonempty set of numbers has a least element, and Min is one. *)
LEMMA LeastIsIn ==
  ASSUME NEW S \in SUBSET Nat, S # {}
  PROVE  Min(S) \in S
<1> DEFINE R == {p \in Nat \X Nat : p[1] < p[2]}
<1>1. IsWellFoundedOn(R, Nat)
  <2>1. OpToRel(<, Nat) = R
    BY DEF OpToRel
  <2> QED
    BY <2>1, NatLessThanWellFounded
<1>2. PICK x \in S : \A y \in S : ~(<<y, x>> \in R)
  <2> HIDE DEF R
  <2> QED
    BY <1>1, WFMin
<1>3. ASSUME NEW y \in S PROVE x <= y
  <2>1. x \in Nat /\ y \in Nat /\ <<y, x>> \notin R
    BY <1>2
  <2>2. y < x => <<y, x>> \in R
    BY <2>1
  <2> QED
    BY <2>1, <2>2
<1>4. \E z \in S : \A y \in S : z <= y
  BY <1>3
<1> QED
  BY <1>4 DEF Min

LEMMA SlotsAreCounted == DOMAIN SlotOrder \subseteq Nat
<1> DEFINE T == {"jwt.accessTokenSecret", "jwt.refreshTokenSecret", "claimsWebhook.secret", "email.mailer.apiKey",
                 "deliveryWebhook.secret", "sms.apiKey", "sms.username", "sms.password", "idProvider.privateKey",
                 "admin.bootstrapSecret", "admin.rootUser.passwordHash", "connection.password",
                 "tools.sse.distributor.password", "google", "acme", "ops-console", "ops_console", "console"}
<1>1. FixedSlots \in Seq(T)
  BY DEF FixedSlots
<1>2. Providers \in Seq(T) /\ Clients \in Seq(T)
  BY DEF Providers, Clients
<1> HIDE DEF T
<1> QED
  BY <1>1, <1>2 DEF SlotOrder

(* While there is a slot to ask about, it has stores to ask, which are the *)
(* two there are.                                                          *)
LEMMA CurrentIsRemote ==
  ASSUME Given, NEW e, Pending(e) # {}
  PROVE  /\ Current(e) \in RemoteSlots /\ Current(e) \notin DOMAIN env[e].answers
         /\ DOMAIN Refs(Current(e)) # {} /\ DOMAIN Refs(Current(e)) \subseteq {"secretsManager", "ssm"}
<1>1. Pending(e) \subseteq Nat
  BY SlotsAreCounted DEF Pending, Remote
<1>2. Min(Pending(e)) \in Pending(e)
  BY <1>1, LeastIsIn
<1>3. PICK i \in Remote : Current(e) = SlotOrder[i] /\ SlotOrder[i] \notin DOMAIN env[e].answers
  BY <1>2 DEF Pending, Current
<1>4. Current(e) \in Slots(cfg) /\ DOMAIN Refs(Current(e)) # {}
  BY <1>3 DEF Remote, Readable
<1>5. DOMAIN Refs(Current(e)) \subseteq {"secretsManager", "ssm"}
  <2>1. \A slot \in Slots(Load(given)) :
          DOMAIN Referenced(given, Load(given), slot).refs \subseteq {"secretsManager", "ssm"}
    BY DeclarationAssumption DEF Given
  <2>2. \A slot \in Slots(cfg) : DOMAIN Refs(slot) \subseteq {"secretsManager", "ssm"}
    BY <2>1 DEF Given, Refs
  <2> QED
    BY <1>4, <2>2
<1> QED
  BY <1>3, <1>4, <1>5 DEF RemoteSlots

(* Secrets Manager is asked first. *)
LEMMA FirstStore ==
  ASSUME Given, NEW e, Pending(e) # {}, Walked(e)
  PROVE  LET left == DOMAIN Refs(Current(e)) \ env[e].missed
         IN /\ Store(e) \in left
            /\ Store(e) = IF "secretsManager" \in left THEN "secretsManager" ELSE "ssm"
            /\ StoresLeft(e) = {1, 2} <=> left = {"secretsManager", "ssm"}
<1> DEFINE left == DOMAIN Refs(Current(e)) \ env[e].missed
<1>1. left # {} /\ left \subseteq {"secretsManager", "ssm"}
  BY CurrentIsRemote DEF Walked
<1>2. StoresLeft(e) = {i \in 1..2 : StoreOrder[i] \in left}
  BY DEF StoresLeft
<1> HIDE DEF left
<1>3. StoreOrder[1] = "secretsManager" /\ StoreOrder[2] = "ssm"
  BY DEF StoreOrder
<1>4. 1 \in StoresLeft(e) <=> "secretsManager" \in left
  BY <1>2, <1>3
<1>5. 2 \in StoresLeft(e) <=> "ssm" \in left
  BY <1>2, <1>3
<1>6. StoresLeft(e) # {} /\ StoresLeft(e) \subseteq 1..2
  BY <1>1, <1>2, <1>4, <1>5
<1>7. Min(StoresLeft(e)) = IF "secretsManager" \in left THEN 1 ELSE 2
  <2>1. Min(StoresLeft(e)) \in StoresLeft(e)
    BY <1>6, LeastIsIn
  <2>2. CASE 1 \in StoresLeft(e)
    <3>1. \A y \in StoresLeft(e) : 1 <= y
      BY <1>6
    <3>2. \E x \in StoresLeft(e) : \A y \in StoresLeft(e) : x <= y
      BY <2>2, <3>1
    <3>3. \A y \in StoresLeft(e) : Min(StoresLeft(e)) <= y
      BY <3>2, Zenon DEF Min
    <3> QED
      BY <1>4, <1>6, <2>1, <2>2, <3>3
  <2>3. CASE 1 \notin StoresLeft(e)
    BY <1>4, <1>6, <2>1, <2>3
  <2> QED
    BY <2>2, <2>3
<1>8. Store(e) = IF "secretsManager" \in left THEN "secretsManager" ELSE "ssm"
  BY <1>3, <1>7 DEF Store
<1>9. StoresLeft(e) = {1, 2} <=> left = {"secretsManager", "ssm"}
  <2>1. StoresLeft(e) = {1, 2} <=> 1 \in StoresLeft(e) /\ 2 \in StoresLeft(e)
    BY <1>6
  <2>2. left = {"secretsManager", "ssm"} <=> "secretsManager" \in left /\ "ssm" \in left
    BY <1>1
  <2> QED
    BY <1>4, <1>5, <2>1, <2>2
<1> QED
  BY <1>1, <1>8, <1>9 DEF left

(* An item more in the cache leaves the answers that rest on it as true.   *)
LEMMA CacheGrows ==
  ASSUME NEW old, NEW cache, DOMAIN old \subseteq DOMAIN cache, \A i \in DOMAIN old : cache[i] = old[i],
         NEW slot
  PROVE  /\ \A store : Knows(slot, store, old) =>
                         Knows(slot, store, cache) /\ (Tells(slot, store, cache) <=> Tells(slot, store, old))
         /\ Consulted(slot, old) => Consulted(slot, cache) /\ Answer(slot, cache) = Answer(slot, old)
<1>1. ASSUME NEW store, Knows(slot, store, old)
      PROVE  /\ Knows(slot, store, cache) /\ (Tells(slot, store, cache) <=> Tells(slot, store, old))
             /\ store \in DOMAIN Refs(slot) => From(slot, store, cache) = From(slot, store, old)
  BY <1>1 DEF Knows, Tells, From, Read
<1>2. ASSUME Consulted(slot, old) PROVE Consulted(slot, cache) /\ Answer(slot, cache) = Answer(slot, old)
  <2>1. Knows(slot, "secretsManager", old)
    BY <1>2 DEF Consulted
  <2>2. CASE Tells(slot, "secretsManager", old)
    BY <1>1, <2>1, <2>2 DEF Consulted, Answer, Tells
  <2>3. CASE ~Tells(slot, "secretsManager", old)
    <3>1. Knows(slot, "ssm", old)
      BY <1>2, <2>3 DEF Consulted
    <3> QED
      BY <1>1, <2>1, <2>3, <3>1 DEF Consulted, Answer, Tells
  <2> QED
    BY <2>2, <2>3
<1> QED
  BY <1>1, <1>2

-----------------------------------------------------------------------------
(* A step of the walk. *)

(* What an answer that is added, and a cache that has grown, leave true.   *)
LEMMA WalkedSettles ==
  ASSUME Shape, given' = given, cfg' = cfg, NEW e \in Environment, Walked(e),
         NEW slot \in RemoteSlots, NEW answer, NEW cache, Settle(e, slot, answer, cache),
         DOMAIN env[e].cache \subseteq DOMAIN cache, \A i \in DOMAIN env[e].cache : cache[i] = env[e].cache[i],
         slot \notin DOMAIN env[e].answers,
         answer.failed \/ (Consulted(slot, cache) /\ answer = Answer(slot, cache))
  PROVE  Walked(e)'
<1> DEFINE new == env'[e].answers
<1>1. env'[e].missed = {} /\ env'[e].cache = cache
  BY Settles
<1>2. /\ DOMAIN new = {slot} \cup DOMAIN env[e].answers
      /\ new[slot] = answer /\ \A x \in DOMAIN env[e].answers : new[x] = env[e].answers[x]
  BY Settles
<1>3. RemoteSlots' = RemoteSlots
  BY Constant
<1>4. \A x : Truthful(e, x)' <=> \/ new[x].failed
                                 \/ Consulted(x, cache) /\ new[x] = Answer(x, cache)
  <2>1. \A x : Consulted(x, cache)' = Consulted(x, cache) /\ Answer(x, cache)' = Answer(x, cache)
    BY Constant
  <2> QED
    BY <1>1, <2>1 DEF Truthful
<1> HIDE DEF new
<1>5. ASSUME NEW x \in DOMAIN env[e].answers PROVE x \in RemoteSlots /\ Truthful(e, x)'
  <2>1. x \in RemoteSlots /\ Truthful(e, x)
    BY DEF Walked
  <2>2. Consulted(x, env[e].cache) => Consulted(x, cache) /\ Answer(x, cache) = Answer(x, env[e].cache)
    BY CacheGrows
  <2> QED
    BY <1>2, <1>4, <2>1, <2>2 DEF Truthful
<1>6. \A x \in DOMAIN new : x \in RemoteSlots /\ Truthful(e, x)'
  BY <1>2, <1>4, <1>5
<1> QED
  BY <1>1, <1>3, <1>6 DEF Walked, new

(* A store that has answered. *)
LEMMA WalkedHears ==
  ASSUME Shape, Given, given' = given, cfg' = cfg, NEW e \in Environment, Walked(e), Pending(e) # {},
         env[e].phase = "resolving",
         NEW payload, NEW cache, Heard(e, Store(e), payload, cache),
         DOMAIN env[e].cache \subseteq DOMAIN cache, \A i \in DOMAIN env[e].cache : cache[i] = env[e].cache[i],
         Item(e) \in DOMAIN cache, cache[Item(e)] = payload
  PROVE  Walked(e)'
<1>a. PICK slot, store, left :
        slot = Current(e) /\ store = Store(e) /\ left = DOMAIN Refs(slot) \ env[e].missed
  OBVIOUS
<1>1. /\ slot \in RemoteSlots /\ slot \notin DOMAIN env[e].answers
      /\ DOMAIN Refs(slot) \subseteq {"secretsManager", "ssm"}
  BY <1>a, CurrentIsRemote
<1>2. /\ store \in left /\ store = IF "secretsManager" \in left THEN "secretsManager" ELSE "ssm"
      /\ StoresLeft(e) = {1, 2} <=> left = {"secretsManager", "ssm"}
  BY <1>a, FirstStore
<1>3. /\ Knows(slot, store, cache) /\ Read(slot, store, cache) = Selected(Refs(slot)[store], payload)
      /\ Tells(slot, store, cache) <=> Selected(Refs(slot)[store], payload) # NoValue
      /\ From(slot, store, cache) = [value |-> Selected(Refs(slot)[store], payload), source |-> store, failed |-> FALSE]
  BY <1>a, <1>2 DEF Knows, Read, Tells, From, Item
<1>4. "secretsManager" \in env[e].missed => /\ Knows(slot, "secretsManager", cache)
                                             /\ ~Tells(slot, "secretsManager", cache)
  <2>1. "secretsManager" \in env[e].missed => /\ Knows(slot, "secretsManager", env[e].cache)
                                               /\ ~Tells(slot, "secretsManager", env[e].cache)
    BY <1>a DEF Walked
  <2> QED
    BY <2>1, CacheGrows
<1>5. env[e].missed \in {{}, {"secretsManager"}}
  BY DEF Walked
<1>6. store = "ssm" => Knows(slot, "secretsManager", cache) /\ ~Tells(slot, "secretsManager", cache)
  <2>1. CASE "secretsManager" \in env[e].missed
    BY <1>4, <2>1
  <2>2. CASE "secretsManager" \notin DOMAIN Refs(slot)
    BY <2>2 DEF Knows, Tells
  <2> QED
    BY <1>a, <1>2, <2>1, <2>2
<1>7. store \in {"secretsManager", "ssm"}
  BY <1>2
<1>u. CASE Unreadable(Refs(slot)[store], payload)
  <2>1. PICK answer : answer.failed /\ Settle(e, slot, answer, cache)
    BY <1>a, <1>u DEF Heard, Unresolved
  <2> QED
    BY <1>1, <2>1, WalkedSettles
<1>8. CASE ~Unreadable(Refs(slot)[store], payload) /\ Selected(Refs(slot)[store], payload) # NoValue
  <2>1. Settle(e, slot, From(slot, store, cache), cache)
    BY <1>a, <1>3, <1>8 DEF Heard
  <2>2. Consulted(slot, cache) /\ From(slot, store, cache) = Answer(slot, cache)
    BY <1>3, <1>6, <1>7, <1>8 DEF Consulted, Answer
  <2> QED
    BY <1>1, <2>1, <2>2, WalkedSettles
<1>9. CASE /\ ~Unreadable(Refs(slot)[store], payload) /\ Selected(Refs(slot)[store], payload) = NoValue
           /\ StoresLeft(e) # {1, 2}
  <2>1. Settle(e, slot, Variable(slot), cache)
    BY <1>a, <1>9 DEF Heard
  <2>2. ~Tells(slot, "secretsManager", cache) /\ Knows(slot, "secretsManager", cache)
    BY <1>3, <1>6, <1>7, <1>9
  <2>3. ~Tells(slot, "ssm", cache) /\ Knows(slot, "ssm", cache)
    <3>1. CASE store = "ssm"
      BY <1>3, <1>9, <3>1
    <3>2. CASE store # "ssm"
      <4>1. "ssm" \notin left /\ "secretsManager" \in left
        BY <1>a, <1>1, <1>2, <1>7, <1>9, <3>2
      <4>2. "ssm" \notin DOMAIN Refs(slot)
        BY <1>a, <1>5, <4>1
      <4> QED
        BY <4>2 DEF Tells, Knows
    <3> QED
      BY <3>1, <3>2
  <2>4. Consulted(slot, cache) /\ Variable(slot) = Answer(slot, cache)
    BY <2>2, <2>3 DEF Consulted, Answer
  <2> QED
    BY <1>1, <2>1, <2>4, WalkedSettles
<1>10. CASE /\ ~Unreadable(Refs(slot)[store], payload) /\ Selected(Refs(slot)[store], payload) = NoValue
            /\ StoresLeft(e) = {1, 2}
  <2>1. Become(e, [env[e] EXCEPT !.missed = @ \cup {store}, !.cache = cache])
    BY <1>a, <1>10 DEF Heard
  <2>2. store = "secretsManager" /\ env[e].missed = {} /\ {"secretsManager", "ssm"} \subseteq DOMAIN Refs(slot)
    BY <1>a, <1>2, <1>5, <1>10
  <2>3. /\ env'[e].missed = {"secretsManager"} /\ env'[e].cache = cache
        /\ env'[e].answers = env[e].answers /\ env'[e].phase = "resolving"
    <3>1. env'[e] = [env[e] EXCEPT !.missed = @ \cup {store}, !.cache = cache]
      BY <2>1, Becomes
    <3>2. DOMAIN env[e] = DOMAIN Fresh
      BY DEF Shape
    <3> QED
      BY <2>2, <3>1, <3>2 DEF Fresh
  <2>4. Pending(e)' = Pending(e) /\ Current(e)' = slot /\ RemoteSlots' = RemoteSlots
    BY <1>a, <2>3, AnswersDecide, Constant
  <2>5. Refs(slot)' = Refs(slot)
    BY Constant
  <2>6. Knows(slot, "secretsManager", cache)' /\ ~Tells(slot, "secretsManager", cache)'
    BY <1>3, <1>10, <2>2, Constant
  <2>7. ASSUME NEW x \in DOMAIN env[e].answers PROVE x \in RemoteSlots /\ Truthful(e, x)'
    <3>1. x \in RemoteSlots /\ Truthful(e, x)
      BY DEF Walked
    <3>2. Consulted(x, env[e].cache) => Consulted(x, cache) /\ Answer(x, cache) = Answer(x, env[e].cache)
      BY CacheGrows
    <3>3. Consulted(x, cache)' = Consulted(x, cache) /\ Answer(x, cache)' = Answer(x, cache)
      BY Constant
    <3> QED
      BY <2>3, <3>1, <3>2, <3>3 DEF Truthful
  <2> QED
    BY <2>2, <2>3, <2>4, <2>5, <2>6, <2>7 DEF Walked
<1> QED
  BY <1>u, <1>8, <1>9, <1>10

(* An environment that holds no answers has nothing to be untrue to. *)
LEMMA WalkedEmpty ==
  ASSUME NEW e, env'[e].answers = <<>>, env'[e].missed = {}
  PROVE  Walked(e)'
BY DEF Walked

LEMMA WalkedStep ==
  ASSUME Shape, Given, NEW e \in Environment, Acts(e), Walked(e)
  PROVE  Walked(e)'
<1>1. given' = given /\ cfg' = cfg
  BY OneAtATime DEF Next, Acts
<1>2. ASSUME NEW why, Stops(e, why) PROVE Walked(e)'
  BY <1>2, WalkedEmpty DEF Stops
<1>3. ASSUME Keeps(e), env[e].phase # "resolving" PROVE Walked(e)'
  BY <1>1, <1>3, WalkedStays DEF Keeps
<1>4. ASSUME Keeps(e), Pending(e) = {} \/ env'[e].phase = "resolving" PROVE Walked(e)'
  BY <1>1, <1>4, WalkedStays DEF Keeps
<1>5. CASE Start(e)
  BY <1>2, <1>3, <1>5, Starts DEF Proceeds
<1>6. CASE Resolve(e)
  <2>1. PICK payload, cache :
           /\ Heard(e, Store(e), payload, cache)
           /\ \/ Item(e) \in DOMAIN env[e].cache /\ cache = env[e].cache /\ payload = cache[Item(e)]
              \/ Item(e) \notin DOMAIN env[e].cache /\ cache = Over([x \in {Item(e)} |-> payload], env[e].cache)
    BY <1>6, Resolves
  <2>2. /\ DOMAIN env[e].cache \subseteq DOMAIN cache /\ \A i \in DOMAIN env[e].cache : cache[i] = env[e].cache[i]
        /\ Item(e) \in DOMAIN cache /\ cache[Item(e)] = payload
    BY <2>1 DEF Over
  <2>3. Pending(e) # {} /\ env[e].phase = "resolving"
    BY <1>6 DEF Resolve, At
  <2> QED
    BY <1>1, <2>1, <2>2, <2>3, WalkedHears
<1>7. CASE ResolveFails(e)
  <2>1. PICK slot, answer : /\ slot = Current(e) /\ answer.failed
                            /\ Settle(e, slot, answer, env[e].cache)
    BY <1>7 DEF ResolveFails, Unresolved
  <2>2. slot \in RemoteSlots /\ slot \notin DOMAIN env[e].answers
    BY <1>7, <2>1, CurrentIsRemote DEF ResolveFails
  <2> QED
    BY <1>1, <2>1, <2>2, WalkedSettles
<1>8. CASE Evaluate(e)
  BY <1>2, <1>4, <1>8, Evaluates DEF Proceeds
<1>9. CASE Compose(e)
  BY <1>2, <1>3, <1>9, Composes
<1>10. CASE ReadTemplates(e) \/ WriteTemplates(e) \/ TemplatesFail(e)
  BY <1>2, <1>3, <1>10, SeedsTemplates DEF Proceeds
<1>11. CASE Options(e)
  BY <1>2, <1>3, <1>11, TakesOptions DEF Proceeds
<1>12. CASE ResolveKey(e)
  BY <1>2, <1>3, <1>12, ResolvesKey
<1>13. CASE PublishKeys(e)
  BY <1>2, <1>3, <1>13, PublishesKeys
<1>14. CASE ReadSettings(e) \/ WriteSettings(e)
  BY <1>2, <1>3, <1>14, SeedsSettings DEF Proceeds
<1>15. CASE CallFails(e)
  BY <1>2, <1>15, Fails
<1>16. CASE Reclaim(e)
  BY <1>16, Reclaims, FreshIs, WalkedEmpty
<1> QED
  BY <1>5, <1>6, <1>7, <1>8, <1>9, <1>10, <1>11, <1>12, <1>13, <1>14, <1>15, <1>16 DEF Acts

LEMMA AcceptedStep ==
  ASSUME Shape, NEW e \in Environment, Acts(e), Accepted(e)
  PROVE  Accepted(e)'
<1>1. given' = given /\ cfg' = cfg
  BY OneAtATime DEF Next, Acts
<1>2. ASSUME env'[e].phase \in {"cold", "resolving", "refused"} PROVE Accepted(e)'
  BY <1>2 DEF Accepted
<1>3. ASSUME Keeps(e), env[e].phase \notin {"cold", "resolving", "refused"} PROVE Accepted(e)'
  BY <1>1, <1>3, AcceptedStays DEF Keeps
<1>4. ASSUME NEW why, Stops(e, why) PROVE Accepted(e)'
  BY <1>2, <1>4 DEF Stops
<1>5. CASE Start(e)
  BY <1>2, <1>4, <1>5, Starts DEF Proceeds
<1>6. CASE Resolve(e) \/ ResolveFails(e)
  BY <1>2, <1>6, Walks
<1>7. CASE Evaluate(e)
  <2>1. CASE Problems(given, cfg, Secrets(e)) = {} /\ Keeps(e)
    <3>1. Pending(e)' = {} /\ Secrets(e)' = Secrets(e)
      BY <1>1, <1>7, <2>1, Evaluates, AnswersDecide DEF Keeps
    <3> QED
      BY <1>1, <2>1, <3>1 DEF Accepted
  <2> QED
    BY <1>4, <1>7, <2>1, Evaluates DEF Proceeds
<1>8. CASE Compose(e)
  BY <1>3, <1>4, <1>8, Composes
<1>9. CASE ReadTemplates(e) \/ WriteTemplates(e) \/ TemplatesFail(e)
  BY <1>3, <1>4, <1>9, SeedsTemplates DEF Proceeds
<1>10. CASE Options(e)
  BY <1>3, <1>4, <1>10, TakesOptions DEF Proceeds
<1>11. CASE ResolveKey(e)
  BY <1>3, <1>4, <1>11, ResolvesKey
<1>12. CASE PublishKeys(e)
  BY <1>3, <1>4, <1>12, PublishesKeys
<1>13. CASE ReadSettings(e) \/ WriteSettings(e)
  BY <1>3, <1>4, <1>13, SeedsSettings DEF Proceeds
<1>14. CASE CallFails(e)
  BY <1>4, <1>14, Fails
<1>15. CASE Reclaim(e)
  BY <1>2, <1>15, Reclaims, FreshIs
<1> QED
  BY <1>5, <1>6, <1>7, <1>8, <1>9, <1>10, <1>11, <1>12, <1>13, <1>14, <1>15 DEF Acts

SecretsInv == \A e \in Environment : Walked(e) /\ Accepted(e)

LEMMA SecretsHold == Spec => []SecretsInv
<1>1. Init => SecretsInv
  <2> SUFFICES ASSUME Init, NEW e \in Environment PROVE Walked(e) /\ Accepted(e)
    BY Zenon DEF SecretsInv
  <2>1. env[e] = Fresh
    BY DEF Init
  <2>2. env[e].phase = "cold" /\ env[e].answers = <<>> /\ env[e].missed = {}
    BY <2>1, FreshIs
  <2> QED
    BY <2>2 DEF Walked, Accepted
<1>2. Shape /\ Given /\ SecretsInv /\ [Next]_vars => SecretsInv'
  <2> SUFFICES ASSUME Shape, Given, SecretsInv, [Next]_vars, NEW x \in Environment
               PROVE  (Walked(x) /\ Accepted(x))'
    BY DEF SecretsInv
  <2>1. Walked(x) /\ Accepted(x) /\ given' = given /\ cfg' = cfg
    BY OneAtATime DEF SecretsInv
  <2>2. CASE env'[x] = env[x]
    <3>1. Walked(x)'
      BY <2>1, <2>2, WalkedStays
    <3>2. CASE env[x].phase \in {"cold", "resolving", "refused"}
      BY <2>1, <2>2, <3>1, <3>2, AcceptedStays
    <3>3. CASE env[x].phase \notin {"cold", "resolving", "refused"}
      BY <2>1, <2>2, <3>1, <3>3, AcceptedStays
    <3> QED
      BY <3>2, <3>3
  <2>3. CASE Acts(x)
    BY <2>1, <2>3, WalkedStep, AcceptedStep
  <2> QED
    BY <2>2, <2>3, OneAtATime
<1> QED
  BY <1>1, <1>2, ShapeHolds, PTL DEF Spec

(* No secret of a configuration that was accepted has failed. *)
LEMMA NoneFailed ==
  ASSUME NEW e, Problems(given, cfg, Secrets(e)) = {}, NEW slot, Readable(slot)
  PROVE  ~Secrets(e)[slot].failed
<1>1. SecretProblems(cfg, Secrets(e)) = {}
  BY DEF Problems
<1>2. slot \in DOMAIN Secrets(e) /\ slot \in Slots(cfg)
  BY DEF Secrets, Readable
<1>3. ~Failed(Secrets(e), slot)
  BY <1>1, <1>2 DEF SecretProblems
<1> QED
  BY <1>2, <1>3 DEF Failed, SecretOf

(* What an up-to-date environment resolved is what the stores hold. *)
LEMMA AnswersAreTheVault ==
  ASSUME NEW e, Walked(e), Pending(e) = {}, Problems(given, cfg, Secrets(e)) = {},
         \A item \in DOMAIN env[e].cache : env[e].cache[item] = vault[item],
         NEW slot, Readable(slot)
  PROVE  Secrets(e)[slot] = IF slot \in RemoteSlots THEN Answer(slot, vault) ELSE Variable(slot)
<1>1. Secrets(e)[slot] = IF slot \in DOMAIN env[e].answers THEN env[e].answers[slot] ELSE Variable(slot)
  BY DEF Secrets, Readable
<1>2. slot \in DOMAIN env[e].answers <=> slot \in RemoteSlots
  BY DEF Walked, Pending, RemoteSlots
<1>3. ASSUME slot \in DOMAIN env[e].answers PROVE env[e].answers[slot] = Answer(slot, vault)
  <2>1. ~env[e].answers[slot].failed
    BY <1>1, <1>3, NoneFailed
  <2>2. Consulted(slot, env[e].cache) /\ env[e].answers[slot] = Answer(slot, env[e].cache)
    BY <1>3, <2>1 DEF Walked, Truthful
  <2>3. ASSUME NEW store, Knows(slot, store, env[e].cache)
        PROVE  /\ Tells(slot, store, vault) <=> Tells(slot, store, env[e].cache)
               /\ store \in DOMAIN Refs(slot) => From(slot, store, vault) = From(slot, store, env[e].cache)
    BY <2>3 DEF Knows, Tells, From, Read
  <2>4. CASE Tells(slot, "secretsManager", env[e].cache)
    BY <2>2, <2>3, <2>4 DEF Consulted, Answer, Tells
  <2>5. CASE ~Tells(slot, "secretsManager", env[e].cache)
    BY <2>2, <2>3, <2>5 DEF Consulted, Answer, Tells
  <2> QED
    BY <2>4, <2>5
<1> QED
  BY <1>1, <1>2, <1>3

(* In production a provider of its own signs with KMS or with its PEM. *)
LEMMA ProductionHasAKey ==
  ASSUME NEW e, Problems(given, cfg, Secrets(e)) = {}, IsProduction(cfg), Active(cfg), cfg.kmsKeyId = "unset"
  PROVE  SecretValue(Secrets(e), "idProvider.privateKey") # NoValue
<1>1. RS4(cfg, Secrets(e)) = {}
  BY DEF Problems, Rules
<1> QED
  BY <1>1 DEF RS4, When, Holds

(* Two environments that serve, and for which the stores and the alias of  *)
(* the key still say what they said, sign and check with the same secrets, *)
(* and in production with the same key (secrets.go, secret.go, kms.go,     *)
(* app.go): for any environments, declarations, stores and keys.           *)
THEOREM AgreementOfEnvironments == Spec => []EnvironmentsAgree
<1>1. SecretsInv /\ AllKeyed => EnvironmentsAgree
  <2> SUFFICES ASSUME SecretsInv, AllKeyed, NEW e \in Environment, NEW f \in Environment,
                      At(e, "serving"), At(f, "serving"), UpToDate(e), UpToDate(f)
               PROVE  /\ Secrets(e) = Secrets(f)
                      /\ IsProduction(cfg) => env[e].primary = env[f].primary
    BY DEF EnvironmentsAgree, Serving
  <2>1. \A x \in {e, f} : /\ Walked(x) /\ Keyed(x) /\ Pending(x) = {} /\ Problems(given, cfg, Secrets(x)) = {}
                          /\ env[x].phase = "serving"
                          /\ \A item \in DOMAIN env[x].cache : env[x].cache[item] = vault[item]
                          /\ cfg.kmsKeyId # "unset" => env[x].primary = keyOf[cfg.kmsKeyId]
    BY DEF SecretsInv, AllKeyed, Accepted, At, UpToDate
  <2>2. ASSUME NEW slot, Readable(slot) PROVE Secrets(e)[slot] = Secrets(f)[slot]
    BY <2>1, <2>2, AnswersAreTheVault
  <2>3. Secrets(e) = Secrets(f)
    <3>1. \A x : Secrets(x) = [slot \in {y \in Slots(cfg) : Readable(y)} |-> Secrets(x)[slot]]
      BY DEF Secrets
    <3> QED
      BY <2>2, <3>1
  <2>4. ASSUME IsProduction(cfg) PROVE env[e].primary = env[f].primary
    <3>1. CASE cfg.kmsKeyId # "unset"
      BY <2>1, <3>1
    <3>2. CASE ~Active(cfg)
      BY <2>1, <3>2 DEF Keyed
    <3>3. CASE Active(cfg) /\ cfg.kmsKeyId = "unset"
      <4>1. env[e].primary = OwnKey(e) /\ env[f].primary = OwnKey(f)
        BY <2>1, <3>3 DEF Keyed
      <4>2. SecretValue(Secrets(e), "idProvider.privateKey") # NoValue
        BY <2>1, <2>4, <3>3, ProductionHasAKey
      <4> QED
        BY <2>3, <4>1, <4>2 DEF OwnKey
    <3> QED
      BY <3>1, <3>2, <3>3
  <2> QED
    BY <2>3, <2>4
<1> QED
  BY <1>1, SecretsHold, KeyedHolds, PTL

-----------------------------------------------------------------------------
(* What the operator is told. *)

Excused(refusal) == refusal \in {"", "document", "problems", "unsupported", "call"} \/ Overlooked(refusal)

Told(e) ==
  /\ Excused(env[e].refusal)
  /\ env[e].phase = "templates" => cfg.templatesDir # "unset"

LEMMA ExcusedStays ==
  ASSUME given' = given, cfg' = cfg, NEW why
  PROVE  Excused(why)' <=> Excused(why)
<1>1. Declared("idProvider.privateKey")' <=> Declared("idProvider.privateKey")
  BY DEF Declared, Readable, Refs, Variable
<1>2. Overlooked(why)' <=> Overlooked(why)
  BY <1>1 DEF Overlooked
<1> QED
  BY <1>2 DEF Excused

LEMMA WeakKeyIsDeclared ==
  ASSUME NEW e, Walked(e), OwnKey(e).item = "weak"
  PROVE  Declared("idProvider.privateKey")
<1> DEFINE slot == "idProvider.privateKey"
<1>1. SecretValue(Secrets(e), slot) # NoValue
  <2>1. Ephemeral(e).item # "weak"
    BY DEF Ephemeral
  <2> QED
    BY <2>1 DEF OwnKey
<1>2. slot \in DOMAIN Secrets(e) /\ Secrets(e)[slot].value # NoValue
  BY <1>1 DEF SecretValue, SecretOf, Unresolved
<1>3. Readable(slot)
  BY <1>2 DEF Secrets
<1>4. CASE slot \in DOMAIN env[e].answers
  <2>1. slot \in RemoteSlots
    BY <1>4 DEF Walked
  <2>2. DOMAIN Refs(slot) # {}
    BY <2>1 DEF RemoteSlots, Remote
  <2> QED
    BY <1>3, <2>2 DEF Declared
<1>5. CASE slot \notin DOMAIN env[e].answers
  <2>1. Secrets(e)[slot] = Variable(slot)
    BY <1>3, <1>5 DEF Secrets, Readable
  <2>2. Unresolved.value = NoValue
    BY DEF Unresolved
  <2>3. Variable(slot) # Unresolved
    BY <1>2, <2>1, <2>2
  <2> QED
    BY <1>3, <2>3 DEF Declared
<1> QED
  BY <1>4, <1>5

LEMMA ToldStep ==
  ASSUME Shape, NEW e \in Environment, Acts(e), Told(e), Keyed(e), Walked(e), Accepted(e)
  PROVE  Told(e)'
<1>1. given' = given /\ cfg' = cfg
  BY OneAtATime DEF Next, Acts
<1>2. ASSUME NEW why, env'[e].refusal = why, Excused(why), env'[e].phase # "templates" PROVE Told(e)'
  BY <1>1, <1>2, ExcusedStays DEF Told
<1>3. ASSUME NEW why, Stops(e, why), Excused(why) PROVE Told(e)'
  BY <1>2, <1>3 DEF Stops
<1>4. ASSUME env'[e].refusal = env[e].refusal, env'[e].phase # "templates" PROVE Told(e)'
  BY <1>2, <1>4 DEF Told
<1>5. \A why \in {"", "document", "problems", "unsupported", "call"} : Excused(why)
  BY DEF Excused
<1>6. CASE Start(e)
  BY <1>3, <1>4, <1>5, <1>6, Starts DEF Proceeds
<1>7. CASE Resolve(e) \/ ResolveFails(e)
  BY <1>4, <1>7, Walks
<1>8. CASE Evaluate(e)
  BY <1>3, <1>4, <1>5, <1>8, Evaluates DEF Proceeds
<1>9. CASE Compose(e)
  <2>1. ~MigrationWiring(cfg) => Excused("migration")
    <3>1. RS13(cfg) = {}
      BY <1>9, Composes DEF Accepted, Problems, Rules
    <3>2. ~MigrationWiring(cfg) => Migrating(cfg) /\ ~Capable(cfg)
      BY DEF MigrationWiring, Capable
    <3>3. ~MigrationWiring(cfg) => ~DualRead(cfg) /\ ~VerifierConfigured(cfg)
      BY <3>1, <3>2 DEF RS13, When
    <3> QED
      BY <3>3 DEF Excused, Overlooked
  <2> QED
    BY <1>2, <1>3, <1>5, <1>9, <2>1, Composes
<1>10. CASE ReadTemplates(e) \/ WriteTemplates(e) \/ TemplatesFail(e)
  <2>1. cfg.templatesDir # "unset" => Excused("templates")
    BY DEF Excused, Overlooked
  <2>2. CASE Proceeds(e, "templates") /\ cfg.templatesDir # "unset"
    BY <1>1, <2>2, ExcusedStays DEF Told, Proceeds
  <2> QED
    BY <1>3, <1>4, <1>10, <2>1, <2>2, SeedsTemplates DEF Proceeds, Told
<1>11. CASE Options(e)
  <2>1. ~ClaimsOptions(cfg) => Excused("claims")
    BY DEF Excused, Overlooked, ClaimsOptions
  <2>2. ~OAuthOptions(cfg) => Excused("oauth")
    BY DEF Excused, Overlooked, OAuthOptions
  <2> QED
    BY <1>3, <1>4, <1>11, <2>1, <2>2, TakesOptions DEF Proceeds
<1>12. cfg.kmsKeyId # "unset" \/ Declared("idProvider.privateKey") => Excused("key")
  BY DEF Excused, Overlooked
<1>13. CASE ResolveKey(e)
  BY <1>3, <1>4, <1>12, <1>13, ResolvesKey, WeakKeyIsDeclared
<1>14. CASE PublishKeys(e)
  BY <1>3, <1>4, <1>12, <1>14, PublishesKeys DEF Keyed
<1>15. CASE ReadSettings(e) \/ WriteSettings(e)
  <2>1. ~MountAuthSurface(cfg) => Excused("mount")
    BY DEF Excused, Overlooked, MountAuthSurface
  <2> QED
    BY <1>3, <1>4, <1>15, <2>1, SeedsSettings DEF Proceeds
<1>16. CASE CallFails(e)
  BY <1>3, <1>5, <1>16, Fails
<1>17. CASE Reclaim(e)
  BY <1>2, <1>5, <1>17, Reclaims, FreshIs
<1> QED
  BY <1>6, <1>7, <1>8, <1>9, <1>10, <1>11, <1>13, <1>14, <1>15, <1>16, <1>17 DEF Acts

AllTold == \A e \in Environment : Told(e)

LEMMA ToldHolds == Spec => []AllTold
<1>1. Init => AllTold
  <2> SUFFICES ASSUME Init, NEW e \in Environment PROVE Told(e)
    BY Zenon DEF AllTold
  <2>1. env[e] = Fresh
    BY DEF Init
  <2>2. env[e].phase = "cold" /\ env[e].refusal = ""
    BY <2>1, FreshIs
  <2> QED
    BY <2>2 DEF Told, Excused
<1>2. Shape /\ AllKeyed /\ SecretsInv /\ AllTold /\ [Next]_vars => AllTold'
  <2> SUFFICES ASSUME Shape, AllKeyed, SecretsInv, AllTold, [Next]_vars, NEW x \in Environment
               PROVE  Told(x)'
    BY DEF AllTold
  <2>1. Told(x) /\ Keyed(x) /\ Walked(x) /\ Accepted(x)
    BY DEF AllTold, AllKeyed, SecretsInv
  <2>2. CASE env'[x] = env[x]
    <3>1. given' = given /\ cfg' = cfg
      BY OneAtATime
    <3>2. PICK why : why = env[x].refusal
      OBVIOUS
    <3>3. Excused(why)
      BY <2>1, <3>2 DEF Told
    <3>4. Excused(why)'
      BY <3>1, <3>3, ExcusedStays
    <3> QED
      BY <2>1, <2>2, <3>1, <3>2, <3>4 DEF Told
  <2>3. CASE Acts(x)
    BY <2>1, <2>3, ToldStep
  <2> QED
    BY <2>2, <2>3, OneAtATime
<1> QED
  BY <1>1, <1>2, ShapeHolds, KeyedHolds, SecretsHold, PTL DEF Spec

(* The defaults of the knobs that are reported as soon as they are moved. *)
LEMMA DefaultsAre ==
  /\ Defaults["verification"] = "none" /\ Defaults["mailerProvider"] = "unset"
  /\ Defaults["projectId"] = "unset" /\ Defaults["uploadDir"] = "unset"
<1>1. \A k \in {"verification", "mailerProvider", "projectId", "uploadDir"} :
        k \notin LocalKnobs /\ k \notin DOMAIN SecurityKnobs
  BY DEF LocalKnobs, Lifetimes, TokenLifetimes, BrandingKnobs, LimitKnobs, AdminKnobs, ToolsKnobs, SecurityKnobs
<1>2. /\ {"verification", "mailerProvider", "projectId"} \subseteq DOMAIN DeliveryKnobs
      /\ "uploadDir" \notin DOMAIN DeliveryKnobs /\ "uploadDir" \in DOMAIN IdentityKnobs
      /\ DeliveryKnobs["verification"] = "none" /\ DeliveryKnobs["mailerProvider"] = "unset"
      /\ DeliveryKnobs["projectId"] = "unset" /\ IdentityKnobs["uploadDir"] = "unset"
  BY DEF DeliveryKnobs, IdentityKnobs
<1> QED
  BY <1>1, <1>2 DEF Defaults, Over

LEMMA OnBlock ==
  ASSUME NEW on, NEW reads, NEW unread, NEW b, b = Block(on, reads, unread), b.on
  PROVE  on /\ b.unread = unread
<1>1. /\ [on |-> on, reads |-> reads, unread |-> unread].on <=> on
      /\ [on |-> on, reads |-> reads, unread |-> unread].unread = unread
  OBVIOUS
<1> QED
  BY <1>1 DEF Block

(* The knobs that blocks leave unread. *)
LEMMA LeftUnread ==
  ASSUME NEW c, NEW b \in Blocks(c), b.on, NEW k \in b.unread
  PROVE  \/ k \in {"verification", "tokens.accountLinkTtlMinutes", "sms.codeTtlMinutes"} \cup TokenLifetimes
         \/ MailConfigured(c) /\ k = "mailerEndpoint"
         \/ MailConfigured(c) /\ c.mailerProvider # "ses" /\ k = "mailerProvider"
         \/ SMSConfigured(c) /\ k = "smsEndpoint"
         \/ c.providers # {} /\ k = "projectId"
         \/ Active(c) /\ k \in {"idProvider.accessTokenTtl", "idProvider.refreshTokenTtl", "idProvider.publicKey"}
         \/ c.ui /\ k = "uploadDir"
<1>1. CASE b \in CoreBlocks(c)
  <2>1. b.unread \in {{}, {"verification", "tokens.accountLinkTtlMinutes", "sms.codeTtlMinutes"} \cup TokenLifetimes}
    BY <1>1 DEF CoreBlocks, Block
  <2> QED
    BY <2>1
<1>2. CASE b \in DeliveryBlocks(c)
  <2>1. CASE b = Block(MailConfigured(c), {"mailerFrom", "email.mailer.defaultLang"}, {"mailerEndpoint"})
    <3>1. MailConfigured(c) /\ b.unread = {"mailerEndpoint"}
      BY <2>1, OnBlock, Zenon
    <3> QED
      BY <3>1
  <2>2. CASE b = Block(MailConfigured(c) /\ c.mailerProvider # "ses", {}, {"mailerProvider"})
    <3>1. MailConfigured(c) /\ c.mailerProvider # "ses" /\ b.unread = {"mailerProvider"}
      BY <2>2, OnBlock, Zenon
    <3> QED
      BY <3>1
  <2>3. CASE b = Block(SMSConfigured(c), {}, {"smsEndpoint"})
    <3>1. SMSConfigured(c) /\ b.unread = {"smsEndpoint"}
      BY <2>3, OnBlock, Zenon
    <3> QED
      BY <3>1
  <2>4. CASE b = Block(WebhookConfigured(c), {"deliveryUrl", "deliveryWebhook.timeoutMs"}, {})
    <3>1. b.unread = {}
      BY <2>4, OnBlock, Zenon
    <3> QED
      BY <3>1
  <2> QED
    BY <1>2, <2>1, <2>2, <2>3, <2>4, Zenon DEF DeliveryBlocks
<1>3. CASE b \in SurfaceBlocks(c)
  <2> DEFINE link == {"providers", "providerLacks", "onEmailMatch", "oauth.profileMap", "oauth.allowedEmailDomains"}
             idp == {"kmsKeyId", "kmsPrevious", "issuer", "clients", "redirectUris", "jwksPath",
                     "idProvider.jwksCorsOrigins"}
             fixed == {"idProvider.accessTokenTtl", "idProvider.refreshTokenTtl", "idProvider.publicKey"}
             verify == {"jwksUrl", "expectedIssuer", "resourceServer.jwksCacheTtlMs",
                        "resourceServer.jwksFetchTimeoutMs"}
             pages == BrandingKnobs \cup {"assetsDir", "email.mailer.defaultLang"}
  <2>1. CASE b = Block(c.providers # {}, link, {"projectId"})
    <3>1. c.providers # {} /\ b.unread = {"projectId"}
      BY <2>1, OnBlock, Zenon
    <3> QED
      BY <3>1
  <2>2. CASE b = Block(Active(c), idp, fixed)
    <3>1. Active(c) /\ b.unread = fixed
      BY <2>2, OnBlock, Zenon
    <3> QED
      BY <3>1
  <2>3. CASE b = Block(c.ui, pages, {"uploadDir"})
    <3>1. c.ui /\ b.unread = {"uploadDir"}
      BY <2>3, OnBlock, Zenon
    <3> QED
      BY <3>1
  <2>4. CASE \/ b = Block(c.resourceServer, verify, {})
             \/ b = Block(DocsEnabled(c), {"docs.basePath"}, {})
             \/ b = Block(c.rateLimit, LimitKnobs, {})
    <3>1. b.unread = {}
      BY <2>4, OnBlock, Zenon
    <3> QED
      BY <3>1
  <2> QED
    BY <1>3, <2>1, <2>2, <2>3, <2>4, Zenon DEF SurfaceBlocks
<1> QED
  BY <1>1, <1>2, <1>3 DEF Blocks

(* Every knob that was moved and reaches nothing is named, the silent      *)
(* lifetimes apart, for any configuration.                                 *)
LEMMA UnreadIsNamed ==
  ASSUME NEW c, NEW s
  PROVE  Unread(c) \subseteq UnwiredKnobs(c, s) \cup SurfaceWarnings(c) \cup SilentLifetimes
<1> SUFFICES ASSUME NEW k \in Unread(c)
             PROVE  k \in UnwiredKnobs(c, s) \cup SurfaceWarnings(c) \cup SilentLifetimes
  OBVIOUS
<1>1. k \in Moved(c) /\ c[k] # Defaults[k]
  BY DEF Unread, Moved
<1>2. PICK b \in Blocks(c) : b.on /\ k \in b.unread
  BY DEF Unread
<1>3. CASE k \in {"tokens.accountLinkTtlMinutes", "sms.codeTtlMinutes"}
  BY <1>3 DEF SilentLifetimes
<1>4. CASE k \in TokenLifetimes
  BY <1>1, <1>4 DEF UnwiredKnobs
<1>5. CASE k = "verification"
  BY <1>1, <1>5, DefaultsAre DEF UnwiredKnobs, Name
<1>6. CASE MailConfigured(c) /\ k = "mailerEndpoint"
  BY <1>6 DEF UnwiredKnobs, DeliveryKnobGaps, Name
<1>7. CASE MailConfigured(c) /\ c.mailerProvider # "ses" /\ k = "mailerProvider"
  BY <1>1, <1>7, DefaultsAre DEF UnwiredKnobs, DeliveryKnobGaps, Name
<1>8. CASE SMSConfigured(c) /\ k = "smsEndpoint"
  BY <1>8 DEF UnwiredKnobs, DeliveryKnobGaps, Name
<1>9. CASE c.providers # {} /\ k = "projectId"
  BY <1>1, <1>9, DefaultsAre DEF UnwiredKnobs, OAuthKnobGaps, Name
<1>10. CASE Active(c) /\ k \in {"idProvider.accessTokenTtl", "idProvider.refreshTokenTtl", "idProvider.publicKey"}
  BY <1>1, <1>10 DEF UnwiredKnobs, IdPKnobGaps, Name
<1>11. CASE c.ui /\ k = "uploadDir"
  BY <1>1, <1>11, DefaultsAre DEF SurfaceWarnings, Name
<1> QED
  BY <1>2, <1>3, <1>4, <1>5, <1>6, <1>7, <1>8, <1>9, <1>10, <1>11, LeftUnread

(* Every secret that holds a value is presented, reported or one of the    *)
(* silent ones, for any configuration without gaps whose clients are those *)
(* of the model.                                                           *)
LEMMA HeldIsNamed ==
  ASSUME NEW c, NEW s, PhaseGaps(c, s) = {}, c.clients \subseteq {Clients[i] : i \in DOMAIN Clients}
  PROVE  Held(c, s) \subseteq Presented(c) \cup UnwiredKnobs(c, s) \cup SilentSecrets
<1> SUFFICES ASSUME NEW slot \in Slots(c), Holds(s, slot)
             PROVE  slot \in Presented(c) \cup UnwiredKnobs(c, s) \cup SilentSecrets
  BY DEF Held
<1>1. slot \in Held(c, s)
  BY DEF Held
<1>2. CASE slot \in c.providers
  BY <1>2 DEF Presented
<1>3. CASE slot \in c.clients
  BY <1>3 DEF SilentSecrets
<1>4. CASE slot \in {"admin.bootstrapSecret", "admin.rootUser.passwordHash", "tools.sse.distributor.password"}
  <2>1. ~AdminDeclared(c, s) /\ ~ToolsDeclared(c, s)
    BY DEF PhaseGaps, When
  <2> QED
    BY <1>4, <2>1 DEF AdminDeclared, ToolsDeclared
<1>5. CASE slot \in {"claimsWebhook.secret", "connection.password", "idProvider.privateKey"}
  BY <1>5 DEF SilentSecrets
<1>6. CASE slot \in {"email.mailer.apiKey", "sms.apiKey", "sms.username", "sms.password"}
  BY <1>1, <1>6 DEF UnwiredKnobs, DeliveryKnobGaps
<1>7. CASE slot \in {"jwt.accessTokenSecret", "jwt.refreshTokenSecret"}
  BY <1>1, <1>7 DEF UnwiredKnobs, Presented
<1>8. CASE slot = "deliveryWebhook.secret"
  BY <1>1, <1>8 DEF UnwiredKnobs, Presented, DeliveryKnobGaps, Name
<1>9. \A i \in 1..13 : FixedSlots[i] \in
         {"admin.bootstrapSecret", "admin.rootUser.passwordHash", "tools.sse.distributor.password",
          "claimsWebhook.secret", "connection.password", "idProvider.privateKey",
          "email.mailer.apiKey", "sms.apiKey", "sms.username", "sms.password",
          "jwt.accessTokenSecret", "jwt.refreshTokenSecret", "deliveryWebhook.secret"}
  BY DEF FixedSlots
<1>10. DOMAIN FixedSlots = 1..13
  BY DEF FixedSlots
<1> QED
  BY <1>2, <1>3, <1>4, <1>5, <1>6, <1>7, <1>8, <1>9, <1>10 DEF Slots

(* What is declared takes effect, or the operator is told: by the loader,  *)
(* by a warning of the cold start, or by a refusal that is a known one     *)
(* (load.go, app.go), for any declaration, any stores and any of their     *)
(* failures.                                                               *)
THEOREM DeclarationsAreHonoured == Spec => []OperatorIsTold
<1>1. AllTold => LateRefusalsAreKnown
  BY DEF AllTold, Told, Excused, LateRefusalsAreKnown
<1>2. Given /\ SecretsInv => NothingDeclaredIsSilent
  <2> SUFFICES ASSUME Given, SecretsInv, NEW e \in Environment, At(e, "serving")
               PROVE  /\ Unread(cfg) \subseteq UnwiredKnobs(cfg, Secrets(e)) \cup SurfaceWarnings(cfg) \cup SilentLifetimes
                      /\ Held(cfg, Secrets(e)) \subseteq Presented(cfg) \cup UnwiredKnobs(cfg, Secrets(e)) \cup SilentSecrets
                      /\ Active(cfg) /\ Issuer(cfg) = "unset" => "issuer" \in CollectWarnings(cfg, Secrets(e))
    BY DEF NothingDeclaredIsSilent, Serving
  <2>1. Problems(given, cfg, Secrets(e)) = {}
    BY DEF SecretsInv, Accepted, At
  <2>2. PhaseGaps(cfg, Secrets(e)) = {}
    BY <2>1 DEF Problems
  <2>3. cfg.clients \subseteq {Clients[i] : i \in DOMAIN Clients}
    BY DeclarationAssumption DEF Given
  <2>4. Active(cfg) /\ Issuer(cfg) = "unset" => "issuer" \in CollectWarnings(cfg, Secrets(e))
    BY DEF Issuer, CollectWarnings, Name
  <2> QED
    BY <2>2, <2>3, <2>4, UnreadIsNamed, HeldIsNamed
<1> QED
  BY <1>1, <1>2, ShapeHolds, SecretsHold, ToldHolds, PTL DEF OperatorIsTold
=============================================================================

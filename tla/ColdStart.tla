----------------------------- MODULE ColdStart -----------------------------
(* cmd/auth New: the execution environments of one deployment start from   *)
(* the same declaration, each by itself and at any time: they resolve the  *)
(* secrets one call at a time through a cache of their own, load the       *)
(* configuration, refuse to start or compose the stores, the delivery and  *)
(* the options of the core, seed the templates and the runtime settings a  *)
(* store does not hold, learn their signing key, and serve. Meanwhile an   *)
(* operator rotates secrets and re-points the alias of the signing key, an *)
(* administrator saves templates and settings, calls fail, and             *)
(* environments are reclaimed at any step.                                 *)
EXTENDS Wiring, FiniteSetsExt

CONSTANTS
  Environment,   \* execution environments
  Declaration,   \* the declarations a run starts from
  Vault,         \* what the stores hold at first: <<store, item>> -> version, 0 for nothing
  Document,      \* the items that hold a JSON document, with its keys
  KeyOf,         \* the keys that identifiers and aliases first stand for
  Key,           \* signing keys
  MaxVersion,    \* bound on the rotations of a secret
  Nobody         \* no key

(* What a declaration refers to are the two stores there are, and its      *)
(* clients are those the order of the slots lists.                         *)
ASSUME DeclarationAssumption ==
  \A d \in Declaration :
    /\ \A slot \in Slots(Load(d)) : DOMAIN Referenced(d, Load(d), slot).refs \subseteq {"secretsManager", "ssm"}
    /\ Load(d).clients \subseteq {Clients[i] : i \in DOMAIN Clients}

VARIABLES
  given,       \* what is declared
  cfg,         \* the configuration its layers make
  vault,       \* what the secret stores hold
  keyOf,       \* what the identifiers of keys stand for
  stored,      \* who wrote a template or a runtime setting: "none", "seed", "saved"
  env,         \* the environments
  signed       \* the signatures made: by which key, under which name, published by whom

vars == <<given, cfg, vault, keyOf, stored, env, signed>>

Template == {"template"}

Setting == {"require2fa", "enabledWebhookActions", "gracePeriodDays"}

Fresh == [phase |-> "cold", missed |-> {}, answers |-> <<>>, cache |-> <<>>, opened |-> FALSE,
          absent |-> {}, primary |-> Nobody, published |-> {}, refusal |-> ""]

Init ==
  /\ given \in Declaration
  /\ cfg = Load(given)
  /\ vault = Vault
  /\ keyOf = KeyOf
  /\ stored = [k \in Template \cup Setting |-> "none"]
  /\ env = [e \in Environment |-> Fresh]
  /\ signed = {}

At(e, phase) == env[e].phase = phase

Become(e, new) == env' = [env EXCEPT ![e] = new]

Enter(e, phase) == Become(e, [env[e] EXCEPT !.phase = phase])

Refuse(e, why) == Become(e, [Fresh EXCEPT !.phase = "refused", !.refusal = why, !.opened = env[e].opened])

(* The document: two sources for it, or one that cannot be read, is an     *)
(* error before anything is looked at.                                     *)
Start(e) ==
  /\ At(e, "cold")
  /\ IF given.flaw = "unreadable" THEN Refuse(e, "document") ELSE Enter(e, "resolving")
  /\ UNCHANGED <<given, cfg, vault, keyOf, stored, signed>>

-----------------------------------------------------------------------------
(* Secrets: each slot asks Secrets Manager, then SSM, as far as it refers  *)
(* to them and they hold nothing, then its variable.                       *)
StoreOrder == <<"secretsManager", "ssm">>

Refs(slot) == Referenced(given, cfg, slot).refs

Readable(slot) == slot \in Slots(cfg) /\ Form(cfg, slot).kind = "reference"

(* The slots that have stores to ask, and the first that has no answer.    *)
Remote == {i \in DOMAIN SlotOrder : Readable(SlotOrder[i]) /\ DOMAIN Refs(SlotOrder[i]) # {}}

Pending(e) == {i \in Remote : SlotOrder[i] \notin DOMAIN env[e].answers}

Current(e) == SlotOrder[Min(Pending(e))]

StoresLeft(e) == {i \in 1..2 : StoreOrder[i] \in DOMAIN Refs(Current(e)) \ env[e].missed}

(* What the slot's variable, or the one its form names, holds.             *)
Variable(slot) ==
  LET name == IF Form(cfg, slot).variable = "named" THEN "named" ELSE slot
  IN IF name \in DOMAIN given.plain
       THEN [value |-> [item |-> given.plain[name], field |-> "", version |-> 0], source |-> "env", failed |-> FALSE]
       ELSE Unresolved

(* A key is selected from an item that holds no JSON document.             *)
Unreadable(ref, version) == version # 0 /\ ref.field # "" /\ ref.item \notin DOMAIN Document

(* A reference selects the whole item or a key of its JSON document; an    *)
(* item that is missing, and a key it lacks, hold nothing.                 *)
Selected(ref, version) ==
  IF version = 0 \/ (ref.field # "" /\ ref.field \notin Document[ref.item])
    THEN NoValue
    ELSE [item |-> ref.item, field |-> ref.field, version |-> version]

(* An answer settles the slot, and so does one that cannot be read, as     *)
(* failed; when the last store holds nothing, its variable does.           *)
Settle(e, slot, answer, cache) ==
  Become(e, [env[e] EXCEPT !.answers = Over([x \in {slot} |-> answer], @), !.missed = {}, !.cache = cache])

Heard(e, store, payload, cache) ==
  LET slot == Current(e)
      value == Selected(Refs(slot)[store], payload)
  IN IF Unreadable(Refs(slot)[store], payload)
       THEN Settle(e, slot, [Unresolved EXCEPT !.source = store, !.failed = TRUE], cache)
     ELSE IF value # NoValue
       THEN Settle(e, slot, [value |-> value, source |-> store, failed |-> FALSE], cache)
     ELSE IF StoresLeft(e) = {1, 2}
       THEN Become(e, [env[e] EXCEPT !.missed = @ \cup {store}, !.cache = cache])
       ELSE Settle(e, slot, Variable(slot), cache)

(* An item is fetched once per environment, found or missing; a failure is *)
(* not remembered.                                                         *)
Resolve(e) ==
  /\ At(e, "resolving") /\ Pending(e) # {}
  /\ LET store == StoreOrder[Min(StoresLeft(e))]
         item == <<store, Refs(Current(e))[store].item>>
     IN IF item \in DOMAIN env[e].cache
          THEN Heard(e, store, env[e].cache[item], env[e].cache)
          ELSE Heard(e, store, vault[item], Over([x \in {item} |-> vault[item]], env[e].cache))
  /\ UNCHANGED <<given, cfg, vault, keyOf, stored, signed>>

(* Mutant: a store that fails is taken for one that holds nothing.         *)
MutantFailureIsAbsence(e) ==
  /\ At(e, "resolving") /\ Pending(e) # {}
  /\ Heard(e, StoreOrder[Min(StoresLeft(e))], 0, env[e].cache)
  /\ UNCHANGED <<given, cfg, vault, keyOf, stored, signed>>

(* A store that does not answer stops the walk: the slot has failed.       *)
ResolveFails(e) ==
  /\ At(e, "resolving") /\ Pending(e) # {}
  /\ LET store == StoreOrder[Min(StoresLeft(e))]
     IN /\ <<store, Refs(Current(e))[store].item>> \notin DOMAIN env[e].cache
        /\ Settle(e, Current(e), [Unresolved EXCEPT !.source = store, !.failed = TRUE], env[e].cache)
  /\ UNCHANGED <<given, cfg, vault, keyOf, stored, signed>>

Secrets(e) ==
  [slot \in {x \in Slots(cfg) : Readable(x)} |->
     IF slot \in DOMAIN env[e].answers THEN env[e].answers[slot] ELSE Variable(slot)]

(* Every problem at once, or the configuration.                            *)
Evaluate(e) ==
  /\ At(e, "resolving") /\ Pending(e) = {}
  /\ IF Problems(given, cfg, Secrets(e)) # {} THEN Refuse(e, "problems") ELSE Enter(e, "loaded")
  /\ UNCHANGED <<given, cfg, vault, keyOf, stored, signed>>

(* What the declaration alone rules out is refused before any store is     *)
(* opened; then the stores, the migration over them and the delivery.      *)
Compose(e) ==
  /\ At(e, "loaded")
  /\ IF ~Supported(cfg, Secrets(e))
       THEN Refuse(e, "unsupported")
       ELSE Become(e, [env[e] EXCEPT !.opened = TRUE,
                                     !.phase = IF MigrationWiring(cfg) THEN "email" ELSE "refused",
                                     !.refusal = IF MigrationWiring(cfg) THEN "" ELSE "migration"])
  /\ UNCHANGED <<given, cfg, vault, keyOf, stored, signed>>

-----------------------------------------------------------------------------
(* Seeding: what the store held when it was asked is kept, the rest is     *)
(* written. The in-process store is empty in every environment.            *)
Shared == cfg.driver = "dynamodb"

Absent(keys) == IF Shared THEN {k \in keys : stored[k] = "none"} ELSE keys

Seed(keys) == stored' = IF Shared THEN [k \in DOMAIN stored |-> IF k \in keys THEN "seed" ELSE stored[k]] ELSE stored

(* The templates are read from a directory as a whole before any is        *)
(* written; what is wrong with it stops a production deployment and is a   *)
(* warning elsewhere.                                                      *)
Unseeded(e) ==
  IF IsProduction(cfg) THEN Refuse(e, "templates") ELSE Enter(e, "options")

ReadTemplates(e) ==
  /\ At(e, "email")
  /\ IF cfg.templatesDir \in {"missing", "garbled"}
       THEN Unseeded(e)
       ELSE LET absent == IF cfg.templatesDir = "unset" THEN {} ELSE Absent(Template)
            IN Become(e, [env[e] EXCEPT !.phase = IF absent = {} THEN "options" ELSE "templates", !.absent = absent])
  /\ UNCHANGED <<given, cfg, vault, keyOf, stored, signed>>

WriteTemplates(e) ==
  /\ At(e, "templates")
  /\ Seed(env[e].absent)
  /\ Become(e, [env[e] EXCEPT !.phase = "options", !.absent = {}])
  /\ UNCHANGED <<given, cfg, vault, keyOf, signed>>

TemplatesFail(e) ==
  /\ Shared /\ (At(e, "templates") \/ (At(e, "email") /\ cfg.templatesDir = "complete"))
  /\ Unseeded(e)
  /\ UNCHANGED <<given, cfg, vault, keyOf, stored, signed>>

(* The claims and the providers.                                           *)
Options(e) ==
  /\ At(e, "options")
  /\ IF ~ClaimsOptions(cfg) THEN Refuse(e, "claims")
     ELSE IF ~OAuthOptions(cfg) THEN Refuse(e, "oauth")
     ELSE Enter(e, IF Active(cfg) THEN "key" ELSE "settings")
  /\ UNCHANGED <<given, cfg, vault, keyOf, stored, signed>>

-----------------------------------------------------------------------------
(* The signing key: KMS's if an identifier is configured, then the PEM,    *)
(* then one of the environment's own. What an identifier stands for is     *)
(* asked once and kept with the key.                                       *)
Ephemeral(e) == [item |-> "ephemeral", field |-> e, version |-> 0]

ResolveKey(e) ==
  /\ At(e, "key")
  /\ LET pem == SecretValue(Secrets(e), "idProvider.privateKey")
         own == IF pem # NoValue THEN pem ELSE Ephemeral(e)
     IN IF cfg.kmsKeyId # "unset"
          THEN IF keyOf[cfg.kmsKeyId] = Nobody
                 THEN Refuse(e, "key")
                 ELSE Become(e, [env[e] EXCEPT !.phase = "published", !.primary = keyOf[cfg.kmsKeyId],
                                               !.published = {keyOf[cfg.kmsKeyId]}])
          ELSE IF own.item = "weak"
            THEN Refuse(e, "key")
            ELSE Become(e, [env[e] EXCEPT !.phase = "settings", !.primary = own, !.published = {own}])
  /\ UNCHANGED <<given, cfg, vault, keyOf, stored, signed>>

(* The retired keys join the published ones, each of them once.            *)
PublishKeys(e) ==
  /\ At(e, "published")
  /\ LET retired == {keyOf[id] : id \in cfg.kmsPrevious}
     IN IF Nobody \in retired \/ Cardinality({env[e].primary} \cup retired) # 1 + Cardinality(cfg.kmsPrevious)
          THEN Refuse(e, "key")
          ELSE Become(e, [env[e] EXCEPT !.phase = "settings", !.published = @ \cup retired])
  /\ UNCHANGED <<given, cfg, vault, keyOf, stored, signed>>

-----------------------------------------------------------------------------
(* The runtime settings: one read, and one patch of the keys it lacked.    *)
(* Mounting the routes is the last thing that can refuse.                  *)
Mount(e) ==
  IF MountAuthSurface(cfg)
    THEN Become(e, [env[e] EXCEPT !.phase = "serving", !.absent = {}])
    ELSE Refuse(e, "mount")

ReadSettings(e) ==
  /\ At(e, "settings")
  /\ LET absent == IF "settings" \in cfg.enable THEN Absent(cfg.runtimeSettings) ELSE {}
     IN IF absent = {}
          THEN Mount(e)
          ELSE Become(e, [env[e] EXCEPT !.phase = "patch", !.absent = absent])
  /\ UNCHANGED <<given, cfg, vault, keyOf, stored, signed>>

(* Mutant: the patch carries every declared key.                           *)
MutantPatchAll(e) ==
  /\ At(e, "patch")
  /\ Seed(cfg.runtimeSettings)
  /\ Mount(e)
  /\ UNCHANGED <<given, cfg, vault, keyOf, signed>>

WriteSettings(e) ==
  /\ At(e, "patch")
  /\ Seed(env[e].absent)
  /\ Mount(e)
  /\ UNCHANGED <<given, cfg, vault, keyOf, signed>>

(* The calls of these steps that go out and may fail.                      *)
CallFails(e) ==
  /\ \/ At(e, "key") /\ cfg.kmsKeyId # "unset"
     \/ At(e, "published") /\ cfg.kmsPrevious # {}
     \/ At(e, "settings") /\ Shared /\ "settings" \in cfg.enable /\ cfg.runtimeSettings # {}
     \/ At(e, "patch") /\ Shared
  /\ Refuse(e, "call")
  /\ UNCHANGED <<given, cfg, vault, keyOf, stored, signed>>

-----------------------------------------------------------------------------
(* A token is signed with the key the cold start resolved, under the name  *)
(* it has; KMS is asked by the key's own ARN.                              *)
(* Mutant: KMS is asked by the identifier configured.                      *)
MutantByIdentifier(e) == IF cfg.kmsKeyId # "unset" THEN keyOf[cfg.kmsKeyId] ELSE env[e].primary

SigningKey(e) == env[e].primary

Sign(e) ==
  /\ At(e, "serving") /\ Active(cfg)
  /\ signed' = signed \cup {[key |-> SigningKey(e), kid |-> env[e].primary, published |-> env[e].published]}
  /\ UNCHANGED <<given, cfg, vault, keyOf, stored, env>>

(* The operator and the administrator, on what is in use.                  *)
Items == UNION {{<<store, Refs(slot)[store].item>> : store \in DOMAIN Refs(slot)} :
                  slot \in {SlotOrder[i] : i \in Remote}}

Rotate(item) ==
  /\ item \in Items /\ vault[item] < MaxVersion
  /\ vault' = [vault EXCEPT ![item] = @ + 1]
  /\ UNCHANGED <<given, cfg, keyOf, stored, env, signed>>

Repoint(key) ==
  /\ cfg.kmsKeyId # "unset"
  /\ keyOf' = [keyOf EXCEPT ![cfg.kmsKeyId] = key]
  /\ UNCHANGED <<given, cfg, vault, stored, env, signed>>

Save(k) ==
  /\ Shared
  /\ \/ k \in Template /\ cfg.templatesDir = "complete"
     \/ k \in cfg.runtimeSettings
  /\ stored' = [stored EXCEPT ![k] = "saved"]
  /\ UNCHANGED <<given, cfg, vault, keyOf, env, signed>>

(* The platform takes an environment back at any time.                     *)
Reclaim(e) ==
  /\ ~At(e, "cold")
  /\ Become(e, Fresh)
  /\ UNCHANGED <<given, cfg, vault, keyOf, stored, signed>>

Next ==
  \/ \E e \in Environment :
       \/ Start(e) \/ Resolve(e) \/ ResolveFails(e) \/ Evaluate(e) \/ Compose(e)
       \/ ReadTemplates(e) \/ WriteTemplates(e) \/ TemplatesFail(e) \/ Options(e)
       \/ ResolveKey(e) \/ PublishKeys(e) \/ ReadSettings(e) \/ WriteSettings(e) \/ CallFails(e)
       \/ Sign(e) \/ Reclaim(e)
  \/ \E item \in DOMAIN vault : Rotate(item)
  \/ \E key \in Key : Repoint(key)
  \/ \E k \in Template \cup Setting : Save(k)

Spec == Init /\ [][Next]_vars

-----------------------------------------------------------------------------
Serving == {e \in Environment : At(e, "serving")}

(* Two environments that serve, and for which the stores and the alias of  *)
(* the key still say what they said, sign and check with the same secrets, *)
(* and in production with the same key for the identity provider: a store  *)
(* that failed or an item that was missing for one of them never made it   *)
(* run on a value of its own.                                              *)
UpToDate(e) ==
  /\ \A item \in DOMAIN env[e].cache : env[e].cache[item] = vault[item]
  /\ cfg.kmsKeyId # "unset" => env[e].primary = keyOf[cfg.kmsKeyId]

EnvironmentsAgree ==
  \A e, f \in {x \in Serving : UpToDate(x)} :
    /\ Secrets(e) = Secrets(f)
    /\ IsProduction(cfg) => env[e].primary = env[f].primary

(* Whatever the alias has come to stand for, a signature is by the key its *)
(* key identifier names, and the environment that made it publishes it.    *)
SignsWhatItPublishes ==
  \A x \in signed : x.key = x.kid /\ x.key \in x.published

(* The lifetimes that nothing reads and no warning names, and the secrets  *)
(* likewise: a webhook's without the webhook, an identity provider's that  *)
(* is off, the password of a store that takes none.                        *)
SilentLifetimes == {"tokens.accountLinkTtlMinutes", "sms.codeTtlMinutes"}

SilentSecrets ==
  {"claimsWebhook.secret", "connection.password", "idProvider.privateKey"} \cup {Clients[i] : i \in DOMAIN Clients}

(* Beyond those, a deployment that serves reads every knob the operator    *)
(* moved in a block that is on and every secret it holds, or its cold      *)
(* start has named it; and its tokens carry no issuer only after a warning.*)
NothingDeclaredIsSilent ==
  \A e \in Serving :
    LET s == Secrets(e)
    IN /\ Unread(cfg) \subseteq UnwiredKnobs(cfg, s) \cup SurfaceWarnings(cfg) \cup SilentLifetimes
       /\ Held(cfg, s) \subseteq Presented(cfg) \cup UnwiredKnobs(cfg, s) \cup SilentSecrets
       /\ Active(cfg) /\ Issuer(cfg) = "unset" => "issuer" \in CollectWarnings(cfg, s)

(* "Every knob the operator set that the core cannot honour" is reported.  *)
EveryUnreadKnobIsReported ==
  \A e \in Serving : Unread(cfg) \subseteq Named(cfg, Secrets(e))

(* A secret is declared: a store is named for it, or its variable is set.  *)
Declared(slot) == Readable(slot) /\ (DOMAIN Refs(slot) # {} \/ Variable(slot) # Unresolved)

(* What the loader does not look at, and a cold start therefore finds out: *)
(* a migration over the in-process store that only imports, a directory of *)
(* templates, the core's own claims and profile maps, the text of a key,   *)
(* what an identifier stands for, and a route taken by the published keys. *)
Overlooked(refusal) ==
  CASE refusal = "migration" -> ~DualRead(cfg) /\ ~VerifierConfigured(cfg)
    [] refusal = "templates" -> cfg.templatesDir # "unset"
    [] refusal = "claims" -> cfg.extraClaims = "reserved"
    [] refusal = "oauth" -> cfg["oauth.profileMap"] = "ill"
    [] refusal = "key" -> cfg.kmsKeyId # "unset" \/ Declared("idProvider.privateKey")
    [] refusal = "mount" -> cfg.jwksPath = "taken"

(* Once the stores are open, a declaration is refused only for one of      *)
(* these, or because a call failed.                                        *)
LateRefusalsAreKnown ==
  \A e \in Environment :
    env[e].refusal \notin {"", "document", "problems", "unsupported", "call"} => Overlooked(env[e].refusal)

(* What is declared takes effect, or the operator is told: by the loader,  *)
(* by a warning of the cold start, or by a refusal that is a known one.    *)
OperatorIsTold == NothingDeclaredIsSilent /\ LateRefusalsAreKnown

(* What an administrator saved is replaced by a seed only when the cold    *)
(* start that writes it had asked the store before it was saved.           *)
SeedsKeepWhatTheySaw ==
  [][\A k \in Template \cup Setting :
       stored[k] = "saved" /\ stored'[k] # "saved" =>
         \E e \in Environment : k \in env[e].absent]_vars

(* A seed never replaces what an administrator saved.  It does when the    *)
(* save comes between the seed's read and its patch.                       *)
SeedsNeverOverwrite ==
  [][\A k \in Setting : stored[k] = "saved" => stored'[k] = "saved"]_vars
=============================================================================

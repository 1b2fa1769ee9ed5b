--------------------------- MODULE Configuration ---------------------------
(* internal/config: what an operator declares, as a document, environment  *)
(* variables and references to secret stores; how the layers become one    *)
(* configuration; and every problem for which Load refuses it. A knob      *)
(* whose value no other knob's meaning depends on holds "default", "set",  *)
(* "unset" or "ill" (a value its own check rejects); the others hold the   *)
(* values the rules tell apart. The problems are pairs of a rule and the   *)
(* path it is reported at.                                                 *)
EXTENDS Naturals, Sequences, FiniteSets, TLC

(* A layer over another: the entries of f, then those of g. It is the @@   *)
(* of TLC, spelled out because the proof system knows that one by name only. *)
Over(f, g) == [x \in DOMAIN f \cup DOMAIN g |-> IF x \in DOMAIN f THEN f[x] ELSE g[x]]

(* Knobs that only have to be well formed by themselves.                   *)
Lifetimes == {"jwt.accessTokenTtl", "jwt.refreshTokenTtl",
              "idProvider.accessTokenTtl", "idProvider.refreshTokenTtl", "admin.sessionTtl"}

TokenLifetimes == {"tokens.passwordResetTtlMinutes", "tokens.emailVerificationTtlMinutes",
                   "tokens.emailChangeTtlMinutes", "tokens.magicLinkTtlMinutes"}

BrandingKnobs == {"ui.branding.siteName", "ui.branding.primaryColor", "ui.branding.secondaryColor"}

LimitKnobs == {"rateLimit.windowSeconds", "rateLimit.max", "rateLimit.keyBy", "rateLimit.scope"}

AdminKnobs == {"admin.basePath", "admin.loginPath", "admin.rootUser.email",
               "admin.upload.maxFileSizeMb", "admin.sessionTtl"}

ToolsKnobs == {"tools.auth", "tools.basePath", "tools.sse.distributor", "tools.inboundWebhooks.scriptTimeoutMs",
               "tools.outboundWebhooks.defaults"}

LocalKnobs ==
  Lifetimes \cup TokenLifetimes \cup BrandingKnobs \cup LimitKnobs \cup AdminKnobs \cup ToolsKnobs \cup
  {"password.bcryptSaltRounds", "tokens.accountLinkTtlMinutes", "cookies.path", "cookies.refreshTokenPath",
   "email.mailer.defaultLang", "oauth.profileMap", "oauth.allowedEmailDomains", "twoFactor.appName",
   "idProvider.jwksCorsOrigins", "idProvider.publicKey",
   "resourceServer.jwksCacheTtlMs", "resourceServer.jwksFetchTimeoutMs", "http.apiPrefix", "docs.basePath",
   "claimsWebhook.timeoutMs", "deliveryWebhook.timeoutMs", "sms.codeTtlMinutes"}

(* Knobs the rules, the warnings or the wiring read, with their defaults.  *)
SecurityKnobs == [
  environment |-> "production", publicUrl |-> "unset", extraClaims |-> "none", claimsUrl |-> "unset",
  csrf |-> TRUE, cookieSecure |-> FALSE, sameSite |-> "lax", cookieDomain |-> "unset", allowInsecure |-> FALSE,
  checkOn |-> "refresh"]

DeliveryKnobs == [
  siteUrls |-> "unset", verification |-> "none", mailerEndpoint |-> "unset", mailerFrom |-> "unset",
  mailerProvider |-> "unset", templatesDir |-> "unset", deliveryUrl |-> "unset", smsEndpoint |-> "unset",
  providers |-> {}, providerLacks |-> {}, projectId |-> "unset", onEmailMatch |-> "link"]

IdentityKnobs == [
  idpEnabled |-> FALSE, kmsKeyId |-> "unset", kmsPrevious |-> {}, issuer |-> "unset", clients |-> {},
  redirectUris |-> "unset", jwksPath |-> "default",
  resourceServer |-> FALSE, jwksUrl |-> "unset", expectedIssuer |-> "unset",
  ui |-> FALSE, assetsDir |-> "unset", uploadDir |-> "unset",
  admin |-> FALSE, accessPolicy |-> "unset"]

StoreKnobs == [
  tools |-> FALSE, telemetry |-> TRUE, inboundWebhooks |-> TRUE, toolsAuth |-> "unset", rateLimit |-> TRUE,
  driver |-> "memory", tableName |-> "unset", dsn |-> "unset", region |-> "unset",
  enable |-> {"users", "sessions", "tokens"},
  source |-> "unset", userPool |-> "unset", appClient |-> "unset", mode |-> "import-only",
  corsOrigins |-> "unset", swagger |-> "auto", runtimeSettings |-> {}]

Defaults ==
  Over([k \in LocalKnobs |-> "default"],
       Over(SecurityKnobs, Over(DeliveryKnobs, Over(IdentityKnobs, StoreKnobs))))

(* Knobs no environment variable reaches; setting only an OAuth client's   *)
(* identifier, callback or project through the environment makes the       *)
(* provider, so a provider is reachable.                                   *)
DocumentOnly ==
  {"extraClaims", "oauth.profileMap", "templatesDir", "clients", "redirectUris", "assetsDir",
   "tools.sse.distributor"}

(* The slots that hold a secret, in the order they are resolved, and the   *)
(* providers and clients of OAuth, which have one each.                    *)
FixedSlots ==
  << "jwt.accessTokenSecret", "jwt.refreshTokenSecret", "claimsWebhook.secret", "email.mailer.apiKey",
     "deliveryWebhook.secret", "sms.apiKey", "sms.username", "sms.password", "idProvider.privateKey",
     "admin.bootstrapSecret", "admin.rootUser.passwordHash", "connection.password",
     "tools.sse.distributor.password" >>

Providers == << "google", "acme" >>

Clients == << "ops-console", "ops_console", "console" >>

SlotOrder == FixedSlots \o Providers \o Clients

Slots(c) ==
  {FixedSlots[i] : i \in DOMAIN FixedSlots} \cup c.providers \cup c.clients

(* A secret in the document: a literal, an object that cannot be read, or  *)
(* references to stores and perhaps a variable other than the slot's own.  *)
NoForm == [kind |-> "reference", refs |-> <<>>, variable |-> "own"]

Form(c, slot) == IF slot \in DOMAIN c.forms THEN c.forms[slot] ELSE NoForm

Configured(form) == DOMAIN form.refs # {} \/ form.variable = "named"

(* A deployment's declaration: the knobs and secrets its document sets and *)
(* the document's flaw, the knobs its variables set (those that could not  *)
(* be parsed apart, for they leave the knob alone), the stores its         *)
(* suffixed variables name, and which plain variables are set.             *)
NoKnobs == [k \in {} |-> "unset"]

Layered(given) ==
  [k \in DOMAIN Defaults |->
     IF k \in DOMAIN given.environment THEN given.environment[k]
     ELSE IF k \in DOMAIN given.document THEN given.document[k]
     ELSE Defaults[k]]

Load(given) == Over(Layered(given), [forms |-> given.forms])

(* The references of a slot: the variables with a suffix go over those of  *)
(* the document.                                                           *)
Referenced(given, c, slot) ==
  IF slot \in DOMAIN given.suffixes
    THEN [Form(c, slot) EXCEPT !.refs = Over(given.suffixes[slot], @)]
    ELSE Form(c, slot)

(* What is known of the slots after resolving them: a value, or nothing    *)
(* (failed, when a store did not answer).                                  *)
NoValue == [item |-> "", field |-> "", version |-> 0]

Unresolved == [value |-> NoValue, source |-> "", failed |-> FALSE]

SecretOf(s, slot) == IF slot \in DOMAIN s THEN s[slot] ELSE Unresolved

SecretValue(s, slot) == SecretOf(s, slot).value

Holds(s, slot) == SecretValue(s, slot) # NoValue

Failed(s, slot) == SecretOf(s, slot).failed

(* Values below 32 characters, and texts that are no PEM.                  *)
Weak(value) == value.item = "weak"

-----------------------------------------------------------------------------
IsProduction(c) == c.environment = "production"

(* Only what the document says of the private key counts.                  *)
Active(c) == c.idpEnabled \/ Configured(Form(c, "idProvider.privateKey")) \/ c.kmsKeyId # "unset"

Migrating(c) == c.source # "unset"

DualRead(c) == Migrating(c) /\ c.mode = "dual-read"

VerifierConfigured(c) == Migrating(c) /\ c.appClient # "unset"

RedirectOrigins(c) == {k \in {"siteUrls", "corsOrigins"} : c[k] # "unset"}

CookieDeliveryActive(c) == ~c.resourceServer \/ c.admin

AdminGuardVerifiesTokens(c) == c.admin /\ c.accessPolicy # "open"

Capable(c) == c.driver = "dynamodb"

CanListUsers(c) == c.driver \in {"dynamodb", "postgres", "memory"}

When(condition, rule, path) == IF condition THEN {<<rule, path>>} ELSE {}

(* checkSchemaVersion, checkUnknownKeys, the decoder and applyEnv.         *)
LayerProblems(given) ==
  When(given.flaw = "version", "SCHEMA", "schemaVersion") \cup
  When(given.flaw = "unknownKey", "", "unknownKey") \cup
  When(given.flaw = "mistyped", "", "") \cup
  {<<"", k>> : k \in given.garbled}

(* resolveSecrets: a literal, an unreadable reference, a store that did    *)
(* not answer.                                                             *)
SecretProblems(c, s) ==
  {<<"SECRET", slot>> : slot \in {x \in Slots(c) : Form(c, x).kind # "reference" \/ Failed(s, x)}}

(* The well-formedness checks that apply to a configuration: a UI that is  *)
(* off and a limiter that is off are not looked at, and profile maps are   *)
(* nobody's before the provider is built.                                  *)
Checked(c) ==
  LocalKnobs \ ({"oauth.profileMap"}
    \cup (IF c.ui THEN {} ELSE BrandingKnobs)
    \cup (IF c.rateLimit THEN {} ELSE LimitKnobs)
    \cup (IF c.smsEndpoint # "unset" THEN {} ELSE {"sms.codeTtlMinutes"})
    \cup (IF c.claimsUrl # "unset" THEN {} ELSE {"claimsWebhook.timeoutMs"})
    \cup (IF c.deliveryUrl # "unset" THEN {} ELSE {"deliveryWebhook.timeoutMs"}))

RequiredLifetimes(c) ==
  {"jwt.accessTokenTtl", "jwt.refreshTokenTtl"}
    \cup (IF Active(c) THEN {"idProvider.accessTokenTtl", "idProvider.refreshTokenTtl"} ELSE {})
    \cup (IF c.admin THEN {"admin.sessionTtl"} ELSE {})

IllFormed(c) ==
  {<<"", k>> : k \in {x \in Checked(c) \ Lifetimes : c[x] = "ill"}}
    \cup {<<"RS9", k>> : k \in {x \in Lifetimes : c[x] = "ill" \/ (c[x] = "unset" /\ x \in RequiredLifetimes(c))}}

(* Values that must be one of a few.                                       *)
Unlisted(c) ==
  When(c.environment \notin {"production", "development"}, "", "environment") \cup
  When(c.sameSite \notin {"strict", "lax", "none"}, "", "sameSite") \cup
  When(c.checkOn \notin {"allcalls", "refresh", "none"}, "", "checkOn") \cup
  When(c.verification \notin {"none", "lazy", "strict"}, "", "verification") \cup
  When(c.onEmailMatch \notin {"link", "conflict", "reject"}, "", "onEmailMatch") \cup
  When(c.driver \notin {"dynamodb", "postgres", "memory"}, "", "driver") \cup
  When(c.mode \notin {"import-only", "dual-read"}, "", "mode") \cup
  When(c.source \notin {"unset", "cognito"}, "", "source") \cup
  When(c.swagger \notin {"true", "false", "auto"}, "", "swagger") \cup
  When(c.accessPolicy \notin {"unset", "first-user", "is-admin-flag", "open", "rbac"}, "", "accessPolicy")

(* Addresses: credentials travel only over https, except to the loopback   *)
(* of a deployment that is not production; the rest is only absolute.      *)
Relative(c) ==
  {<<"", k>> : k \in {x \in {"publicUrl", "siteUrls", "corsOrigins", "issuer", "mailerEndpoint",
                              "smsEndpoint", "deliveryUrl", "claimsUrl"} : c[x] = "relative"}}

Plain(c) ==
  {<<"", k>> : k \in {x \in {"issuer", "mailerEndpoint", "smsEndpoint", "deliveryUrl", "claimsUrl"} : c[x] = "http"}}

(* The mailer needs both of its halves, and SMS its endpoint, as soon as   *)
(* anything of the block is declared.                                      *)
DeliveryProblems(c) ==
  LET mailer == \/ c.mailerEndpoint # "unset" \/ c.mailerFrom # "unset"
                \/ Configured(Form(c, "email.mailer.apiKey"))
      sms == \E slot \in {"sms.apiKey", "sms.username", "sms.password"} : Configured(Form(c, slot))
  IN When(mailer /\ c.mailerEndpoint = "unset", "", "mailerEndpoint") \cup
     When(mailer /\ c.mailerFrom = "unset", "", "mailerFrom") \cup
     When(sms /\ c.smsEndpoint = "unset", "", "smsEndpoint")

(* A webhook is signed: a receiver without a secret and a secret without a *)
(* receiver are both refused.                                              *)
SignedWebhook(c, s, url, slot) ==
  When(c[url] = "unset" /\ Configured(Form(c, slot)), "", url) \cup
  When(c[url] # "unset" /\ ~Failed(s, slot) /\ ~Holds(s, slot), "", slot)

ClaimProblems(c) == When(c.extraClaims \in {"base", "neither", "both"}, "", "extraClaims")

(* A provider that is not built in brings its own endpoints, one that is   *)
(* brings none.                                                            *)
ProviderProblems(c) ==
  {<<"", p>> : p \in {x \in c.providers \ {"google"} : "tokenUrl" \in c.providerLacks}}

(* Two clients whose identifiers differ by a hyphen read one variable.     *)
SameVariable(i, j) == {i, j} \subseteq {"ops-console", "ops_console"}

ClientProblems(c, s) ==
  {<<"", i>> : i \in {x \in c.clients : ~Failed(s, x) /\ ~Holds(s, x)}} \cup
  When(\E i, j \in c.clients : i # j /\ SameVariable(i, j), "", "clients") \cup
  When(c.clients # {} /\ c.redirectUris \in {"unset", "http", "relative"}, "", "redirectUris")

KeyProblems(c) ==
  When(c.kmsPrevious # {} /\ c.kmsKeyId = "unset", "", "kmsPrevious") \cup
  When(c.kmsKeyId \in c.kmsPrevious, "", "kmsPrevious")

StoreProblems(c) ==
  When(c.driver = "dynamodb" /\ c.tableName = "unset", "", "tableName") \cup
  When(c.driver = "postgres" /\ c.dsn = "unset", "", "dsn") \cup
  When("users" \notin c.enable, "", "enable")

Validate(c, s) ==
  IllFormed(c) \cup Unlisted(c) \cup Relative(c) \cup Plain(c) \cup DeliveryProblems(c) \cup
  SignedWebhook(c, s, "claimsUrl", "claimsWebhook.secret") \cup
  SignedWebhook(c, s, "deliveryUrl", "deliveryWebhook.secret") \cup
  When(c.cookieDomain = "ill", "", "cookieDomain") \cup
  ClaimProblems(c) \cup ProviderProblems(c) \cup ClientProblems(c, s) \cup KeyProblems(c) \cup StoreProblems(c)

-----------------------------------------------------------------------------
(* RS-1: the secrets that sign, long enough and different; a deployment    *)
(* that mints nothing needs none, unless its admin guard reads tokens.     *)
RS1(c, s) ==
  LET slots == IF ~c.resourceServer THEN {"jwt.accessTokenSecret", "jwt.refreshTokenSecret"}
               ELSE IF AdminGuardVerifiesTokens(c) THEN {"jwt.accessTokenSecret"}
               ELSE {}
      lacking == {x \in slots : ~Failed(s, x) /\ (~Holds(s, x) \/ Weak(SecretValue(s, x)))}
      same == /\ Cardinality(slots) = 2
              /\ Holds(s, "jwt.accessTokenSecret")
              /\ SecretValue(s, "jwt.accessTokenSecret") = SecretValue(s, "jwt.refreshTokenSecret")
  IN {<<"RS1", x>> : x \in lacking} \cup When(same, "RS1", "jwt.refreshTokenSecret")

RS2(c) ==
  When(CookieDeliveryActive(c) /\ ~c.allowInsecure /\ c.publicUrl \in {"unset", "shared"}, "RS2", "publicUrl")

RS3(c) == When(CookieDeliveryActive(c) /\ ~c.csrf, "RS3", "csrf")

RS4(c, s) ==
  LET pem == Holds(s, "idProvider.privateKey")
      kms == c.kmsKeyId # "unset"
  IN When(Active(c) /\ pem /\ kms, "RS4", "kmsKeyId") \cup
     When(Active(c) /\ ~pem /\ ~kms /\ IsProduction(c), "RS4", "idProvider.privateKey")

RS5(c) == When(c.sameSite = "none" /\ ~c.cookieSecure, "RS5", "sameSite")

RS6(c, s) ==
  When(c.admin /\ c.accessPolicy = "unset" /\ ~Holds(s, "admin.bootstrapSecret"), "RS6", "accessPolicy")

RS8(c) == When(c.resourceServer /\ c.jwksUrl # "https", "RS8", "jwksUrl")

IdentityConflict(c) == When(c.resourceServer /\ Active(c), "IDENTITY", "resourceServer")

RS10(c) == When(c.accessPolicy = "first-user" /\ ~CanListUsers(c), "RS10", "accessPolicy")

RS11(c, s) ==
  IF c.providers = {} THEN {}
  ELSE When("linkedAccounts" \notin c.enable, "RS11", "enable") \cup
       When(c.onEmailMatch = "conflict" /\ "pendingLinks" \notin c.enable, "RS11", "onEmailMatch") \cup
       {<<"RS11", p>> : p \in {x \in c.providers :
          \/ RedirectOrigins(c) = {}
          \/ c.providerLacks \cap {"clientId", "callbackUrl"} # {}
          \/ ~Holds(s, x)}}

RS12(c) == When(c.driver = "memory" /\ IsProduction(c), "RS12", "driver")

(* Mutant: the driver is not asked.                                        *)
MutantAnyDriver(c) ==
  IF ~Migrating(c)
    THEN When(c.userPool # "unset" \/ c.appClient # "unset" \/ c.mode # "import-only", "RS13", "source")
    ELSE When(c.userPool = "unset", "RS13", "userPool") \cup
         When(c.userPool # "unset" /\ c.region = "unset", "RS13", "region")

(* RS-13: a migration that names nobody to migrate, a pool that cannot be  *)
(* addressed, and what only a driver that holds the marker can do.         *)
RS13(c) ==
  IF ~Migrating(c)
    THEN When(c.userPool # "unset" \/ c.appClient # "unset" \/ c.mode # "import-only", "RS13", "source")
    ELSE When(c.userPool = "unset", "RS13", "userPool") \cup
         When(c.userPool # "unset" /\ c.region = "unset", "RS13", "region") \cup
         When(DualRead(c) /\ ~Capable(c), "RS13", "mode") \cup
         When(VerifierConfigured(c) /\ ~Capable(c), "RS13", "appClient")

(* Features whose store must be on.                                        *)
StoreRequirements(c) ==
  LET require(feature, store) == When(feature /\ store \notin c.enable, "STORE", store)
  IN require(c.checkOn # "none", "sessions") \cup
     require(c.accessPolicy = "rbac", "rbac") \cup
     require(c.templatesDir # "unset", "templates") \cup
     require(c.tools /\ c.inboundWebhooks, "webhooks") \cup
     require(c.runtimeSettings # {}, "settings") \cup
     require(c.tools /\ c.telemetry, "telemetry")

Rules(c, s) ==
  RS1(c, s) \cup RS2(c) \cup RS3(c) \cup RS4(c, s) \cup RS5(c) \cup RS6(c, s) \cup RS8(c) \cup
  IdentityConflict(c) \cup RS10(c) \cup RS11(c, s) \cup RS12(c) \cup RS13(c) \cup StoreRequirements(c)

(* The domains that are validated and not built yet: any difference from   *)
(* their defaults, and any of their secrets, is refused.                   *)
AdminDeclared(c, s) ==
  \/ c.admin \/ c.accessPolicy # "unset"
  \/ \E k \in AdminKnobs : c[k] # "default"
  \/ \E slot \in {"admin.bootstrapSecret", "admin.rootUser.passwordHash"} :
       Form(c, slot) # NoForm \/ Holds(s, slot)

ToolsDeclared(c, s) ==
  \/ c.tools \/ ~c.telemetry \/ ~c.inboundWebhooks \/ c.toolsAuth # "unset"
  \/ \E k \in ToolsKnobs : c[k] # "default"
  \/ Form(c, "tools.sse.distributor.password") # NoForm \/ Holds(s, "tools.sse.distributor.password")

PhaseGaps(c, s) ==
  When(AdminDeclared(c, s), "PHASE", "admin") \cup When(ToolsDeclared(c, s), "PHASE", "tools")

Problems(given, c, s) ==
  LayerProblems(given) \cup SecretProblems(c, s) \cup Validate(c, s) \cup Rules(c, s) \cup PhaseGaps(c, s)
=============================================================================

------------------------------- MODULE Wiring -------------------------------
(* cmd/auth: what the composition of the function makes of a configuration *)
(* that Load accepted: what it cannot support, which knobs and secrets     *)
(* the options of the auth core, the delivery and the HTTP surface read,   *)
(* and which of the rest a cold start names in a warning.                  *)
EXTENDS Configuration

DriverStores(driver) ==
  IF driver \in {"dynamodb", "memory"}
    THEN {"users", "sessions", "tokens", "linkedAccounts", "pendingLinks", "templates", "settings"}
    ELSE {}

CheckStoreSupport(c) ==
  /\ c.enable \subseteq DriverStores(c.driver)
  /\ {"users", "sessions"} \subseteq c.enable

(* RS-1 asks nothing of a deployment that mints nothing; the core does.    *)
CheckResourceServerSupport(c, s) == c.resourceServer => Holds(s, "jwt.accessTokenSecret")

(* The directory must be there and hold a page to fall back to.            *)
CheckUISupport(c) == c.ui => c.assetsDir \in {"unset", "complete"}

Supported(c, s) == CheckStoreSupport(c) /\ CheckResourceServerSupport(c, s) /\ CheckUISupport(c)

MigrationWiring(c) == Migrating(c) => c.driver = "dynamodb"

(* The reserved claims and the syntax of a profile map are the core's.     *)
ClaimsOptions(c) == c.extraClaims # "reserved"

OAuthOptions(c) == c.providers # {} => c["oauth.profileMap"] # "ill"

MountAuthSurface(c) == Active(c) => c.jwksPath # "taken"

MailConfigured(c) == c.mailerFrom # "unset"

SMSConfigured(c) == c.smsEndpoint # "unset"

WebhookConfigured(c) == c.deliveryUrl # "unset"

DocsEnabled(c) == CASE c.swagger = "true" -> TRUE [] c.swagger = "false" -> FALSE [] OTHER -> ~IsProduction(c)

(* Where links and the issuer point: the first site, else the public       *)
(* address; the issuer prefers its own knob and then the public address.   *)
Canonical(c) == IF c.siteUrls # "unset" THEN c.siteUrls ELSE c.publicUrl

Issuer(c) ==
  IF c.issuer # "unset" THEN c.issuer ELSE IF c.publicUrl # "unset" THEN c.publicUrl ELSE c.siteUrls

-----------------------------------------------------------------------------
(* The options are built in blocks. A block is on or off; what it reads    *)
(* reaches the running function when it is on; what it leaves unread       *)
(* belongs to it and reaches nothing.                                      *)
Block(on, reads, unread) == [on |-> on, reads |-> reads, unread |-> unread]

CoreBlocks(c) == {
  Block(TRUE, {"jwt.accessTokenTtl", "jwt.refreshTokenTtl", "password.bcryptSaltRounds", "checkOn",
               "environment", "publicUrl", "siteUrls", "corsOrigins", "driver", "enable", "twoFactor.appName"},
        {"verification", "tokens.accountLinkTtlMinutes", "sms.codeTtlMinutes"} \cup TokenLifetimes),
  Block(TRUE, {"http.apiPrefix", "cookieSecure", "sameSite", "cookies.path", "cookieDomain",
               "cookies.refreshTokenPath", "csrf", "resourceServer", "ui", "swagger", "rateLimit",
               "allowInsecure", "idpEnabled"}, {}),
  Block(c.extraClaims # "none" \/ c.claimsUrl # "unset", {"extraClaims", "claimsUrl", "claimsWebhook.timeoutMs"}, {}),
  Block(c.driver = "dynamodb", {"tableName", "region"}, {}),
  Block(c.driver = "postgres", {"dsn"}, {}),
  Block(Migrating(c), {"source", "userPool", "appClient", "region", "mode"}, {}),
  Block("templates" \in c.enable, {"templatesDir"}, {}),
  Block("settings" \in c.enable, {"runtimeSettings"}, {})}

DeliveryBlocks(c) == {
  Block(MailConfigured(c), {"mailerFrom", "email.mailer.defaultLang"}, {"mailerEndpoint"}),
  Block(MailConfigured(c) /\ c.mailerProvider # "ses", {}, {"mailerProvider"}),
  Block(SMSConfigured(c), {}, {"smsEndpoint"}),
  Block(WebhookConfigured(c), {"deliveryUrl", "deliveryWebhook.timeoutMs"}, {})}

SurfaceBlocks(c) == {
  Block(c.providers # {}, {"providers", "providerLacks", "onEmailMatch", "oauth.profileMap", "oauth.allowedEmailDomains"},
        {"projectId"}),
  Block(Active(c), {"kmsKeyId", "kmsPrevious", "issuer", "clients", "redirectUris", "jwksPath", "idProvider.jwksCorsOrigins"},
        {"idProvider.accessTokenTtl", "idProvider.refreshTokenTtl", "idProvider.publicKey"}),
  Block(c.resourceServer, {"jwksUrl", "expectedIssuer", "resourceServer.jwksCacheTtlMs",
                           "resourceServer.jwksFetchTimeoutMs"}, {}),
  Block(c.ui, BrandingKnobs \cup {"assetsDir", "email.mailer.defaultLang"}, {"uploadDir"}),
  Block(DocsEnabled(c), {"docs.basePath"}, {}),
  Block(c.rateLimit, LimitKnobs, {})}

Blocks(c) == CoreBlocks(c) \cup DeliveryBlocks(c) \cup SurfaceBlocks(c)

Wired(c) == UNION {b.reads : b \in {x \in Blocks(c) : x.on}}

(* The knobs an operator moved that belong to a block that is on and reach *)
(* nothing.                                                                *)
Moved(c) == {k \in DOMAIN Defaults : c[k] # Defaults[k]}

Unread(c) == Moved(c) \cap (UNION {b.unread : b \in {x \in Blocks(c) : x.on}} \ Wired(c))

(* The secrets something presents or signs with, among those that hold a   *)
(* value.                                                                  *)
Presented(c) ==
  {"jwt.accessTokenSecret"} \cup c.providers
    \cup (IF c.claimsUrl # "unset" THEN {"claimsWebhook.secret"} ELSE {})
    \cup (IF WebhookConfigured(c) THEN {"deliveryWebhook.secret"} ELSE {})
    \cup (IF Active(c) THEN {"idProvider.privateKey"} \cup c.clients ELSE {})

Held(c, s) == {slot \in Slots(c) : Holds(s, slot)}

-----------------------------------------------------------------------------
(* Warnings, as the paths they name.                                       *)
Name(condition, paths) == IF condition THEN paths ELSE {}

CollectWarnings(c, s) ==
  Name(Active(c) /\ {c.issuer, c.publicUrl, c.siteUrls} = {"unset"}, {"issuer"}) \cup
  Name(c.resourceServer /\ c.expectedIssuer = "unset", {"expectedIssuer"}) \cup
  Name(c.toolsAuth \in {"unset", "none"}, {"toolsAuth"}) \cup
  Name(IsProduction(c), {slot \in Held(c, s) : SecretOf(s, slot).source = "env"}) \cup
  Name(IsProduction(c) /\ c.swagger = "true", {"swagger"}) \cup
  Name(c.cookieDomain # "unset" /\ c.cookieSecure, {"cookieDomain"})

(* A knob the operator moved is reported where the value differs; some are *)
(* reported as soon as the transport they are part of is on.               *)
DeliveryKnobGaps(c, s) ==
  (Held(c, s) \cap {"email.mailer.apiKey", "sms.apiKey", "sms.username", "sms.password"}) \cup
  Name(MailConfigured(c), {"mailerEndpoint"}) \cup
  Name(MailConfigured(c) /\ c.mailerProvider \notin {"unset", "ses"}, {"mailerProvider"}) \cup
  Name(SMSConfigured(c), {"smsEndpoint"}) \cup
  Name(~WebhookConfigured(c), Held(c, s) \cap {"deliveryWebhook.secret"})

OAuthKnobGaps(c) ==
  Name(c.providers # {} /\ "pendingLinks" \notin c.enable, {"enable"}) \cup
  Name(c.providers # {} /\ c.projectId # "unset", {"projectId"})

(* Mutant: the public key is not reported.                                 *)
MutantTwoLifetimes(c) ==
  Name(Active(c), Moved(c) \cap {"idProvider.accessTokenTtl", "idProvider.refreshTokenTtl"})

IdPKnobGaps(c) ==
  Name(Active(c), Moved(c) \cap {"idProvider.accessTokenTtl", "idProvider.refreshTokenTtl", "idProvider.publicKey"})

RuntimeSettingsKnobGaps(c) == c.runtimeSettings \cap {"enabledWebhookActions", "gracePeriodDays"}

UnwiredKnobs(c, s) ==
  (Held(c, s) \cap {"jwt.refreshTokenSecret"}) \cup
  Name(c.verification # "none", {"verification"}) \cup
  (Moved(c) \cap TokenLifetimes) \cup
  DeliveryKnobGaps(c, s) \cup OAuthKnobGaps(c) \cup IdPKnobGaps(c) \cup RuntimeSettingsKnobGaps(c)

(* What the composition itself says as it goes.                            *)
SurfaceWarnings(c) ==
  Name(Canonical(c) = "unset" /\ (MailConfigured(c) \/ WebhookConfigured(c)), {"siteUrls"}) \cup
  Name(Active(c) /\ Issuer(c) = "unset", {"issuer"}) \cup
  Name(Active(c) /\ c.clients = {}, {"clients"}) \cup
  Name(c.ui /\ c.uploadDir # "unset", {"uploadDir"}) \cup
  Name(DocsEnabled(c) /\ c["docs.basePath"] # "default", {"docs.basePath"})

Named(c, s) == CollectWarnings(c, s) \cup UnwiredKnobs(c, s) \cup SurfaceWarnings(c)
=============================================================================

-------------------------- MODULE MCConfiguration --------------------------
(* Declarations for ColdStart: a few deployments, each also with every     *)
(* knob moved to every value the rules tell apart, and each of those with  *)
(* every switch that turns a block on; and deployments whose secrets and   *)
(* keys come from stores, for which calls fail and operators intervene.    *)
EXTENDS ColdStart

CONSTANTS e1, e2, k1, k2

MCEnvironment == {e1, e2}

MCKey == {k1, k2}

Symmetric == Permutations({e1, e2})

Empty == [document |-> NoKnobs, environment |-> NoKnobs, garbled |-> {}, flaw |-> "none",
          forms |-> <<>>, suffixes |-> <<>>, plain |-> <<>>]

Issuing == [Empty EXCEPT
  !.document = [publicUrl |-> "https", driver |-> "dynamodb", tableName |-> "set"],
  !.plain = ("jwt.accessTokenSecret" :> "one") @@ ("jwt.refreshTokenSecret" :> "two")]

Developing == [Empty EXCEPT
  !.document = [environment |-> "development", allowInsecure |-> TRUE],
  !.plain = Issuing.plain]

Guarding == [Empty EXCEPT
  !.document = [resourceServer |-> TRUE, jwksUrl |-> "https", driver |-> "dynamodb", tableName |-> "set"],
  !.plain = "jwt.accessTokenSecret" :> "one"]

Bases == {Issuing, Developing, Guarding}

(* The values a knob takes besides its default.                            *)
Others == [k \in LocalKnobs |-> {"set", "ill"} \cup (IF k \in Lifetimes THEN {"unset"} ELSE {})] @@ [
  environment |-> {"development", "staging"}, publicUrl |-> {"unset", "shared", "relative"},
  siteUrls |-> {"https", "relative"}, corsOrigins |-> {"https", "relative"},
  extraClaims |-> {"constant", "base", "neither", "both", "reserved"},
  claimsUrl |-> {"https", "http"}, csrf |-> {FALSE}, cookieSecure |-> {TRUE},
  sameSite |-> {"none", "other"}, cookieDomain |-> {"set", "ill"}, allowInsecure |-> {TRUE},
  checkOn |-> {"none", "other"}, verification |-> {"lazy", "other"},
  mailerEndpoint |-> {"https", "http"}, mailerFrom |-> {"set"}, mailerProvider |-> {"ses", "other"},
  templatesDir |-> {"complete", "missing", "garbled"}, deliveryUrl |-> {"https"}, smsEndpoint |-> {"https", "http"},
  providers |-> {{"google"}, {"google", "acme"}}, providerLacks |-> {{"clientId"}, {"tokenUrl"}},
  projectId |-> {"set"}, onEmailMatch |-> {"conflict", "other"},
  idpEnabled |-> {TRUE}, kmsKeyId |-> {"alias"}, kmsPrevious |-> {{"retired"}, {"alias"}},
  issuer |-> {"https", "http"}, clients |-> {{"console"}, {"ops-console", "ops_console"}},
  redirectUris |-> {"https", "http"}, jwksPath |-> {"taken"}, resourceServer |-> {TRUE},
  jwksUrl |-> {"https", "http"}, expectedIssuer |-> {"set"}, ui |-> {TRUE},
  assetsDir |-> {"complete", "partial"}, uploadDir |-> {"set"}, admin |-> {TRUE},
  accessPolicy |-> {"first-user", "open", "rbac", "other"}, tools |-> {TRUE}, telemetry |-> {FALSE},
  inboundWebhooks |-> {FALSE}, toolsAuth |-> {"session"}, rateLimit |-> {FALSE},
  driver |-> {"dynamodb", "postgres", "memory", "other"}, tableName |-> {"unset"}, dsn |-> {"set"},
  enable |-> {{"users", "sessions", "tokens", "linkedAccounts"},
              {"users", "sessions", "tokens", "linkedAccounts", "pendingLinks"},
              {"users", "sessions", "tokens", "templates", "settings"}, {"users"}, {"sessions"},
              {"users", "sessions", "apiKeys"}},
  source |-> {"cognito", "other"}, userPool |-> {"set"}, appClient |-> {"set"}, region |-> {"set"},
  mode |-> {"dual-read", "other"}, swagger |-> {"true", "false"},
  runtimeSettings |-> {{"require2fa"}, {"require2fa", "gracePeriodDays"}, {"enabledWebhookActions"}}]

(* Blocks turned on, with what they need.                                  *)
Full == {"users", "sessions", "tokens", "linkedAccounts", "pendingLinks", "templates", "settings"}

Switches == {
  [document |-> NoKnobs, plain |-> <<>>],
  [document |-> [mailerFrom |-> "set", mailerEndpoint |-> "https", smsEndpoint |-> "https"],
   plain |-> ("email.mailer.apiKey" :> "three") @@ ("sms.password" :> "four")],
  [document |-> [deliveryUrl |-> "https", claimsUrl |-> "https"],
   plain |-> ("deliveryWebhook.secret" :> "three") @@ ("claimsWebhook.secret" :> "four")],
  [document |-> [providers |-> {"google"}, siteUrls |-> "https", enable |-> Full], plain |-> "google" :> "three"],
  [document |-> [idpEnabled |-> TRUE, clients |-> {"console"}, redirectUris |-> "https"],
   plain |-> ("idProvider.privateKey" :> "pem") @@ ("console" :> "three")],
  [document |-> [source |-> "cognito", userPool |-> "set", region |-> "set"], plain |-> <<>>],
  [document |-> [ui |-> TRUE, swagger |-> "true", allowInsecure |-> TRUE], plain |-> "deliveryWebhook.secret" :> "three"]}

Switched(base, w) == [base EXCEPT !.document = w.document @@ @, !.plain = w.plain @@ @]

With(base, k, v) == [base EXCEPT !.document = (k :> v) @@ @]

Through(base, k, v) == [base EXCEPT !.environment = (k :> v) @@ @]

Moves == UNION {{<<k, v>> : v \in Others[k]} : k \in DOMAIN Others}

Swept ==
  LET Switchings == {Switched(b, w) : b \in Bases, w \in Switches}
  IN Switchings
       \cup {Switched(b, w) : b \in Switchings, w \in Switches}
       \cup {With(b, m[1], m[2]) : b \in Switchings, m \in Moves}

(* The layers: what the environment sets goes over the document, what it   *)
(* cannot parse is refused, and the flaws of a document.                   *)
Layers ==
  {Through(With(Issuing, m[1], m[2]), m[1], Defaults[m[1]]) : m \in {x \in Moves : x[1] \notin DocumentOnly}}
    \cup {[Issuing EXCEPT !.garbled = {"rateLimit.max"}]}
    \cup {[Issuing EXCEPT !.flaw = f] : f \in {"unreadable", "version", "unknownKey", "mistyped"}}

(* Secrets of a deployment from stores: two keys of one document, each     *)
(* with a parameter and a variable behind it; one a variable names; a key  *)
(* the document lacks, and one of an item that is no document; a literal.  *)
Ref(item, field) == [item |-> item, field |-> field]

Bundled(slot, field) ==
  slot :> [NoForm EXCEPT !.refs = [secretsManager |-> Ref("bundle", field), ssm |-> Ref("parameter", "")]]

Remotely == [Issuing EXCEPT
  !.forms = Bundled("jwt.accessTokenSecret", "access") @@ Bundled("jwt.refreshTokenSecret", "refresh")]

Remotes == {
  Remotely,
  [Remotely EXCEPT !.forms = Bundled("jwt.refreshTokenSecret", "lost") @@ @],
  [Remotely EXCEPT !.suffixes = "jwt.accessTokenSecret" :> [ssm |-> Ref("other", "")]],
  [Remotely EXCEPT !.forms = "jwt.refreshTokenSecret" :> [NoForm EXCEPT !.refs = [ssm |-> Ref("other", "key")]] @@ @],
  [Issuing EXCEPT !.forms = "jwt.accessTokenSecret" :> [NoForm EXCEPT !.variable = "named"],
                  !.plain = ("named" :> "three") @@ @],
  [Issuing EXCEPT !.forms = "jwt.accessTokenSecret" :> [NoForm EXCEPT !.kind = "literal"]],
  With(Remotely, "idpEnabled", TRUE)}

Keyed == With(With(Issuing, "kmsKeyId", "alias"), "issuer", "https")

Keys == {Keyed, With(Keyed, "kmsPrevious", {"retired"}),
         With(With(Developing, "idpEnabled", TRUE), "issuer", "https")}

Seeding ==
  {With(With(With(base, "enable", Full), "templatesDir", "complete"), "runtimeSettings", {"require2fa", "gracePeriodDays"}) :
     base \in {Issuing, Developing}}

(* What no single move reaches: values that are no secrets or no keys, a   *)
(* driver that is not built, nothing to verify with, an administrator.     *)
Holding(base, slot, value) == [base EXCEPT !.plain = (slot :> value) @@ @]

Singles == {
  Holding(Issuing, "jwt.accessTokenSecret", "weak"), Holding(Issuing, "jwt.accessTokenSecret", "two"),
  Holding(With(Issuing, "idpEnabled", TRUE), "idProvider.privateKey", "weak"),
  Holding(Issuing, "idProvider.privateKey", "pem"), Holding(Issuing, "admin.bootstrapSecret", "three"),
  [Guarding EXCEPT !.plain = <<>>], With([Guarding EXCEPT !.plain = <<>>], "admin", TRUE),
  With(With(Issuing, "driver", "postgres"), "dsn", "set"),
  With(With(Issuing, "driver", "other"), "accessPolicy", "first-user"),
  With(With(Developing, "templatesDir", "missing"), "enable", Full)}

MCDeclaration == Swept \cup Layers \cup Remotes \cup Keys \cup Seeding \cup Singles

MCVault == (<<"secretsManager", "bundle">> :> 1) @@ (<<"ssm", "parameter">> :> 0) @@ (<<"ssm", "other">> :> 1)

MCDocument == [bundle |-> {"access", "refresh"}]

MCKeyOf == [alias |-> k1, retired |-> k2]
=============================================================================

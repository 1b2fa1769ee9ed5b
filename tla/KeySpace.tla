------------------------------- MODULE KeySpace -------------------------------
(***************************************************************************)
(* The layout of the one table (internal/store/dynamodb/keys.go).  Every   *)
(* item of every store is a record under a partition key and a sort key,   *)
(* and some have an entry in GSI1.  The keys are strings, joined from      *)
(* fixed words and what callers supply; all that keeps two records apart   *)
(* is what the checks refuse to join.                                      *)
(*                                                                         *)
(* A string is a sequence of symbols.  A fixed word is one symbol, Sep is  *)
(* '#', and what a caller supplies is some of Text.                        *)
(***************************************************************************)
EXTENDS Sequences, FiniteSets, Naturals

CONSTANTS
  Text,         \* the strings callers supply: sequences of symbols
  Word,         \* fixed-width stamps, day names, window numbers
  MultiTenant,  \* Config.MultiTenant
  MaxItems      \* bound of model checking

Sep == "#"

keysAreText ==
  /\ \A w \in Text : w \in Seq(STRING)
  /\ Word \subseteq STRING \ {Sep}
  /\ MultiTenant \in BOOLEAN
  /\ MaxItems \in Nat

VARIABLES
  table,    \* the items, as records with what their keys are made from
  recorded  \* history: those recorded and not removed, by name

layoutVars == <<table, recorded>>

-----------------------------------------------------------------------------
(* What may become a segment of a key. *)

(* Mutant: any text that is not empty. *)
NotEmpty(w) == w # <<>>

(* idPattern: one character at least, and none of them '#'. *)
checkID(w) == w # <<>> /\ \A i \in DOMAIN w : w[i] # Sep

checkTenant(w) == (w = <<>> /\ ~MultiTenant) \/ checkID(w)

(* An e-mail address, a provider's account id, a state, a hash, a role's   *)
(* name: anything but nothing.                                             *)
checkOpaque(w) == w # <<>>

Id     == {w \in Text : checkID(w)}
Tenant == {w \in Text : checkTenant(w)}
Opaque == {w \in Text : checkOpaque(w)}
Stamp  == {<<s>> : s \in Word}
Unused == {<<>>}

(* A record's kind, tenant, user or owner, and what else names or places   *)
(* it: a provider, service, scope or stamp in p, the rest in x.            *)
Record ==
       [kind: {"profile"}, t: Tenant, u: Id, p: Unused, x: Unused]
  \cup [kind: {"email"}, t: Tenant, u: Unused, p: Unused, x: Opaque]
  \cup [kind: {"session", "sessionidx"}, t: Tenant, u: Id, p: Stamp, x: Id]
  \cup [kind: {"refresh", "reset", "plink", "code", "role", "apikey", "webhook"},
        t: Unused, u: Unused, p: Unused, x: Opaque]
  \cup [kind: {"settings"}, t: Unused, u: Unused, p: Unused, x: Unused]
  \cup [kind: {"tenant"}, t: Id, u: Unused, p: Unused, x: Unused]
  \cup [kind: {"member"}, t: Tenant, u: Id, p: Unused, x: Unused]
  \cup [kind: {"roleassign"}, t: Tenant, u: Id, p: Unused, x: Opaque]
  \cup [kind: {"meta"}, t: Unused, u: Id, p: Unused, x: Opaque]
  \cup [kind: {"link"}, t: Unused, u: Id, p: Id, x: Opaque]
  \cup [kind: {"linkid", "template", "uitranslation"},
        t: Unused, u: Unused, p: Unused, x: Id]
  \cup [kind: {"keyid"}, t: Unused, u: Unused, p: Text, x: Id]
  \cup [kind: {"telemetry"}, t: Tenant, u: Unused, p: Stamp, x: Opaque]
  \cup [kind: {"ratelimit"}, t: Unused, u: Id, p: Stamp, x: Opaque]

(* A record by what names it: a session whosever it is, a link whoever     *)
(* owns it, a key whatever its service.                                    *)
OfSession == {"session", "sessionidx"}

NameOf(r) ==
  [kind |-> r.kind, x |-> r.x,
   t |-> IF r.kind \in OfSession THEN <<>> ELSE r.t,
   u |-> IF r.kind \in OfSession \cup {"link"} THEN <<>> ELSE r.u,
   p |-> IF r.kind \in OfSession \cup {"keyid"} THEN <<>> ELSE r.p]

-----------------------------------------------------------------------------
(* Keys. *)

(* PREFIX#a, and PREFIX#a#b. *)
Tagged(prefix, a)  == <<prefix, Sep>> \o a
Joined(prefix, a, b) == <<prefix, Sep>> \o a \o <<Sep>> \o b

userPK(t, u) == Joined("USER", t, u)

(* The day of a stamp: every stamp is in the same one here. *)
telemetryPK(t) == Joined("TEL", t, <<"day">>)

telemetrySK(at, id) == at \o <<Sep>> \o id

rateLimitPK(scope, subject, window) ==
  Joined("RL", scope, subject) \o <<Sep>> \o window

PartitionKey(r) ==
  [profile |-> userPK(r.t, r.u), roleassign |-> userPK(r.t, r.u),
   email |-> Joined("EMAIL", r.t, r.x),
   session |-> Tagged("SESSION", r.x), sessionidx |-> Tagged("SESSION", r.x),
   refresh |-> Tagged("REFRESH", r.x), reset |-> Tagged("RESET", r.x),
   plink |-> Tagged("PLINK", r.x), code |-> Tagged("OIDC", r.x),
   settings |-> <<"SETTINGS">>, tenant |-> <<"TENANTS">>,
   member |-> Tagged("TENANT", r.t),
   role |-> <<"ROLES">>, meta |-> Tagged("USERMETA", r.u),
   link |-> Joined("OAUTH", r.p, r.x), linkid |-> Tagged("LINKID", r.x),
   template |-> <<"TEMPLATES">>, uitranslation |-> <<"TEMPLATES">>,
   webhook |-> <<"WEBHOOKS">>, apikey |-> Tagged("APIKEY", r.x),
   keyid |-> Tagged("KEYID", r.x), telemetry |-> telemetryPK(r.t),
   ratelimit |-> rateLimitPK(r.u, r.x, r.p)][r.kind]

SortKey(r) ==
  [profile |-> <<"PROFILE">>, roleassign |-> Tagged("ROLE", r.x),
   email |-> <<"EMAIL">>, session |-> <<"SESSION">>, sessionidx |-> <<"SIDX">>,
   refresh |-> <<"REFRESH">>, reset |-> <<"TOKEN">>, plink |-> <<"PLINK">>,
   code |-> <<"CODE">>, settings |-> <<"SETTINGS">>,
   tenant |-> Tagged("TENANT", r.t),
   member |-> Tagged("MEMBER", r.u), role |-> Tagged("ROLE", r.x),
   meta |-> Tagged("META", r.x), link |-> <<"OAUTH">>, linkid |-> <<"LINKID">>,
   template |-> Tagged("MAIL", r.x), uitranslation |-> Tagged("UI", r.x),
   webhook |-> Tagged("WHK", r.x), apikey |-> <<"APIKEY">>,
   keyid |-> <<"KEYID">>, telemetry |-> telemetrySK(r.p, r.x),
   ratelimit |-> <<"RL">>][r.kind]

Key(r) == <<PartitionKey(r), SortKey(r)>>

(* GSI1's keys, of the kinds that are indexed.                             *)
Indexed == {"profile", "session", "sessionidx", "member", "roleassign", "link",
            "apikey", "keyid"}

(* Mutant: the tenant without what ends it. *)
BareTenant(t) == t

(* What begins the directory's sort key of a tenant's users. *)
TenantPrefix(t) == t \o <<Sep>>

userGSI1SK(t, u) == t \o <<Sep>> \o u

IndexKey(r) ==
  [profile |-> <<<<"USER">>, userGSI1SK(r.t, r.u)>>,
   session |-> <<userPK(r.t, r.u), Joined("SESSION", r.p, r.x)>>,
   sessionidx |-> <<<<"SESSION">>, r.x>>,
   member |-> <<Tagged("USERID", r.u), Tagged("TENANT", r.t)>>,
   roleassign |-> <<Tagged("ROLE", r.x), userPK(r.t, r.u)>>,
   link |-> <<Tagged("USERID", r.u), Joined("OAUTH", r.p, r.x)>>,
   apikey |-> <<<<"APIKEY">>, Tagged("created", r.x)>>,
   keyid |-> <<Tagged("APIKEYSVC", r.p), Tagged("created", r.x)>>][r.kind]

-----------------------------------------------------------------------------
Init == table = {} /\ recorded = {}

(* An item is written under its key, over whatever is there.               *)
Put(r) ==
  /\ Cardinality(recorded) < MaxItems
  /\ table' = {s \in table : Key(s) # Key(r)} \cup {r}
  /\ recorded' = {s \in recorded : NameOf(s) # NameOf(r)} \cup {r}

Remove(r) ==
  /\ r \in recorded
  /\ table' = {s \in table : Key(s) # Key(r)}
  /\ recorded' = recorded \ {r}

Next == (\E r \in Record : Put(r)) \/ (\E r \in recorded : Remove(r))

Spec == Init /\ [][Next]_layoutVars

-----------------------------------------------------------------------------
(* Queries.  A partition key is matched whole, a sort key from its start.  *)
BeginsWith(s, prefix) ==
  Len(s) >= Len(prefix) /\ SubSeq(s, 1, Len(prefix)) = prefix

InPartition(pk, prefix) ==
  {r \in table : PartitionKey(r) = pk /\ BeginsWith(SortKey(r), prefix)}

InIndex(pk, prefix) ==
  {r \in table : /\ r.kind \in Indexed
                 /\ IndexKey(r)[1] = pk /\ BeginsWith(IndexKey(r)[2], prefix)}

OfKind(kinds) == {r \in recorded : r.kind \in kinds}

TypeOK == table \subseteq Record /\ recorded \subseteq Record

(* What is recorded is in the table until it is removed by its name, and   *)
(* nothing else is: no record is written over, found or removed under the  *)
(* key of another (keySep, idPattern).                                     *)
RecordsKeepApart == table = recorded

(* Every query selects what it is asked for: a user's roles, sessions,     *)
(* links, memberships and metadata, a tenant's users, a service's keys,    *)
(* and no item of another tenant, of another kind, or of a user whose id   *)
(* continues theirs.                                                       *)
QueriesReachTheirOwn ==
  /\ \A t \in Tenant, u \in Id :
       LET theirs(kinds) == {r \in OfKind(kinds) : r.t = t /\ r.u = u} IN
       /\ InPartition(userPK(t, u), <<>>) = theirs({"profile", "roleassign"})
       /\ InPartition(userPK(t, u), Tagged("ROLE", <<>>)) = theirs({"roleassign"})
       /\ InIndex(userPK(t, u), Tagged("SESSION", <<>>)) = theirs({"session"})
  /\ \A u \in Id :
       LET theirs(kinds) == {r \in OfKind(kinds) : r.u = u} IN
       /\ InPartition(Tagged("USERMETA", u), Tagged("META", <<>>)) = theirs({"meta"})
       /\ InIndex(Tagged("USERID", u), Tagged("OAUTH", <<>>)) = theirs({"link"})
       /\ InIndex(Tagged("USERID", u), Tagged("TENANT", <<>>)) = theirs({"member"})
  /\ \A t \in Tenant :
       LET its(kinds) == {r \in OfKind(kinds) : r.t = t} IN
       /\ InPartition(Tagged("TENANT", t), Tagged("MEMBER", <<>>)) = its({"member"})
       /\ InPartition(telemetryPK(t), <<>>) = its({"telemetry"})
       /\ t # <<>> => InIndex(<<"USER">>, TenantPrefix(t)) = its({"profile"})
  /\ \A w \in Text :
       /\ InIndex(Tagged("APIKEYSVC", w), <<>>) = {r \in OfKind({"keyid"}) : r.p = w}
       /\ InIndex(Tagged("ROLE", w), <<>>) = {r \in OfKind({"roleassign"}) : r.x = w}
  /\ InIndex(<<"USER">>, <<>>) = OfKind({"profile"})
  /\ InIndex(<<"SESSION">>, <<>>) = OfKind({"sessionidx"})
  /\ InIndex(<<"APIKEY">>, <<>>) = OfKind({"apikey"})
  /\ InPartition(<<"TENANTS">>, Tagged("TENANT", <<>>)) = OfKind({"tenant"})
  /\ InPartition(<<"ROLES">>, Tagged("ROLE", <<>>)) = OfKind({"role"})
  /\ InPartition(<<"TEMPLATES">>, Tagged("MAIL", <<>>)) = OfKind({"template"})
  /\ InPartition(<<"TEMPLATES">>, Tagged("UI", <<>>)) = OfKind({"uitranslation"})
  /\ InPartition(<<"WEBHOOKS">>, Tagged("WHK", <<>>)) = OfKind({"webhook"})
=============================================================================

--------------------------- MODULE MCAdministration ---------------------------
(* What an administrator edits, deletes and lists, one part of which is    *)
(* chosen at the start:                                                    *)
(*   resent     a document that is patched with calls lost, few attempts   *)
(*   patient    a document patched with as many attempts as writers        *)
(*   webhook    a webhook                                                  *)
(*   role       a role and its assignments                                 *)
(*   partition  a tenant and its members, or a user's metadata             *)
(*   listing    the walk over users, sessions, keys or webhooks            *)
(*   telemetry  a query of the event log                                   *)
(*   keys       the table as a whole, two items of any kind at a time      *)
EXTENDS Documents, Naturals, TLC

CONSTANTS w1, w2, w3, f1, f2, f3, u1, u2, d1, d2, m1, p1, nobody

CONSTANTS
  PatientAttempts,                                         \* of "patient"
  User, Permission, Deleter, MaxHolders, MaxDefinitions,   \* Roles
  Item, Merger, Clearer, MaxRead,                          \* Partitions
  Listed, WalkLimit, MaxBatch, MaxWindow,                  \* Listings
  Text, Word, MultiTenant, MaxItems                        \* KeySpace

(* Telemetry. *)
CONSTANTS
  EventId, DayLength, Retention, MaxDays, MaxResults, PageSize, Limits, Matches, always,
  MaxTime, MaxEvents

VARIABLES
  part,
  definition, holders, index, deleter, defined, since, late,              \* Roles
  family, directory, items, merger, clearer, putSince, tenancy, under,    \* Partitions
  listing, record, entry, shown, walk, met, steady, shifted,              \* Listings
  now, events, filter, query, due,                                        \* Telemetry
  table, recorded                                                         \* KeySpace

rolesVars == <<definition, holders, index, deleter, defined, since, late>>
partitionVars ==
  <<family, directory, items, merger, clearer, putSince, tenancy, under>>
listingVars == <<listing, record, entry, shown, walk, met, steady, shifted>>
telemetryVars == <<now, events, filter, query, due>>
layoutVars == <<table, recorded>>

(* Identifiers of which one continues the other, and text with separators  *)
(* first and last but one.                                                 *)
MCText == {<<>>, <<"a">>, <<"a", "b">>, <<"#", "a">>, <<"a", "#", "z">>}

(* Two patches of different fields, and one that overlaps the first.       *)
MCPatch == (w1 :> {f1}) @@ (w2 :> {f2}) @@ (w3 :> {f1, f3})

MCMatches == {{1}, {1, 2}}

Patient == INSTANCE Documents WITH
  MaxAttempts <- PatientAttempts, StoreFails <- FALSE

Webhook == INSTANCE Documents WITH
  Family <- "added", MaxAttempts <- PatientAttempts, StoreFails <- FALSE

RolesOf == INSTANCE Roles

PartitionOf == INSTANCE Partitions WITH
  MaxItems <- MaxRead, late <- putSince, since <- under

ListingOf == INSTANCE Listings WITH
  Key <- Listed, Limit <- WalkLimit, index <- shown

LogOf == INSTANCE Telemetry WITH Id <- EventId, Always <- always

KeysOf == INSTANCE KeySpace

ASSUME PatienceAssumption == PatientAttempts \in Nat \ {0}
ASSUME RolesAssumption == RolesOf!boundsAreNumbers
ASSUME PartitionsAssumption == PartitionOf!boundsAreNumbers
ASSUME ListingsAssumption == ListingOf!boundsAreNumbers
ASSUME TelemetryAssumption == LogOf!boundsAreNumbers
ASSUME LayoutAssumption == KeysOf!keysAreText

MCInit ==
  /\ Init /\ RolesOf!Init /\ PartitionOf!Init /\ ListingOf!Init /\ LogOf!Init
  /\ KeysOf!Init
  /\ part \in {"resent", "patient", "webhook", "role", "partition", "listing",
               "telemetry", "keys"}
  /\ part # "partition" => family = "members"
  /\ part # "listing" => listing = "ofItself"

MCNext ==
  /\ \/ /\ \/ part = "resent" /\ Next
           \/ part = "patient" /\ Patient!Next
           \/ part = "webhook" /\ Webhook!Next
        /\ UNCHANGED <<rolesVars, partitionVars, listingVars, telemetryVars, layoutVars>>
     \/ /\ part = "role" /\ RolesOf!Next
        /\ UNCHANGED <<vars, partitionVars, listingVars, telemetryVars, layoutVars>>
     \/ /\ part = "partition" /\ PartitionOf!Next
        /\ UNCHANGED <<vars, rolesVars, listingVars, telemetryVars, layoutVars>>
     \/ /\ part = "listing" /\ ListingOf!Next
        /\ UNCHANGED <<vars, rolesVars, partitionVars, telemetryVars, layoutVars>>
     \/ /\ part = "telemetry" /\ LogOf!Next
        /\ UNCHANGED <<vars, rolesVars, partitionVars, listingVars, layoutVars>>
     \/ /\ part = "keys" /\ KeysOf!Next
        /\ UNCHANGED <<vars, rolesVars, partitionVars, listingVars, telemetryVars>>
  /\ UNCHANGED part

MCSpec ==
  MCInit /\ [][MCNext]_<<vars, rolesVars, partitionVars, listingVars, telemetryVars,
                      layoutVars, part>>

(* Whoever has as many attempts as there are writers lands or is refused   *)
(* for its size, never for the contention (templatePatchAttempts).         *)
PatientNeverConflict == part = "patient" => Patient!NobodyConflicts

(* The patches are applied one by one.  A webhook's are not where it is    *)
(* removed in between, which the first patch may undo (RemovalIsFinal).    *)
DocPatched == INSTANCE PatchedDocument WITH
  fields <- IF part = "webhook" THEN Unset ELSE doc.fields,
  answered <- [w \in Writer |->
                IF part = "webhook" THEN "nothing" ELSE Told(call[w].answer)]

DocumentsArePatched == DocPatched!Spec

(* A deletion that answers success leaves no assignment but those the      *)
(* index did not show it, no member and no metadata but what was put after *)
(* it began.                                                               *)
DeletionLeavesOnlyTheMissed ==
  /\ RolesOf!DeletionLeavesOnlyTheMissed
  /\ PartitionOf!ClearedLeavesOnlyTheLate

(* A walk over a listing that ends with a short page has been handed every *)
(* record that was there, and shown, all along, if no entry left the index *)
(* under way; the answer of a telemetry query has no hole; and a query     *)
(* selects what it is asked for and nothing else, of any two items.        *)
ReadsMissNothing ==
  /\ ListingOf!WalkMeetsEveryone
  /\ LogOf!AnswersHaveNoHoles
  /\ part = "keys" => KeysOf!RecordsKeepApart /\ KeysOf!QueriesReachTheirOwn
=============================================================================

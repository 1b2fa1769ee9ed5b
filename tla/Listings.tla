------------------------------- MODULE Listings -------------------------------
(***************************************************************************)
(* A directory index and a walk over it, page by page                      *)
(* (internal/store/dynamodb/paging.go): ListUsers, GetAllSessions, ListAll *)
(* and ListWebhooks.  The caller asks for Limit records at an offset, and  *)
(* takes a short page to be the last one.                                  *)
(*                                                                         *)
(* The index lags behind the entries it shows.  A user, a key or a webhook *)
(* is its own entry; a session has one beside it, with a TTL of its own    *)
(* (sessionIndexItem), so that an entry may name a session that is gone.   *)
(***************************************************************************)
EXTENDS FiniteSetsExt, Naturals

CONSTANTS
  Key,       \* the entries' sort keys: numbers, for their order
  Limit,     \* records per page
  MaxBatch,  \* maxBatchGetItems: entries per call
  MaxWindow  \* MaxPageWindow: the largest limit + offset

boundsAreNumbers ==
  Key \subseteq Nat \ {0} /\ {Limit, MaxBatch, MaxWindow} \subseteq Nat \ {0}

VARIABLES
  listing,  \* which of the two kinds this is
  record,   \* the records in the table
  entry,    \* the items that the index is to show
  index,    \* GSI1: the entries it shows
  walk,
  met,      \* history: the records the walk has been handed
  steady,   \* history: those recorded and shown ever since it began
  shifted   \* history: an entry before others has left the index since

vars == <<listing, record, entry, index, walk, met, steady, shifted>>

Walk ==
  [pc: {"idle", "query", "resolve", "answer", "end"},
   offset: 0..MaxWindow, skipped: 0..MaxWindow,
   cursor: Key \cup {0}, last: BOOLEAN,     \* ExclusiveStartKey, and none to come
   todo: SUBSET Key, found: SUBSET Key,     \* batchGet
   out: SUBSET Key,
   answer: {"none", "everyone", "windowTooLarge", "failed"}]

TypeOK ==
  /\ listing \in {"ofItself", "beside"}
  /\ record \subseteq Key /\ entry \subseteq Key /\ index \subseteq Key
  /\ walk \in Walk
  /\ met \subseteq Key /\ steady \subseteq Key
  /\ shifted \in BOOLEAN

Init ==
  /\ listing \in {"ofItself", "beside"}
  /\ record = {} /\ entry = {} /\ index = {}
  /\ walk = [pc |-> "idle", offset |-> 0, skipped |-> 0, cursor |-> 0,
             last |-> FALSE, todo |-> {}, found |-> {}, out |-> {},
             answer |-> "none"]
  /\ met = {} /\ steady = {}
  /\ shifted = FALSE

-----------------------------------------------------------------------------
(* The first n of a set of keys, in the order of the index.                *)
First(n, S) == {k \in S : Cardinality({j \in S : j <= k}) <= n}

Walking == walk.pc # "end" /\ (walk.pc # "idle" \/ walk.offset > 0)

(* The record and its entry are one item, or written in one transaction.   *)
Record(k) ==
  /\ k \notin record \cup entry
  /\ record' = record \cup {k} /\ entry' = entry \cup {k}
  /\ UNCHANGED <<listing, index, walk, met, steady, shifted>>

Remove(k) ==
  /\ listing = "ofItself"
  /\ k \in record
  /\ record' = record \ {k} /\ entry' = entry \ {k}
  /\ steady' = steady \ {k}
  /\ UNCHANGED <<listing, index, walk, met, shifted>>

(* Past their TTL, or swept, the two go one by one and in no order.        *)
ReapRecord(k) ==
  /\ listing = "beside"
  /\ k \in record
  /\ record' = record \ {k}
  /\ steady' = steady \ {k}
  /\ UNCHANGED <<listing, entry, index, walk, met, shifted>>

ReapEntry(k) ==
  /\ listing = "beside"
  /\ k \in entry
  /\ entry' = entry \ {k}
  /\ UNCHANGED <<listing, record, index, walk, met, steady, shifted>>

(* The index catches up with an entry. *)
Propagate(k) ==
  /\ (k \in index) # (k \in entry)
  /\ index' = IF k \in entry THEN index \cup {k} ELSE index \ {k}
  /\ steady' = steady \ {k}
  /\ shifted' = (shifted \/ (k \in index /\ Walking))
  /\ UNCHANGED <<listing, record, entry, walk, met>>

-----------------------------------------------------------------------------
(* pageWindow: what is refused before anything is read. *)
InWindow == Limit + walk.offset <= MaxWindow

NextPage ==
  /\ walk.pc = "idle"
  /\ steady' = IF walk.offset = 0 THEN record \cap index ELSE steady
  /\ walk' = IF InWindow
               THEN [walk EXCEPT !.pc = "query", !.skipped = 0, !.cursor = 0,
                                 !.out = {}]
               ELSE [walk EXCEPT !.pc = "end", !.answer = "windowTooLarge"]
  /\ UNCHANGED <<listing, record, entry, index, met, shifted>>

(* What is still to be read of the window, at most a batch.                *)
Want ==
  Min({MaxBatch,
       Limit - Cardinality(walk.out) + (walk.offset - walk.skipped)})

(* Mutant: a page is what one batch resolves to. *)
FilledByOneBatch(out, last) == TRUE

(* A page is filled from the entries that follow, not cut short by one     *)
(* that resolves to nothing.                                               *)
Filled(out, last) == Cardinality(out) = Limit \/ last

(* One page of the index.  Entries inside the offset are counted only.     *)
Query ==
  /\ walk.pc = "query"
  /\ LET rest    == {k \in index : k > walk.cursor}
         page    == First(Want, rest)
         drop    == Min({walk.offset - walk.skipped, Cardinality(page)})
         entries == page \ First(drop, page)
         last    == Cardinality(page) < Want
     IN walk' = [walk EXCEPT
          !.pc = IF entries # {} THEN "resolve"
                 ELSE IF last THEN "answer" ELSE "query",
          !.skipped = @ + drop,
          !.cursor = IF page = {} THEN @ ELSE Max(page),
          !.last = last, !.todo = entries, !.found = {}]
  /\ UNCHANGED <<listing, record, entry, index, met, steady, shifted>>

(* One BatchGetItem: some of the keys are processed, the rest are asked    *)
(* for again.  When none is left the page takes what it has room for.      *)
Resolve(processed) ==
  /\ walk.pc = "resolve"
  /\ LET found == walk.found \cup (processed \cap record)
         out   == walk.out \cup First(Limit - Cardinality(walk.out), found)
     IN walk' = IF processed # walk.todo
                  THEN [walk EXCEPT !.todo = @ \ processed, !.found = found]
                  ELSE [walk EXCEPT
                          !.pc = IF Filled(out, walk.last) THEN "answer" ELSE "query",
                          !.todo = {}, !.found = {}, !.out = out]
  /\ UNCHANGED <<listing, record, entry, index, met, steady, shifted>>

(* Still unprocessed after the retries, or cut off. *)
Fail ==
  /\ walk.pc \in {"query", "resolve"}
  /\ walk' = [walk EXCEPT !.pc = "end", !.answer = "failed"]
  /\ UNCHANGED <<listing, record, entry, index, met, steady, shifted>>

(* A full page: there may be another one.  A short one: nothing follows.   *)
Answer ==
  /\ walk.pc = "answer"
  /\ met' = met \cup walk.out
  /\ walk' = IF Cardinality(walk.out) = Limit
               THEN [walk EXCEPT !.pc = "idle", !.offset = @ + Limit, !.out = {}]
               ELSE [walk EXCEPT !.pc = "end", !.answer = "everyone"]
  /\ UNCHANGED <<listing, record, entry, index, steady, shifted>>

Next ==
  \/ \E k \in Key :
       Record(k) \/ Remove(k) \/ ReapRecord(k) \/ ReapEntry(k) \/ Propagate(k)
  \/ NextPage \/ Query \/ Fail \/ Answer
  \/ \E processed \in SUBSET walk.todo : Resolve(processed)

Spec == Init /\ [][Next]_vars

-----------------------------------------------------------------------------
(* A walk that ends with a short page has been handed every record that    *)
(* was there, and shown by the index, from its first page on -- unless an  *)
(* entry left the index meanwhile.  "A page shortened by one unresolvable  *)
(* entry would silently skip every record after it" (pagedIndexQuery).     *)
WalkMeetsEveryone ==
  walk.answer = "everyone" /\ ~shifted => steady \subseteq met

(* The same without the exception: offsets are positions, so an entry that *)
(* leaves the index moves the ones behind it into a page already read.     *)
(* The code does not have it.                                              *)
WalkMeetsEveryoneAnyway == walk.answer = "everyone" => steady \subseteq met

(* Nor this: a page is counted in records and an offset in entries, so     *)
(* behind an entry that resolves to nothing a record is handed out twice.  *)
NobodyMetTwice == walk.pc = "answer" => walk.out \cap met = {}
=============================================================================

---------------------------- MODULE ReportLookup ----------------------------
(***************************************************************************)
(* main/ble/hid_dev.c: hid_dev_rpt_by_id finds the row of the report table *)
(* for the id of a report, through a direct cache for small ids and a      *)
(* second one for the others.                                              *)
(*                                                                         *)
(* The bridge, the two input tasks and the timer daemon send reports       *)
(* without a lock.  When the BLE stack starts again, the Bluetooth task    *)
(* writes the new handles into the same rows and empties the caches.  A    *)
(* row stands for its id: all reports have one type.                       *)
(***************************************************************************)
EXTENDS Naturals

CONSTANTS Senders,     \* tasks that send reports
          TableIds,    \* ids of the rows of hid_rpt_map
          Low,         \* those below DIRECT_CACHE_SIZE
          NoId,
          LruSize,     \* CACHE_SIZE
          Searched     \* how many of its rows a lookup compares

ASSUME LookupAssumption ==
  /\ Low \subseteq TableIds /\ NoId \notin TableIds
  /\ LruSize \in Nat \ {0} /\ Searched \in 1..LruSize

VARIABLES
  direct,       \* direct_cache
  lru,          \* cache
  lruCount,     \* cache_size
  registered,   \* hid_dev_rpt_tbl is set
  forgetting,   \* hid_dev_register_reports has yet to clear direct_cache
  lookupStage,        \* where each sender is
  wanted,       \* the id it looks for
  slot,         \* the row of the cache it adds; 0 puts it in front of a full one
  reply,        \* the row it was given
  met           \* history: a sender read the cache while another one wrote it

regVars == << registered, forgetting >>
lookupVars == << direct, lru, lruCount, regVars, lookupStage, wanted, slot, reply, met >>

Pairs == [key : TableIds \union {NoId}, row : TableIds \union {NoId}]
Writing == {"moving", "key", "row", "count"}

\* Every variable has its type.
LookupTypeOK ==
  /\ direct \in [Low -> TableIds \union {NoId}]
  /\ lru \in [1..LruSize -> Pairs] /\ lruCount \in 0..LruSize
  /\ registered \in BOOLEAN /\ forgetting \in BOOLEAN
  /\ lookupStage \in [Senders -> Writing \union {"idle", "check", "direct", "search", "found"}]
  /\ wanted \in [Senders -> TableIds \union {NoId}]
  /\ reply \in [Senders -> TableIds \union {NoId}]
  /\ slot \in [Senders -> 0..LruSize]
  /\ met \in BOOLEAN

LookupInit ==
  /\ direct = [i \in Low |-> NoId]
  /\ lru = [i \in 1..LruSize |-> [key |-> NoId, row |-> NoId]] /\ lruCount = 0
  /\ registered = FALSE /\ forgetting = FALSE
  /\ lookupStage = [s \in Senders |-> "idle"] /\ wanted = [s \in Senders |-> NoId]
  /\ reply = [s \in Senders |-> NoId] /\ slot = [s \in Senders |-> 0]
  /\ met = FALSE

-----------------------------------------------------------------------------
(* hid_dev_rpt_by_id.                                                      *)

\* A sender's step.  What follows a meeting may be anything and is left out.
SenderGoes(s, from, to) ==
  /\ ~met
  /\ lookupStage[s] = from /\ lookupStage' = [lookupStage EXCEPT ![s] = to]
  /\ met' = (from \in {"check", "search"} /\ \E t \in Senders \ {s} : lookupStage[t] \in Writing)
  /\ UNCHANGED regVars

Asks(s) ==
  /\ SenderGoes(s, "idle", "check")
  /\ \E id \in TableIds : wanted' = [wanted EXCEPT ![s] = id]
  /\ reply' = [reply EXCEPT ![s] = NoId]
  /\ UNCHANGED << direct, lru, lruCount, slot >>

InDirect(id) == id \in Low /\ direct[id] = id
InLru(id) == {i \in 1..Searched : i <= lruCount /\ lru[i].key = id}

\* The comparison with direct_cache is done; the pointer is loaded again to be returned.
MatchesDirect(s) ==
  /\ InDirect(wanted[s])
  /\ SenderGoes(s, "check", "direct")
  /\ UNCHANGED << direct, lru, lruCount, wanted, slot, reply >>

\* What it returns: the row it compared, where the compiler kept it, or the one there now.
HitsDirect(s) ==
  /\ SenderGoes(s, "direct", "found")
  /\ \E row \in {wanted[s], direct[wanted[s]]} \ {NoId} : reply' = [reply EXCEPT ![s] = row]
  /\ UNCHANGED << direct, lru, lruCount, wanted, slot >>

\* The cache was cleared in between: NULL, and no report is sent.
LosesDirect(s) ==
  /\ SenderGoes(s, "direct", "idle")
  /\ direct[wanted[s]] = NoId
  /\ UNCHANGED << direct, lru, lruCount, wanted, slot, reply >>

HitsLru(s) ==
  /\ ~InDirect(wanted[s])
  /\ SenderGoes(s, "check", "found")
  /\ \E i \in InLru(wanted[s]) :
       /\ \A j \in InLru(wanted[s]) : i <= j
       /\ reply' = [reply EXCEPT ![s] = lru[i].row]
  /\ UNCHANGED << direct, lru, lruCount, wanted, slot >>

Misses(s) ==
  /\ ~InDirect(wanted[s]) /\ InLru(wanted[s]) = {}
  /\ SenderGoes(s, "check", "search")
  /\ UNCHANGED << direct, lru, lruCount, wanted, slot, reply >>

\* The table has a row for every id.
Searches(s) ==
  LET id == wanted[s] IN
  /\ registered
  /\ SenderGoes(s, "search", IF lruCount < LruSize THEN "key" ELSE "moving")
  /\ direct' = IF id \in Low THEN [direct EXCEPT ![id] = id] ELSE direct
  /\ slot' = [slot EXCEPT ![s] = IF lruCount < LruSize THEN lruCount + 1 ELSE 0]
  /\ UNCHANGED << lru, lruCount, wanted, reply >>

\* There is no table yet: no report is sent.
FindsNothing(s) ==
  /\ ~registered
  /\ SenderGoes(s, "search", "idle")
  /\ UNCHANGED << direct, lru, lruCount, wanted, slot, reply >>

\* memmove: the oldest row falls out.
MovesDown(s) ==
  /\ SenderGoes(s, "moving", "key")
  /\ lru' = [i \in 1..LruSize |-> IF i = 1 THEN lru[1] ELSE lru[i - 1]]
  /\ UNCHANGED << direct, lruCount, wanted, slot, reply >>

Place(s) == IF slot[s] = 0 THEN 1 ELSE slot[s]

WritesKey(s) ==
  /\ SenderGoes(s, "key", "row")
  /\ lru' = [lru EXCEPT ![Place(s)].key = wanted[s]]
  /\ UNCHANGED << direct, lruCount, wanted, slot, reply >>

\* Mutant of WritesRow: cache_size is read again for the second half of the pair.
WritesRowAtCount(s) ==
  /\ SenderGoes(s, "row", "count")
  /\ lru' = [lru EXCEPT ![IF slot[s] = 0 THEN 1 ELSE lruCount + 1].row = wanted[s]]
  /\ UNCHANGED << direct, lruCount, wanted, slot, reply >>

WritesRow(s) ==
  /\ SenderGoes(s, "row", "count")
  /\ lru' = [lru EXCEPT ![Place(s)].row = wanted[s]]
  /\ UNCHANGED << direct, lruCount, wanted, slot, reply >>

\* cache_size was read once; it does not change when the cache was full.
CountsRow(s) ==
  /\ SenderGoes(s, "count", "found")
  /\ lruCount' = IF slot[s] = 0 THEN lruCount ELSE slot[s]
  /\ reply' = [reply EXCEPT ![s] = wanted[s]]
  /\ UNCHANGED << direct, lru, wanted, slot >>

\* hid_dev_send_report uses the row and is done with it.
SendsReport(s) ==
  /\ SenderGoes(s, "found", "idle")
  /\ UNCHANGED << direct, lru, lruCount, wanted, slot, reply >>

-----------------------------------------------------------------------------
(* hid_dev_register_reports, on the other core.                            *)

RegisterEmptiesLru ==
  /\ ~forgetting /\ forgetting' = TRUE /\ registered' = TRUE /\ lruCount' = 0
  /\ UNCHANGED << direct, lru, lookupStage, wanted, slot, reply, met >>

RegisterClearsDirect ==
  /\ forgetting /\ forgetting' = FALSE /\ direct' = [i \in Low |-> NoId]
  /\ UNCHANGED << registered, lru, lruCount, lookupStage, wanted, slot, reply, met >>

LookupNext ==
  \/ RegisterEmptiesLru \/ RegisterClearsDirect
  \/ \E s \in Senders : \/ Asks(s) \/ MatchesDirect(s) \/ HitsDirect(s) \/ LosesDirect(s)
                        \/ HitsLru(s) \/ Misses(s) \/ Searches(s) \/ FindsNothing(s)
                        \/ MovesDown(s) \/ WritesKey(s) \/ WritesRow(s)
                        \/ CountsRow(s) \/ SendsReport(s)

LookupSpec == LookupInit /\ [][LookupNext]_lookupVars

-----------------------------------------------------------------------------
\* Whatever the caches hold, and whenever the stack registers the reports again, a
\* report goes out on the handle of its own id, unless two senders met in the cache.
ReportsKeepTheirHandle ==
  ~met => \A s \in Senders : lookupStage[s] = "found" => reply[s] = wanted[s]
=============================================================================

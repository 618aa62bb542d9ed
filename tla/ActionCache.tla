----------------------------- MODULE ActionCache -----------------------------
(***************************************************************************)
(* execute_action_from_string of main/ble/hid_actions.c: the name of an    *)
(* action is looked up in a cache of parsed actions, or parsed and added.  *)
(*                                                                         *)
(* buttons_task and rotary_enc_task have one priority and share the cache  *)
(* without a lock: the tick may take the core from one in favour of the    *)
(* other between any two steps.  A name stands for the pair of effective   *)
(* type and action; what it means is the name itself, or "nothing".        *)
(***************************************************************************)
EXTENDS Naturals

CONSTANTS Tasks,     \* the tasks that execute actions
          Names,     \* the names the settings may hold
          Long,      \* those of more than the 19 characters a row keeps
          Unknown,   \* those no string_to_* function knows
          Slots      \* CACHE_SIZE

ASSUME CacheAssumption ==
  /\ Long \subseteq Names /\ Unknown \subseteq Names
  /\ Slots \in Nat \ {0} /\ "nothing" \notin Names /\ "cut" \notin Names

VARIABLES
  rows,    \* cache
  count,   \* cache_count
  at,      \* where each task is
  name,    \* the name it executes
  row,     \* its pointer into the cache
  does,    \* what it is about to execute
  raced    \* history: a task came into the cache while another was in it

cacheVars == << rows, count, at, name, row, does, raced >>

Kept == (Names \ Long) \union {"cut", "nothing"}
Meanings == Names \union {"nothing"}

CacheStages == {"check", "claim", "fillName", "fillMeaning", "found"}

\* Every variable has its type; only a race takes the rows beyond the array.
CacheTypeOK ==
  /\ rows \in [1..Slots -> [name : Kept, does : Meanings]]
  /\ at \in [Tasks -> CacheStages \union {"idle", "look", "execute"}]
  /\ name \in [Tasks -> Meanings] /\ does \in [Tasks -> Meanings]
  /\ row \in [Tasks -> 1..(Slots + 1)]
  /\ count \in 0..(Slots + 1) /\ raced \in BOOLEAN

CacheInit ==
  /\ rows = [i \in 1..Slots |-> [name |-> "nothing", does |-> "nothing"]]
  /\ count = 0
  /\ at = [t \in Tasks |-> "idle"] /\ name = [t \in Tasks |-> "nothing"]
  /\ row = [t \in Tasks |-> 1] /\ does = [t \in Tasks |-> "nothing"]
  /\ raced = FALSE

-----------------------------------------------------------------------------
\* string_to_keyboard_key and its siblings.
Parse(n) == IF n \in Unknown THEN "nothing" ELSE n

\* strncpy: a long name is cut, so that no lookup finds it again.
Keep(n) == IF n \in Long THEN "cut" ELSE n

\* A step of task t from one stage to another.
CacheGoes(t, from, to) ==
  /\ at[t] = from /\ at' = [at EXCEPT ![t] = to]
  /\ raced' = (raced \/ (from # "idle" /\ from # "execute"
                         /\ \E u \in Tasks \ {t} : at[u] \in CacheStages))

\* A callback of the buttons or of the encoder.
AskAction(t) ==
  /\ CacheGoes(t, "idle", "look")
  /\ \E n \in Names : name' = [name EXCEPT ![t] = n]
  /\ UNCHANGED << rows, count, row, does >>

Matches(t) == {i \in 1..count : i <= Slots /\ rows[i].name = name[t]}

\* find_in_cache: the first row that matches.
FindInCache(t) ==
  /\ Matches(t) # {}
  /\ CacheGoes(t, "look", "found")
  /\ row' = [row EXCEPT ![t] = CHOOSE i \in Matches(t) : \A j \in Matches(t) : i <= j]
  /\ UNCHANGED << rows, count, name, does >>

\* The row is read after the lookup.
UseRow(t) ==
  /\ CacheGoes(t, "found", "execute")
  /\ does' = [does EXCEPT ![t] = rows[row[t]].does]
  /\ UNCHANGED << rows, count, name, row >>

\* The action is parsed; an unknown one is not added.
ParseAction(t) ==
  /\ Matches(t) = {}
  /\ CacheGoes(t, "look", IF name[t] \in Unknown THEN "idle" ELSE "check")
  /\ does' = [does EXCEPT ![t] = Parse(name[t])]
  /\ UNCHANGED << rows, count, name, row >>

\* Mutant of MakeRoom: the last row is given up, but its number is not given back.
MakeRoomKeepsCount(t) ==
  /\ CacheGoes(t, "check", "claim")
  /\ UNCHANGED << rows, count, name, row, does >>

\* add_to_cache: the oldest row goes when the cache is full.
MakeRoom(t) ==
  /\ CacheGoes(t, "check", "claim")
  /\ IF count >= Slots
     THEN /\ rows' = [i \in 1..Slots |-> IF i < Slots THEN rows[i + 1] ELSE rows[i]]
          /\ count' = count - 1
     ELSE UNCHANGED << rows, count >>
  /\ UNCHANGED << name, row, does >>

\* The new row counts before it is filled.  (A race may put it beyond the array.)
ClaimRow(t) ==
  /\ CacheGoes(t, "claim", "fillName")
  /\ count <= Slots
  /\ row' = [row EXCEPT ![t] = count + 1]
  /\ count' = count + 1
  /\ UNCHANGED << rows, name, does >>

FillName(t) ==
  /\ CacheGoes(t, "fillName", "fillMeaning")
  /\ rows' = IF row[t] <= Slots THEN [rows EXCEPT ![row[t]].name = Keep(name[t])]
             ELSE rows
  /\ UNCHANGED << count, name, row, does >>

FillMeaning(t) ==
  /\ CacheGoes(t, "fillMeaning", "execute")
  /\ rows' = IF row[t] <= Slots THEN [rows EXCEPT ![row[t]].does = does[t]] ELSE rows
  /\ UNCHANGED << count, name, row, does >>

\* execute_*_action is called; ActionReports says what it does.
Execute(t) ==
  /\ CacheGoes(t, "execute", "idle")
  /\ UNCHANGED << rows, count, name, row, does >>

CacheNext ==
  \E t \in Tasks :
    \/ AskAction(t) \/ FindInCache(t) \/ UseRow(t) \/ ParseAction(t)
    \/ MakeRoom(t) \/ ClaimRow(t) \/ FillName(t) \/ FillMeaning(t) \/ Execute(t)

CacheSpec == CacheInit /\ [][CacheNext]_cacheVars

-----------------------------------------------------------------------------
\* As long as no two tasks met in the cache, what is executed is what the name
\* means, whichever rows were evicted and whichever names were cut, and no row lies
\* beyond the array.
CacheAnswersRightly ==
  ~raced => /\ \A t \in Tasks : at[t] = "execute" => does[t] = Parse(name[t])
            /\ count <= Slots /\ \A t \in Tasks : row[t] <= Slots
=============================================================================

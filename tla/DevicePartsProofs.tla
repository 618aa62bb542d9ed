-------------------------- MODULE DevicePartsProofs --------------------------
(***************************************************************************)
(* Proofs about the way of a report.  ActionReports: its types, and that   *)
(* no action stays pressed for the host, for any set of tasks, any kinds   *)
(* of reports and any number of release timers.  ActionCache: its types,   *)
(* and that unraced tasks execute what a name means.  ReportLookup: its    *)
(* types, and that every report keeps its own handle.  UsbHost, for any    *)
(* kinds of devices and any size of the queue: its types, that a device is *)
(* read with its own report maps, and that no interface of it is           *)
(* forgotten.  At the end, that all this holds of the parts together.      *)
(***************************************************************************)
EXTENDS MCDeviceParts, ChargingProofs, ParserProofs, FiniteSetTheorems

-----------------------------------------------------------------------------
(* Reports of actions: types.                                              *)

LEMMA ReportTypeInit == ReportInit => ReportTypeOK
<1> SUFFICES ASSUME ReportInit PROVE ReportTypeOK
  OBVIOUS
<1>1. "keyboard" \in Kinds /\ 0 \in 0..MaxTimers
  BY ReportAssumption
<1>2. kind \in [ActionTasks -> Kinds] /\ timers \in [Kinds -> 0..MaxTimers]
  BY <1>1 DEF ReportInit
<1>3. /\ stage \in [ActionTasks -> {"idle", "press", "sent", "special"}]
      /\ held \in [Kinds -> Contents]
  BY DEF ReportInit, Contents
<1> QED
  BY <1>2, <1>3 DEF ReportInit, ReportTypeOK, Contents

LEMMA ReportTypeNext == ReportTypeOK /\ [ReportNext]_reportVars => ReportTypeOK'
<1> SUFFICES ASSUME ReportTypeOK, [ReportNext]_reportVars PROVE ReportTypeOK'
  OBVIOUS
<1> USE ReportAssumption DEF ReportTypeOK, Contents
<1>1. ASSUME NEW t \in ActionTasks, FillPress(t) PROVE ReportTypeOK'
  BY <1>1 DEF FillPress, TaskGoes
<1>2. ASSUME NEW t \in ActionTasks, SendPress(t) PROVE ReportTypeOK'
  BY <1>2 DEF SendPress, TaskGoes
<1>3. ASSUME NEW t \in ActionTasks, ScheduleRelease(t) PROVE ReportTypeOK'
  <2>1. /\ kind[t] \in Kinds /\ timers[kind[t]] \in 0..MaxTimers
    OBVIOUS
  <2>2. timers' \in [Kinds -> 0..MaxTimers]
    BY <1>3, <2>1 DEF ScheduleRelease
  <2> QED
    BY <1>3, <2>2 DEF ScheduleRelease, TaskGoes
<1>4. ASSUME NEW t \in ActionTasks, FillSpecial(t) PROVE ReportTypeOK'
  BY <1>4 DEF FillSpecial, TaskGoes
<1>5. ASSUME NEW t \in ActionTasks, SendSpecial(t) PROVE ReportTypeOK'
  BY <1>5 DEF SendSpecial, TaskGoes
<1>6. CASE UsbFills
  BY <1>6 DEF UsbFills
<1>7. CASE UsbSends
  BY <1>7 DEF UsbSends
<1>8. ASSUME NEW k \in Kinds, Release(k) PROVE ReportTypeOK'
  <2>1. timers[k] \in 0..MaxTimers /\ timers[k] > 0
    BY <1>8 DEF Release
  <2>2. timers' \in [Kinds -> 0..MaxTimers]
    BY <1>8, <2>1 DEF Release
  <2> QED
    BY <1>8, <2>2 DEF Release
<1>9. CASE UNCHANGED reportVars
  BY <1>9 DEF reportVars
<1> QED
  BY <1>1, <1>2, <1>3, <1>4, <1>5, <1>6, <1>7, <1>8, <1>9 DEF ReportNext

\* Every variable of the report path keeps its type.
THEOREM ReportTypeCorrect == ReportSpec => []ReportTypeOK
<1>1. ReportTypeOK /\ [ReportNext]_reportVars => ReportTypeOK'
  BY ReportTypeNext
<1> QED
  BY <1>1, ReportTypeInit, PTL DEF ReportSpec

-----------------------------------------------------------------------------
(* What the host takes for pressed always has somebody to release it.      *)

\* Somebody is still going to release kind k, or an excepted case has happened.
Accounted(k) ==
  \/ timers[k] > 0
  \/ \E t \in ActionTasks : stage[t] = "sent" /\ kind[t] = k
  \/ lost
  \/ k = "mouse" /\ smeared
  \/ k = "keyboard" /\ (usbKeys \/ usbStage = "filled")

HeldIsAccounted == \A k \in Kinds : held[k] # "up" => Accounted(k)

\* The USB task is about to send what its keyboard has, or a release that cut in.
FilledIsTrue == usbStage = "filled" /\ ~usbKeys => buffer = "up"

ReportInv == ReportTypeOK /\ HeldIsAccounted /\ FilledIsTrue

LEMMA HeldInit == ReportInit => HeldIsAccounted /\ FilledIsTrue
BY DEF ReportInit, HeldIsAccounted, FilledIsTrue

LEMMA FilledNext == ReportInv /\ [ReportNext]_reportVars => FilledIsTrue'
<1> SUFFICES ASSUME ReportInv, [ReportNext]_reportVars PROVE FilledIsTrue'
  OBVIOUS
<1> USE DEF ReportInv, FilledIsTrue, TaskGoes
<1>1. ASSUME NEW t \in ActionTasks,
             FillPress(t) \/ SendPress(t) \/ ScheduleRelease(t) \/ FillSpecial(t)
               \/ SendSpecial(t)
      PROVE  FilledIsTrue'
  BY <1>1 DEF FillPress, SendPress, ScheduleRelease, FillSpecial, SendSpecial
<1>2. CASE UsbFills
  BY <1>2 DEF UsbFills
<1>3. CASE UsbSends
  BY <1>3 DEF UsbSends
<1>4. ASSUME NEW k \in Kinds, Release(k) PROVE FilledIsTrue'
  BY <1>4 DEF Release
<1>5. CASE UNCHANGED reportVars
  BY <1>5 DEF reportVars
<1> QED
  BY <1>1, <1>2, <1>3, <1>4, <1>5 DEF ReportNext

LEMMA HeldNext == ReportInv /\ [ReportNext]_reportVars => HeldIsAccounted'
<1> SUFFICES ASSUME ReportInv, [ReportNext]_reportVars, NEW k \in Kinds, held'[k] # "up"
             PROVE  Accounted(k)'
  BY DEF HeldIsAccounted
<1> USE ReportAssumption DEF ReportInv, ReportTypeOK, Accounted
<1>1. held[k] # "up" => Accounted(k)
  BY DEF HeldIsAccounted
<1>2. ASSUME NEW t \in ActionTasks, FillPress(t) PROVE Accounted(k)'
  BY <1>1, <1>2 DEF FillPress, TaskGoes
<1>3. ASSUME NEW t \in ActionTasks, SendPress(t) PROVE Accounted(k)'
  <2>1. CASE kind[t] = k
    <3>1. stage'[t] = "sent" /\ kind'[t] = k
      BY <1>3, <2>1 DEF SendPress, TaskGoes
    <3> QED
      BY <3>1
  <2>2. CASE kind[t] # k
    <3>1. held[k] # "up"
      BY <1>3, <2>2 DEF SendPress
    <3> QED
      BY <1>1, <1>3, <3>1 DEF SendPress, TaskGoes
  <2> QED
    BY <2>1, <2>2
<1>4. ASSUME NEW t \in ActionTasks, ScheduleRelease(t) PROVE Accounted(k)'
  <2>1. Accounted(k)
    BY <1>1, <1>4 DEF ScheduleRelease
  <2>2. CASE lost'
    BY <2>2
  <2>3. CASE ~lost'
    <3>1. timers' = [timers EXCEPT ![kind[t]] = @ + 1] /\ ~lost
      BY <1>4, <2>3 DEF ScheduleRelease
    <3>2. timers[k] \in Nat /\ kind[t] \in Kinds
      OBVIOUS
    <3>3. timers'[k] = IF kind[t] = k THEN timers[k] + 1 ELSE timers[k]
      BY <3>1, <3>2
    <3>4. CASE kind[t] = k
      BY <3>2, <3>3, <3>4
    <3>5. CASE kind[t] # k
      BY <1>4, <2>1, <3>1, <3>3, <3>5 DEF ScheduleRelease, TaskGoes
    <3> QED
      BY <3>4, <3>5
  <2> QED
    BY <2>2, <2>3
<1>5. ASSUME NEW t \in ActionTasks, FillSpecial(t) PROVE Accounted(k)'
  BY <1>1, <1>5 DEF FillSpecial, TaskGoes
<1>6. ASSUME NEW t \in ActionTasks, SendSpecial(t) PROVE Accounted(k)'
  <2>1. CASE k = "mouse" /\ buffer # "up"
    BY <1>6, <2>1 DEF SendSpecial
  <2>2. CASE ~(k = "mouse" /\ buffer # "up")
    <3>1. held[k] # "up"
      BY <1>6, <2>2 DEF SendSpecial
    <3> QED
      BY <1>1, <1>6, <3>1 DEF SendSpecial, TaskGoes
  <2> QED
    BY <2>1, <2>2
<1>7. CASE UsbFills
  BY <1>1, <1>7 DEF UsbFills
<1>8. CASE UsbSends
  <2>1. CASE k = "keyboard"
    BY <1>8, <2>1 DEF UsbSends, FilledIsTrue
  <2>2. CASE k # "keyboard"
    BY <1>1, <1>8, <2>2 DEF UsbSends
  <2> QED
    BY <2>1, <2>2
<1>9. ASSUME NEW j \in Kinds, Release(j) PROVE Accounted(k)'
  <2>1. j # k /\ held[k] # "up"
    BY <1>9 DEF Release
  <2>2. timers'[k] = timers[k]
    BY <1>9, <2>1 DEF Release
  <2> QED
    BY <1>1, <1>9, <2>1, <2>2 DEF Release
<1>10. CASE UNCHANGED reportVars
  BY <1>1, <1>10 DEF reportVars
<1> QED
  BY <1>2, <1>3, <1>4, <1>5, <1>6, <1>7, <1>8, <1>9, <1>10 DEF ReportNext

LEMMA AccountedMeansReleased == ReportInv => NoStuckAction
BY ReportAssumption DEF ReportInv, ReportTypeOK, HeldIsAccounted, Accounted, NoStuckAction

\* However the senders cut each other's reports, once everything is quiet the host
\* takes nothing for pressed, the two excepted cases aside.
THEOREM NoActionSticks == ReportSpec => []NoStuckAction
<1>1. ReportInit => ReportInv
  BY ReportTypeInit, HeldInit DEF ReportInv
<1>2. ReportInv /\ [ReportNext]_reportVars => ReportInv'
  BY ReportTypeNext, HeldNext, FilledNext DEF ReportInv
<1> QED
  BY <1>1, <1>2, AccountedMeansReleased, PTL DEF ReportSpec

-----------------------------------------------------------------------------
(* The report lookup table.                                                *)

\* One sender at a time writes the second cache; all its rows are pairs of an id and
\* its row, but for the one whose second half is still to come.
OneWriter ==
  \A s, u \in Senders :
    lookupStage[s] \in Writing /\ lookupStage[u] \in Writing => s = u

HalfWritten(i) == \E s \in Senders : lookupStage[s] = "row" /\ Place(s) = i

RowsAreTrue ==
  \A i \in 1..LruSize : ~HalfWritten(i) => lru[i].key = lru[i].row

HalfIsWanted ==
  \A s \in Senders : lookupStage[s] = "row" => lru[Place(s)].key = wanted[s]

\* A row of the direct cache is empty or the right one, and only small ids use it.
DirectTrue ==
  /\ \A i \in Low : direct[i] \in {NoId, i}
  /\ \A s \in Senders : lookupStage[s] = "direct" => wanted[s] \in Low

LookupInv ==
  /\ LookupTypeOK /\ DirectTrue
  /\ ~met => OneWriter /\ RowsAreTrue /\ HalfIsWanted /\ ReportsKeepTheirHandle

LEMMA PlaceInCache ==
  ASSUME LookupTypeOK, NEW s \in Senders
  PROVE  Place(s) \in 1..LruSize
BY LookupAssumption DEF LookupTypeOK, Place

LEMMA LookupInvInit == LookupInit => LookupInv
<1> SUFFICES ASSUME LookupInit PROVE LookupInv
  OBVIOUS
<1>1. /\ direct \in [Low -> TableIds \union {NoId}]
      /\ lookupStage \in [Senders -> Writing \union {"idle", "check", "direct", "search", "found"}]
      /\ wanted \in [Senders -> TableIds \union {NoId}]
      /\ reply \in [Senders -> TableIds \union {NoId}]
  BY DEF LookupInit
<1>2. lru \in [1..LruSize -> Pairs]
  BY DEF LookupInit, Pairs
<1>3. lruCount \in 0..LruSize /\ slot \in [Senders -> 0..LruSize]
  BY LookupAssumption DEF LookupInit
<1>4. registered \in BOOLEAN /\ forgetting \in BOOLEAN /\ met \in BOOLEAN
  BY DEF LookupInit
<1>5. OneWriter /\ RowsAreTrue /\ HalfIsWanted /\ ReportsKeepTheirHandle
  BY DEF LookupInit, OneWriter, RowsAreTrue, HalfIsWanted, ReportsKeepTheirHandle, Writing
<1>6. DirectTrue
  BY DEF LookupInit, DirectTrue
<1> QED
  BY <1>1, <1>2, <1>3, <1>4, <1>5, <1>6 DEF LookupInv, LookupTypeOK

SenderActs(s) ==
  \/ Asks(s) \/ MatchesDirect(s) \/ HitsDirect(s) \/ LosesDirect(s) \/ HitsLru(s) \/ Misses(s)
  \/ Searches(s) \/ FindsNothing(s) \/ MovesDown(s) \/ WritesKey(s) \/ WritesRow(s)
  \/ CountsRow(s) \/ SendsReport(s)

LEMMA LookupTypeNext ==
  ASSUME LookupTypeOK, DirectTrue, [LookupNext]_lookupVars
  PROVE  LookupTypeOK'
<1> USE LookupAssumption
<1>1. CASE UNCHANGED lookupVars
  BY <1>1 DEF lookupVars, regVars, LookupTypeOK
<1>2. CASE RegisterEmptiesLru
  <2>1. forgetting' \in BOOLEAN /\ registered' \in BOOLEAN /\ met' \in BOOLEAN
    BY <1>2 DEF RegisterEmptiesLru, LookupTypeOK
  <2> QED
    BY <1>2, <2>1 DEF RegisterEmptiesLru, LookupTypeOK
<1>3. CASE RegisterClearsDirect
  <2>1. forgetting' \in BOOLEAN /\ registered' \in BOOLEAN /\ met' \in BOOLEAN
    BY <1>3 DEF RegisterClearsDirect, LookupTypeOK
  <2> QED
    BY <1>3, <2>1 DEF RegisterClearsDirect, LookupTypeOK
<1>4. ASSUME NEW s \in Senders, SenderActs(s) PROVE LookupTypeOK'
  <2>1. met' \in BOOLEAN /\ registered' = registered /\ forgetting' = forgetting
    BY <1>4 DEF SenderActs, Asks, MatchesDirect, HitsDirect, LosesDirect, HitsLru,
       Misses, Searches, FindsNothing,
       MovesDown, WritesKey, WritesRow, CountsRow, SendsReport, SenderGoes, regVars
  <2>2. lookupStage' \in [Senders -> Writing \union {"idle", "check", "direct", "search", "found"}]
    BY <1>4 DEF SenderActs, Asks, MatchesDirect, HitsDirect, LosesDirect, HitsLru,
       Misses, Searches, FindsNothing,
       MovesDown, WritesKey, WritesRow, CountsRow, SendsReport, SenderGoes, LookupTypeOK,
       Writing
  <2>3. wanted' \in [Senders -> TableIds \union {NoId}]
    BY <1>4 DEF SenderActs, Asks, MatchesDirect, HitsDirect, LosesDirect, HitsLru,
       Misses, Searches, FindsNothing,
       MovesDown, WritesKey, WritesRow, CountsRow, SendsReport, LookupTypeOK
  <2>4. direct' \in [Low -> TableIds \union {NoId}]
    BY <1>4 DEF SenderActs, Asks, MatchesDirect, HitsDirect, LosesDirect, HitsLru,
       Misses, Searches, FindsNothing,
       MovesDown, WritesKey, WritesRow, CountsRow, SendsReport, LookupTypeOK
  <2>5. slot' \in [Senders -> 0..LruSize] /\ lruCount' \in 0..LruSize
    <3>1. CASE Searches(s)
      <4>1. (IF lruCount < LruSize THEN lruCount + 1 ELSE 0) \in 0..LruSize
        BY DEF LookupTypeOK
      <4> QED
        BY <3>1, <4>1 DEF Searches, LookupTypeOK
    <3>2. CASE CountsRow(s)
      BY <3>2 DEF CountsRow, LookupTypeOK
    <3>3. CASE UNCHANGED << slot, lruCount >>
      BY <3>3 DEF LookupTypeOK
    <3> QED
      BY <1>4, <3>1, <3>2, <3>3 DEF SenderActs, Asks, MatchesDirect, HitsDirect,
         LosesDirect, HitsLru, Misses, FindsNothing,
         MovesDown, WritesKey, WritesRow, SendsReport
  <2>6. reply' \in [Senders -> TableIds \union {NoId}]
    <3>1. CASE HitsDirect(s)
      <4>1. wanted[s] \in TableIds \union {NoId} /\ direct[wanted[s]] \in {NoId, wanted[s]}
        BY <3>1 DEF HitsDirect, SenderGoes, LookupTypeOK, DirectTrue
      <4> QED
        BY <3>1, <4>1 DEF HitsDirect, LookupTypeOK
    <3>2. CASE HitsLru(s)
      BY <3>2 DEF HitsLru, InLru, LookupTypeOK, Pairs
    <3>3. CASE Asks(s) \/ CountsRow(s)
      BY <3>3 DEF Asks, CountsRow, LookupTypeOK
    <3>4. CASE reply' = reply
      BY <3>4 DEF LookupTypeOK
    <3> QED
      BY <1>4, <3>1, <3>2, <3>3, <3>4 DEF SenderActs, MatchesDirect, LosesDirect, Misses,
         Searches, FindsNothing, MovesDown, WritesKey, WritesRow, SendsReport
  <2>7. lru' \in [1..LruSize -> Pairs]
    <3>1. Place(s) \in 1..LruSize
      BY PlaceInCache
    <3>2. CASE MovesDown(s)
      BY <3>2 DEF MovesDown, LookupTypeOK
    <3>3. CASE WritesKey(s) \/ WritesRow(s)
      <4>1. /\ lru \in [1..LruSize -> Pairs] /\ lru[Place(s)] \in Pairs
            /\ wanted[s] \in TableIds \union {NoId}
        BY <3>1 DEF LookupTypeOK
      <4>2. PICK p \in Pairs : lru' = [lru EXCEPT ![Place(s)] = p]
        <5>1. /\ [lru[Place(s)] EXCEPT !.key = wanted[s]] \in Pairs
              /\ [lru[Place(s)] EXCEPT !.row = wanted[s]] \in Pairs
          BY <4>1 DEF Pairs
        <5> QED
          BY <3>3, <5>1 DEF WritesKey, WritesRow
      <4> QED
        BY <3>1, <4>1, <4>2
    <3>4. CASE lru' = lru
      BY <3>4 DEF LookupTypeOK
    <3> QED
      BY <1>4, <3>2, <3>3, <3>4 DEF SenderActs, Asks, MatchesDirect, HitsDirect,
         LosesDirect, HitsLru, Misses, Searches,
         FindsNothing, CountsRow, SendsReport
  <2>8. registered' \in BOOLEAN /\ forgetting' \in BOOLEAN
    BY <2>1 DEF LookupTypeOK
  <2> QED
    BY <2>1, <2>2, <2>3, <2>4, <2>5, <2>6, <2>7, <2>8 DEF LookupTypeOK
<1> QED
  BY <1>1, <1>2, <1>3, <1>4 DEF LookupNext, SenderActs

LEMMA DirectTrueNext ==
  ASSUME LookupTypeOK, DirectTrue, [LookupNext]_lookupVars
  PROVE  DirectTrue'
<1>1. CASE UNCHANGED lookupVars
  BY <1>1 DEF lookupVars, DirectTrue
<1>2. CASE RegisterEmptiesLru \/ RegisterClearsDirect
  BY <1>2 DEF RegisterEmptiesLru, RegisterClearsDirect, DirectTrue
<1>3. ASSUME NEW s \in Senders, SenderActs(s) PROVE DirectTrue'
  <2>1. \A i \in Low : direct'[i] \in {NoId, i}
    BY <1>3 DEF SenderActs, Asks, MatchesDirect, HitsDirect, LosesDirect, HitsLru, Misses,
       Searches, FindsNothing, MovesDown, WritesKey, WritesRow, CountsRow, SendsReport,
       LookupTypeOK, DirectTrue
  <2>2. CASE MatchesDirect(s)
    BY <1>3, <2>1, <2>2 DEF MatchesDirect, InDirect, SenderGoes, LookupTypeOK, DirectTrue
  <2>3. CASE ~MatchesDirect(s)
    <3>1. lookupStage'[s] # "direct"
      BY <1>3, <2>3 DEF SenderActs, Asks, HitsDirect, LosesDirect, HitsLru, Misses, Searches,
         FindsNothing, MovesDown, WritesKey, WritesRow, CountsRow, SendsReport, SenderGoes,
         LookupTypeOK
    <3>2. \A u \in Senders : u # s => lookupStage'[u] = lookupStage[u] /\ wanted'[u] = wanted[u]
      BY <1>3, <2>3 DEF SenderActs, Asks, HitsDirect, LosesDirect, HitsLru, Misses, Searches,
         FindsNothing, MovesDown, WritesKey, WritesRow, CountsRow, SendsReport, SenderGoes,
         LookupTypeOK
    <3> QED
      BY <2>1, <3>1, <3>2 DEF DirectTrue
  <2> QED
    BY <2>2, <2>3
<1> QED
  BY <1>1, <1>2, <1>3 DEF LookupNext, SenderActs

LEMMA LookupInvNext ==
  ASSUME LookupInv, [LookupNext]_lookupVars
  PROVE  LookupInv'
<1>0. LookupTypeOK /\ LookupTypeOK' /\ DirectTrue /\ DirectTrue'
  BY LookupTypeNext, DirectTrueNext DEF LookupInv
<1> SUFFICES ASSUME ~met'
             PROVE  OneWriter' /\ RowsAreTrue' /\ HalfIsWanted' /\ ReportsKeepTheirHandle'
  BY <1>0 DEF LookupInv
<1>1. CASE RegisterEmptiesLru \/ RegisterClearsDirect \/ UNCHANGED lookupVars
  <2>1. UNCHANGED << lru, lookupStage, wanted, slot, reply, met >>
    BY <1>1 DEF RegisterEmptiesLru, RegisterClearsDirect, lookupVars
  <2>2. OneWriter /\ RowsAreTrue /\ HalfIsWanted /\ ReportsKeepTheirHandle
    BY <2>1 DEF LookupInv
  <2> QED
    BY <2>1, <2>2 DEF OneWriter, RowsAreTrue, HalfWritten, HalfIsWanted, Place,
       ReportsKeepTheirHandle
<1>2. ASSUME NEW s \in Senders, SenderActs(s)
      PROVE  OneWriter' /\ RowsAreTrue' /\ HalfIsWanted' /\ ReportsKeepTheirHandle'
  <2>1. ~met
    BY <1>2 DEF SenderActs, Asks, MatchesDirect, HitsDirect, LosesDirect, HitsLru,
       Misses, Searches, FindsNothing,
       MovesDown, WritesKey, WritesRow, CountsRow, SendsReport, SenderGoes
  <2>2. OneWriter /\ RowsAreTrue /\ HalfIsWanted /\ ReportsKeepTheirHandle
    BY <2>1 DEF LookupInv
  <2>3. \A u \in Senders : u # s => /\ lookupStage'[u] = lookupStage[u]
                                    /\ wanted'[u] = wanted[u] /\ slot'[u] = slot[u]
                                    /\ reply'[u] = reply[u]
    BY <1>0, <1>2 DEF SenderActs, Asks, MatchesDirect, HitsDirect, LosesDirect,
       HitsLru, Misses, Searches, FindsNothing,
       MovesDown, WritesKey, WritesRow, CountsRow, SendsReport, SenderGoes, LookupTypeOK
  <2>4. lookupStage[s] \in {"check", "search"} =>
          \A u \in Senders : u # s => lookupStage[u] \notin Writing
    BY <1>2 DEF SenderActs, Asks, MatchesDirect, HitsDirect, LosesDirect, HitsLru,
       Misses, Searches, FindsNothing,
       MovesDown, WritesKey, WritesRow, CountsRow, SendsReport, SenderGoes
  <2>5. lookupStage'[s] \in Writing =>
          lookupStage[s] \in Writing \/ lookupStage[s] = "search"
    BY <1>0, <1>2 DEF SenderActs, Asks, MatchesDirect, HitsDirect, LosesDirect,
       HitsLru, Misses, Searches, FindsNothing,
       MovesDown, WritesKey, WritesRow, CountsRow, SendsReport, SenderGoes, LookupTypeOK,
       Writing
  <2>6. OneWriter'
    BY <2>2, <2>3, <2>4, <2>5 DEF OneWriter
  <2>7. \A u \in Senders : u # s => Place(u)' = Place(u)
    BY <2>3 DEF Place
  <2>8. CASE lookupStage[s] \notin Writing /\ lookupStage'[s] # "row" /\ lru' = lru
    <3>1. \A i \in 1..LruSize : HalfWritten(i) => HalfWritten(i)'
      BY <2>3, <2>7, <2>8 DEF HalfWritten, Writing
    <3>2. RowsAreTrue' /\ HalfIsWanted'
      BY <2>2, <2>3, <2>7, <2>8, <3>1 DEF RowsAreTrue, HalfIsWanted
    <3>3. ReportsKeepTheirHandle'
      <4>1. CASE lookupStage'[s] # "found"
        BY <2>1, <2>2, <2>3, <4>1 DEF ReportsKeepTheirHandle
      <4>2. CASE HitsDirect(s)
        <5>1. direct[wanted[s]] \in {NoId, wanted[s]}
          BY <1>0, <4>2 DEF HitsDirect, SenderGoes, DirectTrue
        <5>2. reply'[s] = wanted[s] /\ wanted' = wanted
          BY <1>0, <4>2, <5>1 DEF HitsDirect, LookupTypeOK
        <5> QED
          BY <2>1, <2>2, <2>3, <5>2 DEF ReportsKeepTheirHandle
      <4>3. CASE HitsLru(s)
        <5>1. PICK i \in InLru(wanted[s]) : reply' = [reply EXCEPT ![s] = lru[i].row]
          BY <4>3 DEF HitsLru
        <5>2. i \in 1..LruSize /\ lru[i].key = wanted[s]
          BY <5>1, LookupAssumption DEF InLru
        <5>3. \A u \in Senders : lookupStage[u] # "row"
          BY <2>4, <4>3 DEF HitsLru, SenderGoes, Writing
        <5>4. lru[i].row = wanted[s]
          BY <2>2, <5>2, <5>3 DEF RowsAreTrue, HalfWritten
        <5>5. reply'[s] = wanted[s] /\ wanted' = wanted
          BY <1>0, <4>3, <5>1, <5>4 DEF HitsLru, LookupTypeOK
        <5> QED
          BY <2>1, <2>2, <2>3, <5>5 DEF ReportsKeepTheirHandle
      <4> QED
        BY <1>0, <1>2, <2>8, <4>1, <4>2, <4>3 DEF SenderActs, Asks, MatchesDirect,
           LosesDirect, Misses, Searches, FindsNothing, MovesDown, WritesKey, WritesRow, CountsRow,
           SendsReport, SenderGoes,
           LookupTypeOK, Writing
    <3> QED
      BY <2>6, <3>2, <3>3
  <2>9. ASSUME lookupStage[s] \in Writing
        PROVE  /\ \A u \in Senders : u # s => lookupStage'[u] \notin Writing
               /\ \A i \in 1..LruSize : i # Place(s) => ~HalfWritten(i)
    BY <2>2, <2>3, <2>9 DEF OneWriter, HalfWritten, Writing
  <2>10. CASE MovesDown(s)
    <3>1. lookupStage[s] = "moving" /\ lookupStage'[s] = "key"
          /\ \A i \in 1..LruSize : ~HalfWritten(i)
      BY <1>0, <2>2, <2>10 DEF MovesDown, SenderGoes, LookupTypeOK, OneWriter, HalfWritten,
         Writing
    <3>2. \A i \in 1..LruSize : lru'[i].key = lru'[i].row
      <4> TAKE i \in 1..LruSize
      <4>1. lru'[i] = IF i = 1 THEN lru[1] ELSE lru[i - 1]
        BY <2>10 DEF MovesDown
      <4>2. 1 \in 1..LruSize /\ (i # 1 => i - 1 \in 1..LruSize)
        BY LookupAssumption
      <4> QED
        BY <2>2, <3>1, <4>1, <4>2 DEF RowsAreTrue
    <3>3. HalfIsWanted'
      BY <2>9, <3>1 DEF HalfIsWanted, Writing
    <3>4. ReportsKeepTheirHandle'
      BY <2>1, <2>2, <2>3, <3>1 DEF ReportsKeepTheirHandle
    <3> QED
      BY <2>6, <3>2, <3>3, <3>4 DEF RowsAreTrue
  <2>11. CASE WritesKey(s)
    <3>1. lookupStage[s] = "key" /\ lookupStage'[s] = "row" /\ wanted' = wanted /\ slot' = slot
      BY <1>0, <2>11 DEF WritesKey, SenderGoes, LookupTypeOK
    <3>2. Place(s) \in 1..LruSize /\ Place(s)' = Place(s)
      BY <1>0, <3>1, PlaceInCache DEF Place
    <3>3. /\ lru'[Place(s)].key = wanted[s]
          /\ \A i \in 1..LruSize : i # Place(s) => lru'[i] = lru[i]
      BY <1>0, <2>11, <3>2 DEF WritesKey, LookupTypeOK, Pairs
    <3>4. \A u \in Senders : u # s => lookupStage'[u] # "row"
      BY <2>9, <3>1 DEF Writing
    <3>5. HalfIsWanted'
      BY <3>1, <3>2, <3>3, <3>4 DEF HalfIsWanted
    <3>6. RowsAreTrue'
      <4> SUFFICES ASSUME NEW i \in 1..LruSize, ~HalfWritten(i)'
                   PROVE  lru'[i].key = lru'[i].row
        BY DEF RowsAreTrue
      <4>1. i # Place(s)
        BY <3>1, <3>2 DEF HalfWritten
      <4>2. ~HalfWritten(i)
        BY <2>9, <3>1, <4>1 DEF Writing
      <4> QED
        BY <2>2, <3>3, <4>1, <4>2 DEF RowsAreTrue
    <3>7. ReportsKeepTheirHandle'
      BY <2>1, <2>2, <2>3, <3>1 DEF ReportsKeepTheirHandle
    <3> QED
      BY <2>6, <3>5, <3>6, <3>7
  <2>12. CASE WritesRow(s)
    <3>1. lookupStage[s] = "row" /\ lookupStage'[s] = "count" /\ wanted' = wanted
      BY <1>0, <2>12 DEF WritesRow, SenderGoes, LookupTypeOK
    <3>2. Place(s) \in 1..LruSize
      BY <1>0, PlaceInCache
    <3>3. /\ lru'[Place(s)].key = lru[Place(s)].key /\ lru'[Place(s)].row = wanted[s]
          /\ \A i \in 1..LruSize : i # Place(s) => lru'[i] = lru[i]
      BY <1>0, <2>12, <3>2 DEF WritesRow, LookupTypeOK, Pairs
    <3>4. \A i \in 1..LruSize : lru'[i].key = lru'[i].row
      BY <2>2, <2>9, <3>1, <3>3 DEF HalfIsWanted, RowsAreTrue, Writing
    <3>5. HalfIsWanted'
      BY <2>9, <3>1 DEF HalfIsWanted, Writing
    <3>6. ReportsKeepTheirHandle'
      BY <2>1, <2>2, <2>3, <3>1 DEF ReportsKeepTheirHandle
    <3> QED
      BY <2>6, <3>4, <3>5, <3>6 DEF RowsAreTrue
  <2>13. CASE CountsRow(s)
    <3>1. lookupStage[s] = "count" /\ lookupStage'[s] = "found" /\ wanted' = wanted /\ lru' = lru
          /\ reply'[s] = wanted[s]
      BY <1>0, <2>13 DEF CountsRow, SenderGoes, LookupTypeOK
    <3>2. \A i \in 1..LruSize : ~HalfWritten(i)
      BY <2>2, <3>1 DEF OneWriter, HalfWritten, Writing
    <3>3. RowsAreTrue' /\ HalfIsWanted'
      BY <2>2, <2>9, <3>1, <3>2 DEF RowsAreTrue, HalfIsWanted, Writing
    <3>4. ReportsKeepTheirHandle'
      BY <2>1, <2>2, <2>3, <3>1 DEF ReportsKeepTheirHandle
    <3> QED
      BY <2>6, <3>3, <3>4
  <2>14. CASE Searches(s)
    <3>1. lookupStage[s] = "search" /\ lookupStage'[s] \in {"key", "moving"} /\ lru' = lru
      BY <1>0, <2>14 DEF Searches, SenderGoes, LookupTypeOK
    <3> QED
      BY <2>8, <3>1 DEF Writing
  <2>15. CASE \/ Asks(s) \/ MatchesDirect(s) \/ HitsDirect(s) \/ LosesDirect(s) \/ HitsLru(s)
              \/ Misses(s) \/ FindsNothing(s) \/ SendsReport(s)
    <3>1. lookupStage[s] \notin Writing /\ lookupStage'[s] # "row" /\ lru' = lru
      BY <1>0, <2>15 DEF Asks, MatchesDirect, HitsDirect, LosesDirect, HitsLru, Misses,
         FindsNothing, SendsReport,
         SenderGoes, LookupTypeOK, Writing
    <3> QED
      BY <2>8, <3>1
  <2> QED
    BY <1>2, <2>10, <2>11, <2>12, <2>13, <2>14, <2>15 DEF SenderActs
<1> QED
  BY <1>1, <1>2 DEF LookupNext, SenderActs

LEMMA LookupInvAlways == LookupSpec => []LookupInv
  BY LookupInvInit, LookupInvNext, PTL DEF LookupSpec

\* Every variable of the lookup has its type.
THEOREM LookupTypeCorrect == LookupSpec => []LookupTypeOK
<1>1. LookupInv => LookupTypeOK
  BY DEF LookupInv
<1> QED
  BY <1>1, LookupInvAlways, PTL

\* A report goes out on the handle of its own id, for every number of senders, every
\* table and every size of the caches, unless two senders met.
THEOREM HandlesAreRight == LookupSpec => []ReportsKeepTheirHandle
<1>1. LookupInv => ReportsKeepTheirHandle
  BY DEF LookupInv, ReportsKeepTheirHandle
<1> QED
  BY <1>1, LookupInvAlways, PTL

-----------------------------------------------------------------------------
(* The USB host.                                                           *)

\* An order of a finite set has all its elements.
LEMMA OrderHasAll ==
  ASSUME NEW S, IsFiniteSet(S), NEW order \in SetToSeqs(S)
  PROVE  /\ order \in Seq(S) /\ Len(order) \in Nat
         /\ \A i \in S : \E k \in 1..Len(order) : order[k] = i
<1> DEFINE n == Cardinality(S)
<1>1. n \in Nat
  BY FS_CardinalityType
<1>2. order \in [1..n -> S] /\ \A i, j \in 1..n : i # j => order[i] # order[j]
  BY DEF SetToSeqs
<1>3. order \in Seq(S) /\ Len(order) = n
  BY <1>1, <1>2, SeqDef
<1>4. order \in Injection(1..n, S)
  BY <1>2 DEF Injection, IsInjective
<1>5. Cardinality(1..n) = n
  BY <1>1, FS_Interval
<1>6. order \in Surjection(1..n, S)
  BY <1>4, <1>5, FS_Injection
<1>7. \A i \in S : \E k \in 1..n : order[k] = i
  BY <1>6 DEF Surjection
<1> HIDE DEF n
<1> QED
  BY <1>1, <1>3, <1>7

Handle == (1..MaxPlugs) \X Ifaces

\* What is announced is in the queue, behind what was there, or noted as dropped.
LEMMA Announced ==
  ASSUME queue \in Seq(Handle), Len(queue) <= QueueSize, NEW n \in 1..MaxPlugs,
         NEW S, S \subseteq Ifaces, NEW order \in SetToSeqs(S), Announce(n, order)
  PROVE  /\ queue' \in Seq(Handle) /\ Len(queue') <= QueueSize
         /\ given' \subseteq S \X {"dropped"}
         /\ \A k \in 1..Len(queue') :
              (k \in 1..Len(queue) /\ queue'[k] = queue[k])
              \/ (\E i \in S : queue'[k] = << n, i >>)
         /\ \A i \in S : (\E k \in 1..Len(queue') : queue'[k] = << n, i >>)
                         \/ << i, "dropped" >> \in given'
<1> DEFINE fitting == IF QueueSize - Len(queue) < Len(order)
                      THEN QueueSize - Len(queue) ELSE Len(order)
           new == [k \in 1..fitting |-> << n, order[k] >>]
<1>1. IsFiniteSet(S)
  BY DeclaredAssumption, FS_Subset
<1>2. /\ order \in Seq(S) /\ Len(order) \in Nat
      /\ \A i \in S : \E k \in 1..Len(order) : order[k] = i
  BY <1>1, OrderHasAll
<1>3. Len(queue) \in Nat /\ QueueSize \in Nat
  BY UsbAssumption, LenProperties
<1>4. fitting \in Nat /\ fitting <= Len(order) /\ Len(queue) + fitting <= QueueSize
  BY <1>2, <1>3
<1>5. \A k \in 1..Len(order) : order[k] \in S
  BY <1>2, ElementOfSeq
<1>6. /\ queue' = queue \o new
      /\ given' = {<< order[k], "dropped" >> : k \in (fitting + 1)..Len(order)}
  BY DEF Announce
<1> HIDE DEF fitting
<1>7. new \in Seq(Handle) /\ Len(new) = fitting /\ \A k \in 1..fitting : new[k] = << n, order[k] >>
  <2>1. new \in [1..fitting -> Handle]
    BY <1>4, <1>5 DEF Handle
  <2> QED
    BY <1>4, <2>1, SeqDef, LenProperties
<1> HIDE DEF new
<1>8. /\ queue' \in Seq(Handle) /\ Len(queue') = Len(queue) + fitting
      /\ \A k \in 1..(Len(queue) + fitting) :
           queue'[k] = IF k <= Len(queue) THEN queue[k] ELSE new[k - Len(queue)]
  BY <1>6, <1>7, ConcatProperties
<1>9. given' \subseteq S \X {"dropped"}
  <2>1. \A k \in (fitting + 1)..Len(order) : k \in 1..Len(order)
    BY <1>2, <1>4
  <2>2. \A k \in (fitting + 1)..Len(order) : order[k] \in S
    BY <1>5, <2>1
  <2> QED
    BY <1>6, <2>2
<1>10. \A k \in 1..Len(queue') :
         (k \in 1..Len(queue) /\ queue'[k] = queue[k])
         \/ (\E i \in S : queue'[k] = << n, i >>)
  <2> TAKE k \in 1..Len(queue')
  <2>1. CASE k <= Len(queue)
    BY <1>3, <1>8, <2>1
  <2>2. CASE ~(k <= Len(queue))
    <3>1. k - Len(queue) \in 1..fitting
      BY <1>3, <1>4, <1>8, <2>2
    <3>2. queue'[k] = << n, order[k - Len(queue)] >>
      BY <1>7, <1>8, <2>2, <3>1
    <3>3. order[k - Len(queue)] \in S
      BY <1>4, <1>5, <1>2, <3>1
    <3> QED
      BY <3>2, <3>3
  <2> QED
    BY <2>1, <2>2
<1>11. \A i \in S : (\E k \in 1..Len(queue') : queue'[k] = << n, i >>)
                    \/ << i, "dropped" >> \in given'
  <2> TAKE i \in S
  <2>1. PICK k \in 1..Len(order) : order[k] = i
    BY <1>2
  <2>2. CASE k <= fitting
    <3>1. Len(queue) + k \in 1..Len(queue') /\ queue'[Len(queue) + k] = new[k]
      <4> DEFINE p == Len(queue) + k
      <4>0. k \in 1..fitting
        BY <1>2, <1>4, <2>2
      <4>1. p \in 1..(Len(queue) + fitting) /\ ~(p <= Len(queue)) /\ p - Len(queue) = k
        BY <1>3, <1>4, <4>0
      <4> HIDE DEF p
      <4>2. p \in 1..Len(queue') /\ queue'[p] = new[k]
        BY <1>8, <4>1
      <4> QED
        BY <4>2 DEF p
    <3>2. new[k] = << n, i >>
      BY <1>4, <1>7, <2>1, <2>2
    <3> QED
      BY <3>1, <3>2
  <2>3. CASE ~(k <= fitting)
    <3>1. k \in (fitting + 1)..Len(order)
      BY <1>2, <1>4, <2>3
    <3> QED
      BY <1>6, <2>1, <3>1
  <2> QED
    BY <2>2, <2>3
<1> QED
  BY <1>3, <1>4, <1>8, <1>9, <1>10, <1>11

-----------------------------------------------------------------------------
(* The queue, the event in hand and the device.                            *)

Stages == {"idle", "waiting", "opening", "setup", "parsing", "starting", "flagging"}
Marks == Ifaces \X {"dropped", "failed", "unread"}

\* Handles are those of this device and of earlier ones; what has the handle of the
\* device that is plugged in is about an interface it has.
QueueTyped ==
  /\ plugs \in 0..MaxPlugs /\ plugged \in DeviceKinds \union {NoKind}
  /\ queue \in Seq(Handle) /\ Len(queue) <= QueueSize
  /\ evt \in (0..MaxPlugs) \X Ifaces
  /\ dev \in Stages
  /\ given \subseteq Marks
  /\ opened \subseteq Ifaces /\ started \subseteq opened

EventsOfDevice ==
  /\ evt[1] <= plugs /\ \A k \in 1..Len(queue) : queue[k][1] <= plugs
  /\ plugged # NoKind => plugs # 0
  /\ plugged = NoKind => opened = {} /\ started = {}
  /\ Present => Iface \in Has(plugged)
  /\ Present /\ dev \in {"setup", "parsing", "starting", "flagging"} => Iface \in opened
  /\ plugged # NoKind =>
       \A k \in 1..Len(queue) : queue[k][1] = plugs => queue[k][2] \in Has(plugged)
  /\ \A i \in started : i \in Has(plugged)

LEMMA HasIfaces == \A k \in DeviceKinds : Has(k) \subseteq Ifaces
BY DeclaredAssumption DEF Has

LEMMA QueueNext ==
  ASSUME QueueTyped, EventsOfDevice, [UsbNext]_usbVars
  PROVE  QueueTyped' /\ EventsOfDevice'
<1>0. /\ plugs \in Nat /\ evt[1] \in Nat /\ evt[2] \in Ifaces
      /\ \A k \in 1..Len(queue) : queue[k] \in Handle
      /\ MaxPlugs \in Nat /\ QueueSize \in Nat /\ Len(queue) \in Nat
      /\ NoKind \notin DeviceKinds
  BY UsbAssumption, LenProperties DEF QueueTyped
<1> USE DEF QueueTyped, EventsOfDevice, Present, Iface, Stages
<1>1. CASE PlugIn
  <2>1. /\ plugged = NoKind /\ plugs < MaxPlugs /\ plugs' = plugs + 1
        /\ plugged' \in DeviceKinds
        /\ UNCHANGED << evt, dev, opened, started >>
    BY <1>1 DEF PlugIn
  <2>2. PICK order \in SetToSeqs(Has(plugged')) : Announce(plugs', order)
    BY <1>1 DEF PlugIn
  <2>3. plugs' \in 1..MaxPlugs /\ Has(plugged') \subseteq Ifaces
    BY <1>0, <2>1, HasIfaces
  <2>4. /\ queue' \in Seq(Handle) /\ Len(queue') <= QueueSize
        /\ given' \subseteq Has(plugged') \X {"dropped"}
        /\ \A k \in 1..Len(queue') :
             (k \in 1..Len(queue) /\ queue'[k] = queue[k])
             \/ (\E i \in Has(plugged') : queue'[k] = << plugs', i >>)
    BY <2>2, <2>3, Announced
  <2>5. given' \subseteq Marks
    BY <2>3, <2>4 DEF Marks
  <2>6. \A k \in 1..Len(queue) : queue[k][1] \in Nat
    BY <1>0 DEF Handle
  <2>7. QueueTyped'
    BY <1>0, <2>1, <2>3, <2>4, <2>5
  <2>a. ~Present' /\ evt'[1] <= plugs' /\ plugged' # NoKind /\ plugs' # 0 /\ started' = {}
    BY <1>0, <2>1
  <2>b. \A k \in 1..Len(queue') :
          /\ queue'[k][1] <= plugs'
          /\ queue'[k][1] = plugs' => queue'[k][2] \in Has(plugged')
    <3> TAKE k \in 1..Len(queue')
    <3>1. plugs' = plugs + 1 /\ plugs \in Nat
      BY <1>0, <2>1
    <3>2. CASE k \in 1..Len(queue) /\ queue'[k] = queue[k]
      <4>1. queue[k][1] \in Nat /\ queue[k][1] <= plugs
        BY <2>6, <3>2
      <4> QED
        BY <3>1, <3>2, <4>1
    <3>3. CASE \E i \in Has(plugged') : queue'[k] = << plugs', i >>
      <4>1. queue'[k][1] = plugs' /\ queue'[k][2] \in Has(plugged')
        BY <3>3
      <4> QED
        BY <3>1, <4>1
    <3> QED
      BY <2>4, <3>2, <3>3
  <2>8. EventsOfDevice'
    BY <2>a, <2>b
  <2> QED
    BY <2>7, <2>8
<1>2. CASE TakeEvent
  <2>1. /\ queue # << >> /\ evt' = Head(queue) /\ queue' = Tail(queue) /\ dev' \in {"idle", "waiting"}
        /\ UNCHANGED << plugs, plugged, opened, started, given >>
    BY <1>2 DEF TakeEvent
  <2>2. /\ Tail(queue) \in Seq(Handle) /\ Len(Tail(queue)) = Len(queue) - 1
        /\ \A k \in 1..Len(Tail(queue)) : Tail(queue)[k] = queue[k + 1]
        /\ Head(queue) = queue[1] /\ 1 \in 1..Len(queue)
    BY <1>0, <2>1, HeadTailProperties, EmptySeq
  <2>3. queue[1] \in (0..MaxPlugs) \X Ifaces
    BY <1>0, <2>2 DEF Handle
  <2>4. QueueTyped'
    BY <1>0, <2>1, <2>2, <2>3
  <2>5. \A k \in 1..Len(queue') : k + 1 \in 1..Len(queue) /\ queue'[k] = queue[k + 1]
    BY <1>0, <2>1, <2>2
  <2>6. EventsOfDevice'
    BY <2>1, <2>2, <2>5
  <2> QED
    BY <2>4, <2>6
<1>3. CASE Unplug
  BY <1>0, <1>3 DEF Unplug
<1>4. CASE SeeClient
  BY <1>0, <1>4 DEF SeeClient
<1>5. CASE WaitForClient \/ ParseDescriptor \/ FlagDevice
  BY <1>0, <1>5 DEF WaitForClient, ParseDescriptor, FlagDevice
<1>6. CASE OpenDevice \/ SetUpDevice \/ StartDevice \/ SkipDescriptor
  <2>1. UNCHANGED << plugs, plugged, queue, evt >> /\ dev' \in Stages
    BY <1>6 DEF OpenDevice, SetUpDevice, StartDevice, SkipDescriptor, Fails
  <2>2. given' \subseteq Marks
    BY <1>0, <1>6 DEF OpenDevice, SetUpDevice, StartDevice, SkipDescriptor, Fails, NoFault, Marks
  <2>3. CASE OpenDevice
    <3>1. /\ started' = started /\ opened \subseteq opened'
          /\ (opened' = opened /\ dev' = "idle") \/ (opened' = opened \union {Iface} /\ Present)
      BY <2>3 DEF OpenDevice, Fails
    <3> QED
      BY <1>0, <2>1, <2>2, <3>1
  <2>4. CASE StartDevice
    <3>1. /\ opened' = opened /\ dev = "starting" /\ dev' \in {"idle", "flagging"}
          /\ started' = started \/ (started' = started \union {Iface} /\ Present)
      BY <2>4 DEF StartDevice, Fails
    <3> QED
      BY <1>0, <2>1, <2>2, <3>1
  <2>5. CASE SetUpDevice \/ SkipDescriptor
    BY <1>0, <2>1, <2>2, <2>5 DEF SetUpDevice, SkipDescriptor
  <2> QED
    BY <1>6, <2>3, <2>4, <2>5
<1>7. CASE UNCHANGED usbVars
  BY <1>0, <1>7 DEF usbVars
<1> QED
  BY <1>1, <1>2, <1>3, <1>4, <1>5, <1>6, <1>7 DEF UsbNext

LEMMA QueueInit == UsbInit => QueueTyped /\ EventsOfDevice
<1> SUFFICES ASSUME UsbInit PROVE QueueTyped /\ EventsOfDevice
  OBVIOUS
<1>1. queue = << >> /\ Len(queue) = 0 /\ queue \in Seq(Handle)
  BY DEF UsbInit
<1>2. (CHOOSE i \in Ifaces : TRUE) \in Ifaces
  BY DeclaredAssumption
<1>3. evt \in (0..MaxPlugs) \X Ifaces /\ evt[1] = 0 /\ plugs \in 0..MaxPlugs /\ 0 <= QueueSize
  BY <1>2, UsbAssumption DEF UsbInit, NoEvent
<1> QED
  BY <1>1, <1>3 DEF UsbInit, QueueTyped, EventsOfDevice, Stages, Present

-----------------------------------------------------------------------------
(* No interface is forgotten.                                              *)

\* An interface of the device that is plugged in is on its way, or was lost track of.
Underway(i) ==
  \/ \E k \in 1..Len(queue) : queue[k] = << plugs, i >>
  \/ dev # "idle" /\ evt = << plugs, i >>
  \/ << i, "dropped" >> \in given \/ << i, "failed" >> \in given

FlagTyped == isUp \in [Ifaces -> BOOLEAN] /\ clientSeen \in BOOLEAN

NoneForgotten ==
  /\ plugged # NoKind => \A i \in Has(plugged) : (i \in started /\ isUp[i]) \/ Underway(i)
  /\ dev = "flagging" /\ Present => Iface \in started

ForgottenInv == QueueTyped /\ EventsOfDevice /\ FlagTyped /\ NoneForgotten

LEMMA FlagNext ==
  ASSUME FlagTyped, QueueTyped, [UsbNext]_usbVars
  PROVE  /\ FlagTyped' /\ \A i \in Ifaces : isUp[i] => isUp'[i]
         /\ dev = "flagging" /\ dev' = "idle" => isUp'[Iface]
<1>1. clientSeen' \in BOOLEAN
  BY DEF FlagTyped, UsbNext, PlugIn, SeeClient, Unplug, TakeEvent, WaitForClient, OpenDevice,
     SetUpDevice, ParseDescriptor, SkipDescriptor, StartDevice, FlagDevice, usbVars
<1>2. isUp \in [Ifaces -> BOOLEAN] /\ Iface \in Ifaces
  BY DEF FlagTyped, QueueTyped, Iface
<1>3. CASE isUp' = isUp /\ ~(dev = "flagging" /\ dev' = "idle")
  BY <1>1, <1>2, <1>3 DEF FlagTyped
<1>4. CASE FlagDevice
  <2>1. isUp' = [isUp EXCEPT ![Iface] = TRUE]
    BY <1>4 DEF FlagDevice
  <2>2. isUp' \in [Ifaces -> BOOLEAN] /\ isUp'[Iface] /\ \A i \in Ifaces : isUp[i] => isUp'[i]
    BY <1>2, <2>1
  <2> QED
    BY <1>1, <2>2 DEF FlagTyped
<1>5. FlagDevice \/ (isUp' = isUp /\ ~(dev = "flagging" /\ dev' = "idle"))
  <2>1. CASE PlugIn
    BY <2>1 DEF PlugIn
  <2>2. CASE SeeClient \/ Unplug
    BY <2>2 DEF SeeClient, Unplug
  <2>3. CASE TakeEvent \/ WaitForClient \/ ParseDescriptor
    BY <2>3 DEF TakeEvent, WaitForClient, ParseDescriptor
  <2>4. CASE OpenDevice \/ SetUpDevice \/ SkipDescriptor \/ StartDevice
    BY <2>4 DEF OpenDevice, SetUpDevice, SkipDescriptor, StartDevice
  <2>5. CASE UNCHANGED usbVars
    BY <2>5 DEF usbVars
  <2> QED
    BY <2>1, <2>2, <2>3, <2>4, <2>5 DEF UsbNext
<1> QED
  BY <1>3, <1>4, <1>5

LEMMA ForgottenNext ==
  ASSUME ForgottenInv, [UsbNext]_usbVars
  PROVE  ForgottenInv'
<1>0. /\ QueueTyped /\ EventsOfDevice /\ FlagTyped /\ NoneForgotten
      /\ QueueTyped' /\ EventsOfDevice' /\ FlagTyped'
      /\ \A i \in Ifaces : isUp[i] => isUp'[i]
      /\ dev = "flagging" /\ dev' = "idle" => isUp'[Iface]
  BY QueueNext, FlagNext DEF ForgottenInv
<1>t. /\ NoKind \notin DeviceKinds /\ evt[1] <= plugs /\ plugs \in Nat /\ evt[1] \in Nat
      /\ plugged \in DeviceKinds \union {NoKind} /\ started \subseteq Ifaces
      /\ \A k \in DeviceKinds : Has(k) \subseteq Ifaces
      /\ evt = << evt[1], evt[2] >>
  BY <1>0, UsbAssumption, HasIfaces DEF QueueTyped, EventsOfDevice
<1> SUFFICES NoneForgotten'
  BY <1>0 DEF ForgottenInv
<1>1. CASE PlugIn
  <2>1. /\ plugged = NoKind /\ plugs < MaxPlugs /\ plugs' = plugs + 1
        /\ plugged' \in DeviceKinds /\ UNCHANGED << evt, dev >>
    BY <1>1 DEF PlugIn
  <2>2. PICK order \in SetToSeqs(Has(plugged')) : Announce(plugs', order)
    BY <1>1 DEF PlugIn
  <2>3. plugs' \in 1..MaxPlugs /\ Has(plugged') \subseteq Ifaces
    BY <1>t, <2>1, UsbAssumption
  <2>4. \A i \in Has(plugged') :
          (\E k \in 1..Len(queue') : queue'[k] = << plugs', i >>) \/ << i, "dropped" >> \in given'
    BY <1>0, <2>2, <2>3, Announced DEF QueueTyped
  <2>5. ~Present'
    BY <1>t, <2>1 DEF Present
  <2> QED
    BY <2>4, <2>5 DEF NoneForgotten, Underway
<1>2. CASE TakeEvent
  <2>1. /\ dev = "idle" /\ queue # << >> /\ evt' = Head(queue) /\ queue' = Tail(queue)
        /\ dev' = IF plugged # NoKind /\ evt'[1] = plugs THEN "waiting" ELSE "idle"
        /\ UNCHANGED << plugs, plugged, started, isUp, given >>
    BY <1>2 DEF TakeEvent
  <2>2. /\ Len(queue') = Len(queue) - 1 /\ Len(queue) \in Nat
        /\ \A k \in 1..Len(queue') : queue'[k] = queue[k + 1]
        /\ Head(queue) = queue[1]
    BY <1>0, <2>1, HeadTailProperties, LenProperties DEF QueueTyped
  <2>3. ASSUME plugged # NoKind, NEW i \in Has(plugged), NEW k \in 1..Len(queue),
               queue[k] = << plugs, i >>
        PROVE  Underway(i)'
    <3>1. CASE k = 1
      BY <2>1, <2>2, <2>3, <3>1 DEF Underway
    <3>2. CASE k # 1
      <4>1. k - 1 \in 1..Len(queue') /\ (k - 1) + 1 = k
        BY <2>2, <3>2
      <4>2. queue'[k - 1] = << plugs', i >>
        BY <2>1, <2>2, <2>3, <4>1
      <4> QED
        BY <4>1, <4>2 DEF Underway
    <3> QED
      BY <3>1, <3>2
  <2> QED
    BY <1>0, <2>1, <2>3 DEF NoneForgotten, Underway
<1>3. CASE Unplug
  BY <1>3 DEF Unplug, NoneForgotten, Present
<1>4. ASSUME UNCHANGED << plugs, plugged, queue, evt >>, given \subseteq given',
             started \subseteq started',
             dev = "idle" => dev' = "idle",
             Present /\ dev # "idle" =>
               \/ dev' # "idle" \/ << Iface, "failed" >> \in given'
               \/ Iface \in started' /\ isUp'[Iface],
             Present /\ dev' = "flagging" => Iface \in started'
      PROVE  NoneForgotten'
  <2>1. ASSUME plugged # NoKind, NEW i \in Has(plugged)
        PROVE  (i \in started' /\ isUp'[i]) \/ Underway(i)'
    <3>1. (i \in started /\ isUp[i]) \/ Underway(i)
      BY <1>0, <2>1 DEF NoneForgotten
    <3>2. CASE i \in started /\ isUp[i]
      BY <1>0, <1>t, <1>4, <3>2
    <3>3. CASE dev # "idle" /\ evt = << plugs, i >>
      BY <1>4, <2>1, <3>3 DEF Underway, Present, Iface
    <3>4. CASE Underway(i) /\ ~(dev # "idle" /\ evt = << plugs, i >>)
      BY <1>4, <3>4 DEF Underway
    <3> QED
      BY <3>1, <3>2, <3>3, <3>4
  <2> QED
    BY <1>4, <2>1 DEF NoneForgotten, Present, Iface
<1>5. CASE SeeClient \/ WaitForClient \/ ParseDescriptor \/ UNCHANGED usbVars
  <2>1. /\ UNCHANGED << plugs, plugged, queue, evt, given, started >>
        /\ dev' = dev \/ (dev # "idle" /\ dev' \notin {"idle", "flagging"})
    BY <1>5 DEF SeeClient, WaitForClient, ParseDescriptor, usbVars
  <2> QED
    BY <1>0, <1>4, <2>1 DEF NoneForgotten
<1>6. CASE OpenDevice \/ SetUpDevice \/ SkipDescriptor \/ StartDevice
  <2>1. /\ UNCHANGED << plugs, plugged, queue, evt >> /\ given \subseteq given'
        /\ dev # "idle"
    BY <1>6 DEF OpenDevice, SetUpDevice, SkipDescriptor, StartDevice, Fails, NoFault
  <2>2. started \subseteq started' /\ (dev' = "flagging" => Iface \in started')
    BY <1>6 DEF OpenDevice, SetUpDevice, SkipDescriptor, StartDevice, Fails
  <2>3. Present => dev' # "idle" \/ << Iface, "failed" >> \in given'
    BY <1>6 DEF OpenDevice, SetUpDevice, SkipDescriptor, StartDevice, Fails
  <2> QED
    BY <1>4, <2>1, <2>2, <2>3
<1>7. CASE FlagDevice
  <2>1. /\ UNCHANGED << plugs, plugged, queue, evt, given, started >>
        /\ dev = "flagging" /\ dev' = "idle"
    BY <1>7 DEF FlagDevice
  <2> QED
    BY <1>0, <1>4, <2>1 DEF NoneForgotten
<1> QED
  BY <1>1, <1>2, <1>3, <1>5, <1>6, <1>7 DEF UsbNext

\* Every interface of a device is read and counts as connected, or is on its way, or
\* its event or a call about it is known to have failed, for any devices, any order of
\* their interfaces and any size of the queue.
THEOREM NoneIsForgotten == UsbSpec => []NoInterfaceForgotten
<1>1. UsbInit => ForgottenInv
  BY QueueInit DEF UsbInit, ForgottenInv, NoneForgotten, FlagTyped
<1>2. ForgottenInv => NoInterfaceForgotten
  <2> SUFFICES ASSUME ForgottenInv, plugged # NoKind, NEW i \in Has(plugged)
               PROVE  (i \in started /\ isUp[i]) \/ Underway(i)
    <3>1. DOMAIN queue = 1..Len(queue) \/ queue \notin Seq(Handle)
      BY LenProperties
    <3> QED
      BY <3>1 DEF NoInterfaceForgotten, Underway, ForgottenInv, QueueTyped
  <2> QED
    BY DEF ForgottenInv, NoneForgotten
<1> QED
  BY <1>1, <1>2, ForgottenNext, PTL DEF UsbSpec

-----------------------------------------------------------------------------
(* Reports are read with the device's own map.                             *)

Maps == [kind : DeviceKinds \union {NoKind}, ids : Seq(FirstBytes)]

MapsTyped ==
  /\ map \in [Ifaces -> Maps] /\ lookup \in [Ifaces -> [Indexes -> Pointers]]
  /\ strayed \in BOOLEAN

\* The table of an interface has an entry for every report of its map, which leads to it.
LeadsTo(to, i, own, r) == to[1] = i /\ to[2] \in DOMAIN own /\ to[2] # 0 /\ own[to[2]] = r

\* The map of an interface is the one of the device that is plugged in, and the lookup
\* table leads to the reports that it has.
OwnMap(i) ==
  /\ map[i] = [kind |-> plugged, ids |-> ParsedIds(i, Declared[plugged][i])]
  /\ \A k \in DOMAIN map[i].ids : map[i].ids[k] \in Indexes
  /\ \A r \in Indexes : \A k \in DOMAIN map[i].ids : map[i].ids[k] = r =>
       LeadsTo(lookup[i][r], i, map[i].ids, r)

\* So it is as long as every id had an entry.
MapsRight ==
  ~strayed =>
    /\ \A i \in started : << i, "unread" >> \notin given => OwnMap(i)
    /\ Present /\ dev = "starting" /\ << Iface, "unread" >> \notin given => OwnMap(Iface)

\* What a descriptor gives: the report without an id comes before the declared ones.
LEMMA IdsParsed ==
  ASSUME NEW d \in Seq(FirstBytes), NEW i
  PROVE  /\ ParsedIds(i, d) \in Seq(FirstBytes) /\ Len(ParsedIds(i, d)) = Len(d) + 1
         /\ ParsedIds(i, d)[1] = 0 /\ Len(d) \in Nat
         /\ \A k \in 1..Len(d) : ParsedIds(i, d)[k + 1] = d[k]
<1> DEFINE t == << 0 >> \o d
           n == Len(d)
<1>1. n \in Nat /\ << 0 >> \in Seq(FirstBytes) /\ Len(<< 0 >>) = 1 /\ << 0 >>[1] = 0
  BY UsbAssumption, LenProperties
<1>2. /\ t \in Seq(FirstBytes) /\ Len(t) = 1 + n
      /\ \A k \in 1..(1 + n) : t[k] = IF k <= 1 THEN << 0 >>[k] ELSE d[k - 1]
  BY <1>1, ConcatProperties
<1> HIDE DEF t
<1>3. t[1] = 0
  BY <1>1, <1>2
<1>4. \A k \in 1..n : t[k + 1] = d[k]
  <2> TAKE k \in 1..n
  <2>1. k + 1 \in 1..(1 + n) /\ ~(k + 1 <= 1) /\ (k + 1) - 1 = k
    BY <1>1
  <2> QED
    BY <1>2, <2>1
<1>5. ParsedIds(i, d) = t
  BY DEF ParsedIds, t
<1> QED
  BY <1>1, <1>2, <1>3, <1>4, <1>5

\* Parsing keeps the types; with an entry for every id, it leaves the other interfaces
\* alone and gives this one its own map.
LEMMA ParsedIsOwn ==
  ASSUME QueueTyped, EventsOfDevice, MapsTyped, ParseDescriptor
  PROVE  /\ MapsTyped' /\ plugged \in DeviceKinds /\ Iface \in Ifaces
         /\ strayed => strayed'
         /\ ~strayed' => OwnMap(Iface)'
         /\ ~strayed' => \A i \in Ifaces : i # Iface => map'[i] = map[i] /\ lookup'[i] = lookup[i]
<1> DEFINE own == ParsedIds(Iface, Declared[plugged][Iface])
           inside == {k \in DOMAIN own : own[k] \in Indexes}
<1>1. Present /\ plugged \in DeviceKinds /\ Iface \in Has(plugged) /\ Iface \in Ifaces
  BY DEF ParseDescriptor, QueueTyped, EventsOfDevice, Present, Iface
<1>2. Declared[plugged][Iface] \in Seq(FirstBytes)
  BY <1>1, DeclaredAssumption DEF Has
<1>3. own \in Seq(FirstBytes) /\ DOMAIN own = 1..Len(own) /\ Len(own) \in Nat
  BY <1>2, IdsParsed, LenProperties
<1>4. /\ map' = [map EXCEPT ![Iface] = [kind |-> plugged, ids |-> own]]
      /\ strayed' = (strayed \/ inside # DOMAIN own)
      /\ UNCHANGED << plugs, plugged, evt >>
  BY DEF ParseDescriptor
<1>5. PICK hit \in SUBSET ((Ifaces \ {Iface}) \X Indexes \X (DOMAIN own \ inside)) :
        lookup' = [i \in Ifaces |-> [r \in Indexes |->
          LET stored == IF i = Iface THEN {k \in inside : own[k] = r}
                        ELSE {k \in DOMAIN own : << i, r, k >> \in hit}
          IN IF stored = {} THEN lookup[i][r] ELSE << Iface, CHOOSE k \in stored : TRUE >>]]
  BY DEF ParseDescriptor
<1> DEFINE Stored(i, r) == IF i = Iface THEN {k \in inside : own[k] = r}
                           ELSE {k \in DOMAIN own : << i, r, k >> \in hit}
<1>6. \A i \in Ifaces, r \in Indexes : lookup'[i][r] =
        IF Stored(i, r) = {} THEN lookup[i][r] ELSE << Iface, CHOOSE k \in Stored(i, r) : TRUE >>
  BY <1>5
<1>7. DOMAIN lookup' = Ifaces /\ \A i \in Ifaces : DOMAIN lookup'[i] = Indexes
                      /\ lookup'[i] = [r \in Indexes |-> lookup'[i][r]]
  BY <1>5
<1>8. lookup' = [i \in Ifaces |-> lookup'[i]]
  BY <1>5
<1>9. \A i \in Ifaces, r \in Indexes : Stored(i, r) \subseteq DOMAIN own
  OBVIOUS
<1> HIDE DEF own
<1>10. MapsTyped'
  <2>1. map' \in [Ifaces -> Maps]
    BY <1>1, <1>3, <1>4 DEF MapsTyped, Maps
  <2>2. ASSUME NEW i \in Ifaces, NEW r \in Indexes
        PROVE  lookup'[i][r] \in Pointers
    <3>1. lookup[i][r] \in Pointers
      BY DEF MapsTyped
    <3>2. CASE Stored(i, r) = {}
      <4>1. lookup'[i][r] = lookup[i][r]
        BY <1>6, <3>2
      <4> QED
        BY <3>1, <4>1
    <3>3. CASE Stored(i, r) # {}
      <4> DEFINE K == Stored(i, r)
                 c == CHOOSE k \in K : TRUE
      <4>1. K # {} /\ K \subseteq DOMAIN own
        BY <1>9, <3>3
      <4>2. lookup'[i][r] = << Iface, c >>
        BY <1>6, <3>3
      <4> HIDE DEF K
      <4>3. c \in Nat
        BY <1>3, <4>1
      <4> HIDE DEF c
      <4> QED
        BY <1>1, <4>2, <4>3 DEF Pointers
    <3> QED
      BY <3>2, <3>3
  <2>3. \A i \in Ifaces : lookup'[i] \in [Indexes -> Pointers]
    BY <1>7, <2>2
  <2>4. lookup' \in [Ifaces -> [Indexes -> Pointers]]
    BY <1>8, <2>3
  <2>5. strayed' \in BOOLEAN
    BY <1>4, Zenon
  <2> QED
    BY <2>1, <2>4, <2>5 DEF MapsTyped
<1>11. map'[Iface] = [kind |-> plugged, ids |-> own] /\ map'[Iface].ids = own
       /\ \A i \in Ifaces : i # Iface => map'[i] = map[i]
  BY <1>1, <1>4 DEF MapsTyped
<1>12. Iface' = Iface
  BY <1>4 DEF Iface
<1>13. ASSUME ~strayed'
       PROVE  /\ OwnMap(Iface)'
              /\ \A i \in Ifaces : i # Iface => map'[i] = map[i] /\ lookup'[i] = lookup[i]
  <2>1. inside = DOMAIN own
    BY <1>4, <1>13, Zenon
  <2>2. \A k \in DOMAIN own : own[k] \in Indexes
    BY <2>1
  <2>3. hit = {}
    <3>1. DOMAIN own \ inside = {}
      BY <2>1
    <3> HIDE DEF inside
    <3> QED
      BY <3>1, <1>5
  <2>4. \A i \in Ifaces : i # Iface => lookup'[i] = lookup[i]
    <3> SUFFICES ASSUME NEW i \in Ifaces, i # Iface PROVE lookup'[i] = lookup[i]
      OBVIOUS
    <3>1. \A r \in Indexes : Stored(i, r) = {}
      BY <2>3
    <3>2. \A r \in Indexes : lookup'[i][r] = lookup[i][r]
      BY <1>6, <3>1
    <3>3. lookup[i] \in [Indexes -> Pointers] /\ lookup'[i] \in [Indexes -> Pointers]
      BY <1>10 DEF MapsTyped
    <3> QED
      BY <3>2, <3>3
  <2>5. ASSUME NEW r \in Indexes, NEW k \in DOMAIN own, own[k] = r
        PROVE  LeadsTo(lookup'[Iface][r], Iface, own, r)
    <3> DEFINE K == Stored(Iface, r)
               c == CHOOSE j \in K : TRUE
    <3>1. k \in K /\ \A j \in K : j \in DOMAIN own /\ own[j] = r
      BY <2>1, <2>5
    <3>2. lookup'[Iface][r] = IF K = {} THEN lookup[Iface][r] ELSE << Iface, c >>
      BY <1>1, <1>6
    <3> HIDE DEF K
    <3>3. c \in K
      BY <3>1
    <3>4. lookup'[Iface][r] = << Iface, c >>
      BY <3>1, <3>2
    <3>5. c \in DOMAIN own /\ own[c] = r
      BY <3>1, <3>3
    <3> HIDE DEF c
    <3>6. c # 0
      BY <1>3, <3>5
    <3> QED
      BY <3>4, <3>5, <3>6 DEF LeadsTo
  <2>6. OwnMap(Iface)'
    BY <1>4, <1>11, <1>12, <2>2, <2>5 DEF OwnMap, own
  <2> QED
    BY <1>11, <2>4, <2>6
<1>14. strayed => strayed'
  BY <1>4, Zenon
<1> QED
  BY <1>1, <1>10, <1>13, <1>14

OwnInv == QueueTyped /\ EventsOfDevice /\ MapsTyped /\ MapsRight

LEMMA OwnNext ==
  ASSUME OwnInv, [UsbNext]_usbVars
  PROVE  OwnInv'
<1>0. QueueTyped /\ EventsOfDevice /\ MapsTyped /\ MapsRight /\ QueueTyped' /\ EventsOfDevice'
  BY QueueNext DEF OwnInv
<1> SUFFICES MapsTyped' /\ MapsRight'
  BY <1>0 DEF OwnInv
<1>1. CASE PlugIn
  <2>1. plugged = NoKind /\ plugs' = plugs + 1 /\ UNCHANGED << evt, started, map, lookup, strayed >>
        /\ plugs \in Nat /\ evt[1] \in Nat /\ evt[1] <= plugs
    BY <1>0, <1>1, UsbAssumption DEF PlugIn, QueueTyped, EventsOfDevice, tables
  <2>2. started' = {} /\ ~Present'
    BY <1>0, <2>1 DEF EventsOfDevice, Present
  <2> QED
    BY <1>0, <2>1, <2>2 DEF MapsTyped, MapsRight
<1>2. CASE Unplug
  BY <1>0, <1>2 DEF Unplug, MapsTyped, MapsRight, Present, tables
<1>3. CASE ParseDescriptor /\ strayed'
  BY <1>0, <1>3, ParsedIsOwn DEF MapsRight
<1>a. CASE ParseDescriptor /\ ~strayed'
  <2>1. /\ MapsTyped' /\ OwnMap(Iface)' /\ Iface \in Ifaces /\ ~strayed
        /\ \A i \in Ifaces : i # Iface => map'[i] = map[i] /\ lookup'[i] = lookup[i]
    BY <1>0, <1>a, ParsedIsOwn
  <2>2. UNCHANGED << plugs, plugged, evt, started, given >> /\ started \subseteq Ifaces
    BY <1>0, <1>a DEF ParseDescriptor, QueueTyped
  <2>3. \A i \in started : << i, "unread" >> \notin given' => OwnMap(i)'
    <3> SUFFICES ASSUME NEW i \in started, << i, "unread" >> \notin given PROVE OwnMap(i)'
      BY <2>2
    <3>1. CASE i = Iface
      BY <2>1, <2>2, <3>1 DEF OwnMap, Iface
    <3>2. CASE i # Iface
      BY <1>0, <2>1, <2>2, <3>2 DEF OwnMap, MapsRight
    <3> QED
      BY <3>1, <3>2
  <2> QED
    BY <2>1, <2>2, <2>3 DEF MapsRight
<1>4. ASSUME UNCHANGED << plugs, plugged, tables >>, given \subseteq given',
             \A i \in started' : i \in started \/ (Present /\ dev = "starting" /\ i = Iface),
             Present' /\ dev' = "starting" /\ << Iface', "unread" >> \notin given' =>
               dev = "starting" /\ evt' = evt
      PROVE  MapsTyped' /\ MapsRight'
  <2>0. UNCHANGED << plugs, plugged, map, lookup, strayed >>
    BY <1>4 DEF tables
  <2>1. \A i : OwnMap(i) => OwnMap(i)'
    BY <2>0 DEF OwnMap
  <2>2. ~strayed => \A i \in started' : << i, "unread" >> \notin given' => OwnMap(i)'
    BY <1>0, <1>4, <2>1 DEF MapsRight
  <2>3. ~strayed => (Present' /\ dev' = "starting" /\ << Iface', "unread" >> \notin given' => OwnMap(Iface)')
    <3> SUFFICES ASSUME ~strayed, Present', dev' = "starting", << Iface', "unread" >> \notin given'
                 PROVE  OwnMap(Iface)'
      OBVIOUS
    <3>1. dev = "starting" /\ evt' = evt /\ Present
      BY <1>4, <2>0 DEF Present
    <3>2. OwnMap(Iface)
      BY <1>0, <1>4, <3>1 DEF MapsRight, Iface
    <3> QED
      BY <2>0, <3>1, <3>2 DEF OwnMap, Iface
  <2>4. MapsTyped'
    BY <1>0, <2>0 DEF MapsTyped
  <2> QED
    BY <2>0, <2>2, <2>3, <2>4 DEF MapsRight
<1>5. CASE SeeClient \/ WaitForClient \/ TakeEvent \/ FlagDevice \/ UNCHANGED usbVars
  <2>1. /\ UNCHANGED << plugs, plugged, tables, given, started >>
        /\ dev' = "starting" => dev = "starting" /\ evt' = evt
    BY <1>5 DEF SeeClient, WaitForClient, TakeEvent, FlagDevice, usbVars, tables
  <2> QED
    BY <1>4, <2>1
<1>6. CASE OpenDevice \/ SetUpDevice \/ SkipDescriptor \/ StartDevice
  <2>1. UNCHANGED << plugs, plugged, tables, evt >> /\ given \subseteq given'
    BY <1>6 DEF OpenDevice, SetUpDevice, SkipDescriptor, StartDevice, Fails, NoFault
  <2>2. \A i \in started' : i \in started \/ (Present /\ dev = "starting" /\ i = Iface)
    BY <1>6 DEF OpenDevice, SetUpDevice, SkipDescriptor, StartDevice
  <2>3. Present' /\ dev' = "starting" => << Iface', "unread" >> \in given'
    BY <1>6, <2>1 DEF OpenDevice, SetUpDevice, SkipDescriptor, StartDevice, Fails, Present, Iface
  <2> QED
    BY <1>4, <2>1, <2>2, <2>3
<1> QED
  BY <1>1, <1>2, <1>3, <1>a, <1>5, <1>6 DEF UsbNext

\* A report of the device that is plugged in is read as what its descriptor says it is.
LEMMA DecodedRight ==
  ASSUME OwnInv, NEW i \in started, OwnMap(i), NEW s \in Sends(i)
  PROVE  Decode(i, s[1]) = {<< plugged, s[2] >>}
<1> DEFINE d == Declared[plugged][i]
           own == ParsedIds(i, d)
<1>1. plugged \in DeviceKinds /\ i \in Has(plugged)
  BY DEF OwnInv, QueueTyped, EventsOfDevice
<1>2. d \in Seq(FirstBytes)
  BY <1>1, DeclaredAssumption DEF Has
<1>3. /\ own \in Seq(FirstBytes) /\ Len(own) = Len(d) + 1 /\ own[1] = 0 /\ Len(d) \in Nat
      /\ \A k \in 1..Len(d) : own[k + 1] = d[k]
  BY <1>2, IdsParsed
<1>4. DOMAIN own = 1..Len(own) /\ DOMAIN d = 1..Len(d) /\ 1 \in 1..Len(own) /\ own # << >>
  BY <1>2, <1>3, LenProperties
<1> HIDE DEF own
<1>5. map[i].kind = plugged /\ map[i].ids = own
  BY DEF OwnMap, own
<1>6. \A k \in DOMAIN own : own[k] \in Indexes /\ LeadsTo(lookup[i][own[k]], i, own, own[k])
  BY <1>5 DEF OwnMap
<1>9. ASSUME NEW r \in Indexes, LeadsTo(lookup[i][r], i, own, r), NEW byte,
             r = IF Len(own) > 1 THEN byte ELSE own[1]
      PROVE  Decode(i, byte) = {<< plugged, r >>}
  <2> DEFINE to == lookup[i][r]
  <2>1. /\ to[1] = i /\ to[2] \in DOMAIN own /\ to[2] # 0 /\ own[to[2]] = r
    BY <1>9 DEF LeadsTo
  <2>2. map[to[1]].ids = own /\ map[to[1]].kind = plugged
    BY <1>5, <2>1
  <2>3. (IF Len(map[i].ids) > 1 THEN byte ELSE IF map[i].ids = << >> THEN 0 ELSE map[i].ids[1]) = r
    BY <1>4, <1>5, <1>9
  <2> HIDE DEF to
  <2> QED
    BY <2>1, <2>2, <2>3 DEF Decode, to
<1>7. CASE d = << >>
  <2>1. s[2] = 0
    BY <1>7 DEF Sends
  <2>2. Len(own) = 1 /\ ~(Len(own) > 1)
    BY <1>3, <1>7
  <2>3. 0 \in Indexes /\ LeadsTo(lookup[i][0], i, own, 0)
    BY <1>3, <1>4, <1>6
  <2> QED
    BY <1>3, <1>9, <2>1, <2>2, <2>3
<1>8. CASE d # << >>
  <2>1. PICK k \in DOMAIN d : s = << d[k], d[k] >>
    BY <1>8 DEF Sends
  <2>2. k + 1 \in DOMAIN own /\ own[k + 1] = d[k]
    BY <1>2, <1>3, <1>4
  <2>3. Len(own) > 1
    BY <1>3, <1>4, <2>2
  <2>4. d[k] \in Indexes /\ LeadsTo(lookup[i][d[k]], i, own, d[k])
    BY <1>6, <2>2
  <2> QED
    BY <1>9, <2>1, <2>3, <2>4
<1> QED
  BY <1>7, <1>8

LEMMA OwnInvAlways == UsbSpec => []OwnInv
<1>1. UsbInit => OwnInv
  <2> SUFFICES ASSUME UsbInit PROVE OwnInv
    OBVIOUS
  <2>1. map = [i \in Ifaces |-> NoMap] /\ NoMap \in Maps
        /\ lookup = [i \in Ifaces |-> [r \in Indexes |-> << i, 0 >>]] /\ strayed = FALSE
    BY DEF UsbInit, NoMap, Maps
  <2>2. started = {} /\ ~Present
    BY DEF UsbInit, Present
  <2> QED
    BY <2>1, <2>2, QueueInit DEF OwnInv, MapsTyped, MapsRight, Pointers
<1> QED
  BY <1>1, OwnNext, PTL DEF UsbSpec

\* Every variable of the USB host has its type.
THEOREM UsbTypeCorrect == UsbSpec => []UsbTypeOK
<1>1. UsbInit => ForgottenInv
  BY QueueInit DEF UsbInit, ForgottenInv, NoneForgotten, FlagTyped
<1>2. ForgottenInv /\ OwnInv => UsbTypeOK
  BY DEF ForgottenInv, OwnInv, QueueTyped, FlagTyped, MapsTyped, Maps, UsbTypeOK, Handle, Marks,
         Stages
<1> QED
  BY <1>1, <1>2, ForgottenNext, OwnInvAlways, PTL DEF UsbSpec

\* The reports of a device are read with the map of its own descriptor, for any devices,
\* whatever was plugged in and out before, as long as the lookup table had an entry for
\* every report id.
THEOREM ReportsReadRight == UsbSpec => []ReadWithOwnMap
<1>1. OwnInv => ReadWithOwnMap
  BY DecodedRight DEF ReadWithOwnMap, OwnInv, MapsRight
<1> QED
  BY <1>1, OwnInvAlways, PTL

-----------------------------------------------------------------------------
(* The cache of actions.                                                   *)

\* A task that is not idle executes a name, and a row that was found is in the array.
TaskHasName ==
  \A t \in Tasks : /\ at[t] # "idle" => name[t] \in Names
                   /\ at[t] = "found" => row[t] <= Slots

\* The five parts hold as long as no two tasks meet: one task at a time is in the
\* cache,
OneInCache ==
  \A t, u \in Tasks : at[t] \in CacheStages /\ at[u] \in CacheStages => t = u

\* there is room for the row it is going to claim,
RoomForRow ==
  /\ count <= Slots
  /\ \A t \in Tasks : at[t] = "claim" => count < Slots
  /\ \A t \in Tasks : row[t] <= Slots

\* it has parsed the name if it is to add or to execute it,
ParsedRight ==
  \A t \in Tasks :
    at[t] \in {"check", "claim", "fillName", "fillMeaning", "execute"} =>
      does[t] = Parse(name[t])

\* what it found, or has half filled, is the row of its name,
AtOwnRow ==
  \A t \in Tasks :
    /\ at[t] = "found" => rows[row[t]].does = Parse(name[t])
    /\ at[t] = "fillMeaning" => rows[row[t]].name = Keep(name[t])

BeingFilled(i) == \E t \in Tasks : at[t] \in {"fillName", "fillMeaning"} /\ row[t] = i

\* and every other row means what its name says.
RowsRight ==
  \A i \in 1..Slots :
    i <= count /\ ~BeingFilled(i) /\ rows[i].name \in Names =>
      rows[i].does = Parse(rows[i].name)

Unraced == OneInCache /\ RoomForRow /\ ParsedRight /\ AtOwnRow /\ RowsRight

CacheInv == CacheTypeOK /\ TaskHasName /\ (~raced => Unraced)

\* The lookup returns a row that matches.
LEMMA FoundRowMatches ==
  ASSUME CacheTypeOK, NEW t \in Tasks, FindInCache(t)
  PROVE  /\ row'[t] \in Matches(t) /\ row'[t] \in 1..Slots
         /\ row' = [row EXCEPT ![t] = row'[t]]
<1>1. Slots \in Nat /\ count \in Nat
  BY CacheAssumption DEF CacheTypeOK
<1>2. Matches(t) \in SUBSET Nat /\ Matches(t) \subseteq 1..Slots
  BY <1>1 DEF Matches
<1>3. \E i \in Matches(t) : \A j \in Matches(t) : i <= j
  BY <1>2, LeastExists DEF FindInCache
<1> DEFINE lowest == CHOOSE i \in Matches(t) : \A j \in Matches(t) : i <= j
<1>4. lowest \in Matches(t)
  BY <1>3
<1>5. row' = [row EXCEPT ![t] = lowest]
  BY DEF FindInCache
<1> HIDE DEF lowest
<1>6. row'[t] = lowest
  BY <1>5 DEF CacheTypeOK
<1> QED
  BY <1>2, <1>4, <1>5, <1>6

\* A step of one task leaves the places of the others alone.
LEMMA OthersStay ==
  ASSUME CacheTypeOK, NEW t \in Tasks, NEW from, NEW to, CacheGoes(t, from, to)
  PROVE  /\ at[t] = from /\ at'[t] = to
         /\ \A u \in Tasks : u # t => at'[u] = at[u]
         /\ ~raced' => ~raced
  BY DEF CacheGoes, CacheTypeOK

\* A step inside the cache that nobody raced is one that nobody else can see.
LEMMA NobodyElse ==
  ASSUME CacheInv, NEW t \in Tasks, NEW from, NEW to, CacheGoes(t, from, to),
         from # "idle", from # "execute", ~raced'
  PROVE  /\ Unraced
         /\ \A u \in Tasks : u # t => at[u] \notin CacheStages /\ at'[u] \notin CacheStages
         /\ OneInCache'
<1>1. ~raced /\ \A u \in Tasks : u # t => at[u] \notin CacheStages
  BY DEF CacheGoes
<1>2. \A u \in Tasks : u # t => at'[u] = at[u]
  BY OthersStay DEF CacheInv
<1>3. OneInCache'
  BY <1>1, <1>2 DEF OneInCache
<1> QED
  BY <1>1, <1>2, <1>3 DEF CacheInv

LEMMA CacheInvInit == CacheInit => CacheInv
<1> SUFFICES ASSUME CacheInit PROVE CacheInv
  OBVIOUS
<1>1. CacheTypeOK
  <2>1. raced \in BOOLEAN
    BY DEF CacheInit
  <2>2. rows \in [1..Slots -> [name : Kept, does : Meanings]]
    BY DEF CacheInit, Kept, Meanings
  <2>3. count \in 0..(Slots + 1) /\ row \in [Tasks -> 1..(Slots + 1)]
    BY CacheAssumption DEF CacheInit
  <2> QED
    BY <2>1, <2>2, <2>3 DEF CacheInit, CacheTypeOK, Meanings
<1>2. TaskHasName
  BY DEF CacheInit, TaskHasName
<1>3. Unraced
  BY CacheAssumption DEF CacheInit, Unraced, OneInCache, RoomForRow, ParsedRight, AtOwnRow,
     RowsRight, CacheStages
<1> QED
  BY <1>1, <1>2, <1>3 DEF CacheInv

\* Parsing and cutting keep names among those a row may hold.
LEMMA ParseAndKeep ==
  ASSUME NEW n \in Meanings
  PROVE  Parse(n) \in Meanings /\ Keep(n) \in Kept
  BY DEF Parse, Keep, Meanings, Kept

LEMMA CacheTypeNext ==
  ASSUME CacheInv, NEW t \in Tasks,
         \/ AskAction(t) \/ FindInCache(t) \/ UseRow(t) \/ ParseAction(t)
         \/ MakeRoom(t) \/ ClaimRow(t) \/ FillName(t) \/ FillMeaning(t) \/ Execute(t)
  PROVE  CacheTypeOK' /\ TaskHasName'
<1> USE CacheAssumption
<1>0. CacheTypeOK /\ TaskHasName
  BY DEF CacheInv
<1>1. CASE AskAction(t)
  BY <1>0, <1>1 DEF AskAction, CacheGoes, CacheTypeOK, TaskHasName, Meanings, CacheStages
<1>2. CASE FindInCache(t)
  <2>1. raced' \in BOOLEAN
    BY <1>0, <1>2 DEF FindInCache, CacheGoes, CacheTypeOK
  <2>2. at' = [at EXCEPT ![t] = "found"] /\ at[t] = "look"
    BY <1>2 DEF FindInCache, CacheGoes
  <2>3. row'[t] \in 1..Slots /\ row' = [row EXCEPT ![t] = row'[t]]
    BY <1>0, <1>2, FoundRowMatches
  <2>4. rows' = rows /\ count' = count /\ name' = name /\ does' = does
    BY <1>2 DEF FindInCache
  <2>5. row' \in [Tasks -> 1..(Slots + 1)]
    <3>1. row'[t] \in 1..(Slots + 1)
      BY <2>3
    <3> QED
      BY <1>0, <2>3, <3>1 DEF CacheTypeOK
  <2>6. at' \in [Tasks -> CacheStages \union {"idle", "look", "execute"}]
    BY <1>0, <2>2 DEF CacheTypeOK, CacheStages
  <2>7. TaskHasName'
    BY <1>0, <2>2, <2>3, <2>4 DEF TaskHasName, CacheTypeOK
  <2> QED
    BY <1>0, <2>1, <2>4, <2>5, <2>6, <2>7 DEF CacheTypeOK
<1>3. CASE UseRow(t)
  BY <1>0, <1>3 DEF UseRow, CacheGoes, CacheTypeOK, TaskHasName, CacheStages
<1>4. CASE ParseAction(t)
  BY <1>0, <1>4, ParseAndKeep DEF ParseAction, CacheGoes, CacheTypeOK, TaskHasName, CacheStages
<1>5. CASE MakeRoom(t)
  <2>1. raced' \in BOOLEAN
    BY <1>0, <1>5 DEF MakeRoom, CacheGoes, CacheTypeOK
  <2>2. at' = [at EXCEPT ![t] = "claim"] /\ at[t] = "check"
    BY <1>5 DEF MakeRoom, CacheGoes
  <2>3. row' = row /\ name' = name /\ does' = does
    BY <1>5 DEF MakeRoom
  <2>4. count' \in 0..(Slots + 1)
    BY <1>0, <1>5 DEF MakeRoom, CacheTypeOK
  <2>5. rows' \in [1..Slots -> [name : Kept, does : Meanings]]
    <3>1. \A i \in 1..Slots : rows[i] \in [name : Kept, does : Meanings]
      BY <1>0 DEF CacheTypeOK
    <3>2. \A i \in 1..Slots : i < Slots => i + 1 \in 1..Slots
      OBVIOUS
    <3>3. CASE count >= Slots
      <4>1. rows' = [i \in 1..Slots |-> IF i < Slots THEN rows[i + 1] ELSE rows[i]]
        BY <1>5, <3>3 DEF MakeRoom
      <4>2. \A i \in 1..Slots : (IF i < Slots THEN rows[i + 1] ELSE rows[i])
                                 \in [name : Kept, does : Meanings]
        BY <3>1, <3>2
      <4> QED
        BY <4>1, <4>2
    <3>4. CASE ~(count >= Slots)
      BY <1>0, <1>5, <3>4 DEF MakeRoom, CacheTypeOK
    <3> QED
      BY <3>3, <3>4
  <2>6. at' \in [Tasks -> CacheStages \union {"idle", "look", "execute"}]
    BY <1>0, <2>2 DEF CacheTypeOK, CacheStages
  <2>7. TaskHasName'
    BY <1>0, <2>2, <2>3 DEF TaskHasName, CacheTypeOK
  <2> QED
    BY <1>0, <2>1, <2>3, <2>4, <2>5, <2>6, <2>7 DEF CacheTypeOK
<1>6. CASE ClaimRow(t)
  BY <1>0, <1>6 DEF ClaimRow, CacheGoes, CacheTypeOK, TaskHasName, CacheStages
<1>7. CASE FillName(t)
  BY <1>0, <1>7, ParseAndKeep DEF FillName, CacheGoes, CacheTypeOK, TaskHasName, CacheStages
<1>8. CASE FillMeaning(t)
  BY <1>0, <1>8 DEF FillMeaning, CacheGoes, CacheTypeOK, TaskHasName, CacheStages
<1>9. CASE Execute(t)
  BY <1>0, <1>9 DEF Execute, CacheGoes, CacheTypeOK, TaskHasName, CacheStages
<1> QED
  BY <1>1, <1>2, <1>3, <1>4, <1>5, <1>6, <1>7, <1>8, <1>9

LEMMA UnracedNext ==
  ASSUME CacheInv, NEW t \in Tasks, ~raced',
         \/ AskAction(t) \/ FindInCache(t) \/ UseRow(t) \/ ParseAction(t)
         \/ MakeRoom(t) \/ ClaimRow(t) \/ FillName(t) \/ FillMeaning(t) \/ Execute(t)
  PROVE  Unraced'
<1> USE CacheAssumption
<1>0. CacheTypeOK /\ TaskHasName /\ CacheTypeOK' /\ TaskHasName'
  BY CacheTypeNext DEF CacheInv
<1>1. CASE AskAction(t)
  <2>1. at[t] = "idle" /\ at'[t] = "look" /\ ~raced
        /\ \A u \in Tasks : u # t => at'[u] = at[u] /\ name'[u] = name[u]
    BY <1>0, <1>1, OthersStay DEF AskAction, CacheTypeOK
  <2>2. rows' = rows /\ count' = count /\ row' = row /\ does' = does
    BY <1>1 DEF AskAction
  <2>3. Unraced
    BY <2>1 DEF CacheInv
  <2>4. OneInCache' /\ RoomForRow' /\ ParsedRight' /\ AtOwnRow'
    BY <2>1, <2>2, <2>3 DEF Unraced, OneInCache, RoomForRow, ParsedRight, AtOwnRow, CacheStages
  <2>5. RowsRight'
    BY <2>1, <2>2, <2>3 DEF Unraced, RowsRight, BeingFilled
  <2> QED
    BY <2>4, <2>5 DEF Unraced
<1>2. CASE FindInCache(t)
  <2>1. CacheGoes(t, "look", "found") /\ rows' = rows /\ count' = count /\ name' = name
        /\ does' = does
    BY <1>2 DEF FindInCache
  <2>2. at[t] = "look" /\ at'[t] = "found" /\ \A u \in Tasks : u # t => at'[u] = at[u]
    BY <1>0, <2>1, OthersStay
  <2>3. Unraced /\ OneInCache' /\ \A u \in Tasks : u # t => at[u] \notin CacheStages
    BY <2>1, NobodyElse
  <2>4. row'[t] \in Matches(t) /\ row'[t] \in 1..Slots
        /\ \A u \in Tasks : u # t => row'[u] = row[u]
    BY <1>0, <1>2, FoundRowMatches DEF CacheTypeOK
  <2>5. RoomForRow' /\ ParsedRight'
    BY <2>1, <2>2, <2>3, <2>4 DEF Unraced, RoomForRow, ParsedRight
  <2>6. \A i \in 1..Slots : ~BeingFilled(i)
    BY <2>2, <2>3 DEF BeingFilled, CacheStages
  <2>7. rows[row'[t]].does = Parse(name[t])
    BY <1>0, <2>2, <2>3, <2>4, <2>6 DEF Unraced, RowsRight, Matches, TaskHasName
  <2>8. AtOwnRow'
    BY <2>1, <2>2, <2>3, <2>7 DEF AtOwnRow, CacheStages
  <2>9. RowsRight'
    BY <2>1, <2>3, <2>6 DEF Unraced, RowsRight
  <2> QED
    BY <2>3, <2>5, <2>8, <2>9 DEF Unraced
<1>3. CASE UseRow(t)
  <2>1. CacheGoes(t, "found", "execute") /\ rows' = rows /\ count' = count /\ name' = name
        /\ row' = row /\ does' = [does EXCEPT ![t] = rows[row[t]].does]
    BY <1>3 DEF UseRow
  <2>2. at[t] = "found" /\ at'[t] = "execute" /\ \A u \in Tasks : u # t => at'[u] = at[u]
    BY <1>0, <2>1, OthersStay
  <2>3. Unraced /\ OneInCache' /\ \A u \in Tasks : u # t => at[u] \notin CacheStages
    BY <2>1, NobodyElse
  <2>4. RoomForRow' /\ AtOwnRow'
    BY <2>1, <2>2, <2>3 DEF Unraced, RoomForRow, AtOwnRow
  <2>5. does'[t] = Parse(name[t]) /\ \A u \in Tasks : u # t => does'[u] = does[u]
    BY <1>0, <2>1, <2>2, <2>3 DEF CacheTypeOK, Unraced, AtOwnRow
  <2>6. ParsedRight'
    BY <2>1, <2>2, <2>3, <2>5 DEF Unraced, ParsedRight
  <2>7. \A i \in 1..Slots : ~BeingFilled(i)
    BY <2>2, <2>3 DEF BeingFilled, CacheStages
  <2>8. RowsRight'
    BY <2>1, <2>3, <2>7 DEF Unraced, RowsRight
  <2> QED
    BY <2>3, <2>4, <2>6, <2>8 DEF Unraced
<1>4. CASE ParseAction(t)
  <2>0. PICK to \in {"idle", "check"} : CacheGoes(t, "look", to)
    BY <1>4 DEF ParseAction
  <2>1. rows' = rows /\ count' = count /\ name' = name /\ row' = row
        /\ does' = [does EXCEPT ![t] = Parse(name[t])]
    BY <1>4 DEF ParseAction
  <2>2. at[t] = "look" /\ at'[t] = to /\ \A u \in Tasks : u # t => at'[u] = at[u]
    BY <1>0, <2>0, OthersStay
  <2>3. Unraced /\ OneInCache' /\ \A u \in Tasks : u # t => at[u] \notin CacheStages
    BY <2>0, NobodyElse
  <2>4. RoomForRow' /\ AtOwnRow'
    BY <2>1, <2>2, <2>3 DEF Unraced, RoomForRow, AtOwnRow
  <2>5. does'[t] = Parse(name[t]) /\ \A u \in Tasks : u # t => does'[u] = does[u]
    BY <1>0, <2>1 DEF CacheTypeOK
  <2>6. ParsedRight'
    BY <2>1, <2>2, <2>3, <2>5 DEF Unraced, ParsedRight
  <2>7. \A i \in 1..Slots : ~BeingFilled(i)
    BY <2>2, <2>3 DEF BeingFilled, CacheStages
  <2>8. RowsRight'
    BY <2>1, <2>3, <2>7 DEF Unraced, RowsRight
  <2> QED
    BY <2>3, <2>4, <2>6, <2>8 DEF Unraced
<1>5. CASE MakeRoom(t)
  <2>1. CacheGoes(t, "check", "claim") /\ name' = name /\ row' = row /\ does' = does
    BY <1>5 DEF MakeRoom
  <2>2. at[t] = "check" /\ at'[t] = "claim" /\ \A u \in Tasks : u # t => at'[u] = at[u]
    BY <1>0, <2>1, OthersStay
  <2>3. Unraced /\ OneInCache' /\ \A u \in Tasks : u # t => at[u] \notin CacheStages
    BY <2>1, NobodyElse
  <2>4. count' < Slots /\ count \in Nat /\ Slots \in Nat \ {0} /\ count <= Slots
    BY <1>0, <1>5, <2>3 DEF MakeRoom, CacheTypeOK, Unraced, RoomForRow
  <2>5. RoomForRow' /\ ParsedRight' /\ AtOwnRow'
    BY <1>0, <2>1, <2>2, <2>3, <2>4
       DEF Unraced, RoomForRow, ParsedRight, AtOwnRow, CacheStages, CacheTypeOK
  <2>6. \A i \in 1..Slots : ~BeingFilled(i)
    BY <2>2, <2>3 DEF BeingFilled, CacheStages
  <2>7. RowsRight'
    <3>1. CASE count >= Slots
      <4>1. count = Slots /\ count' = Slots - 1
        BY <1>5, <2>4, <3>1 DEF MakeRoom
      <4>2. \A i \in 1..Slots : i <= count' => i + 1 \in 1..Slots /\ rows'[i] = rows[i + 1]
        BY <1>5, <2>4, <3>1, <4>1 DEF MakeRoom
      <4> QED
        BY <2>3, <2>4, <2>6, <4>1, <4>2 DEF Unraced, RowsRight
    <3>2. CASE ~(count >= Slots)
      BY <1>5, <3>2, <2>3, <2>6 DEF MakeRoom, Unraced, RowsRight
    <3> QED
      BY <3>1, <3>2
  <2> QED
    BY <2>3, <2>5, <2>7 DEF Unraced
<1>6. CASE ClaimRow(t)
  <2>1. CacheGoes(t, "claim", "fillName") /\ rows' = rows /\ name' = name /\ does' = does
        /\ count' = count + 1 /\ row' = [row EXCEPT ![t] = count + 1]
    BY <1>6 DEF ClaimRow
  <2>2. at[t] = "claim" /\ at'[t] = "fillName" /\ \A u \in Tasks : u # t => at'[u] = at[u]
    BY <1>0, <2>1, OthersStay
  <2>3. Unraced /\ OneInCache' /\ \A u \in Tasks : u # t => at[u] \notin CacheStages
    BY <2>1, NobodyElse
  <2>4. count < Slots /\ count \in Nat /\ Slots \in Nat
        /\ row'[t] = count + 1 /\ \A u \in Tasks : u # t => row'[u] = row[u]
    BY <1>0, <2>1, <2>2, <2>3 DEF CacheTypeOK, Unraced, RoomForRow
  <2>5. RoomForRow' /\ ParsedRight' /\ AtOwnRow'
    BY <2>1, <2>2, <2>3, <2>4 DEF Unraced, RoomForRow, ParsedRight, AtOwnRow, CacheStages
  <2>6. \A i \in 1..Slots : ~BeingFilled(i)
    BY <2>2, <2>3 DEF BeingFilled, CacheStages
  <2>7. RowsRight'
    <3>1. \A i \in 1..Slots : i <= count' /\ ~BeingFilled(i)' => i <= count
      <4> TAKE i \in 1..Slots
      <4>1. i # count + 1 \/ BeingFilled(i)'
        BY <2>2, <2>4 DEF BeingFilled
      <4> QED
        BY <4>1, <2>1, <2>4
    <3> QED
      BY <2>1, <2>3, <2>6, <3>1 DEF Unraced, RowsRight
  <2> QED
    BY <2>3, <2>5, <2>7 DEF Unraced
<1>7. CASE FillName(t)
  <2>1. CacheGoes(t, "fillName", "fillMeaning") /\ count' = count /\ name' = name
        /\ row' = row /\ does' = does
    BY <1>7 DEF FillName
  <2>2. at[t] = "fillName" /\ at'[t] = "fillMeaning"
        /\ \A u \in Tasks : u # t => at'[u] = at[u]
    BY <1>0, <2>1, OthersStay
  <2>3. Unraced /\ OneInCache' /\ \A u \in Tasks : u # t => at[u] \notin CacheStages
    BY <2>1, NobodyElse
  <2>4. /\ row[t] \in 1..Slots
        /\ rows'[row[t]].name = Keep(name[t])
        /\ \A i \in 1..Slots : i # row[t] => rows'[i] = rows[i]
    BY <1>0, <1>7, <2>3 DEF FillName, CacheTypeOK, Unraced, RoomForRow
  <2>5. RoomForRow' /\ ParsedRight' /\ AtOwnRow'
    BY <2>1, <2>2, <2>3, <2>4 DEF Unraced, RoomForRow, ParsedRight, AtOwnRow, CacheStages
  <2>6. \A i \in 1..Slots : BeingFilled(i)' <=> i = row[t]
    BY <2>1, <2>2, <2>3 DEF BeingFilled, CacheStages
  <2>7. \A i \in 1..Slots : BeingFilled(i) => i = row[t]
    BY <2>1, <2>2, <2>3 DEF BeingFilled, CacheStages
  <2>8. RowsRight'
    BY <2>1, <2>3, <2>4, <2>6, <2>7 DEF Unraced, RowsRight
  <2> QED
    BY <2>3, <2>5, <2>8 DEF Unraced
<1>8. CASE FillMeaning(t)
  <2>1. CacheGoes(t, "fillMeaning", "execute") /\ count' = count /\ name' = name
        /\ row' = row /\ does' = does
    BY <1>8 DEF FillMeaning
  <2>2. at[t] = "fillMeaning" /\ at'[t] = "execute"
        /\ \A u \in Tasks : u # t => at'[u] = at[u]
    BY <1>0, <2>1, OthersStay
  <2>3. Unraced /\ OneInCache' /\ \A u \in Tasks : u # t => at[u] \notin CacheStages
    BY <2>1, NobodyElse
  <2>4. /\ row[t] \in 1..Slots
        /\ rows'[row[t]].name = rows[row[t]].name
        /\ rows'[row[t]].does = does[t]
        /\ \A i \in 1..Slots : i # row[t] => rows'[i] = rows[i]
    BY <1>0, <1>8, <2>3 DEF FillMeaning, CacheTypeOK, Unraced, RoomForRow
  <2>5. RoomForRow' /\ ParsedRight' /\ AtOwnRow'
    BY <2>1, <2>2, <2>3 DEF Unraced, RoomForRow, ParsedRight, AtOwnRow, CacheStages
  <2>6. \A i \in 1..Slots : BeingFilled(i) => i = row[t]
    BY <2>1, <2>2, <2>3 DEF BeingFilled, CacheStages
  <2>7. rows[row[t]].name \in Names => rows'[row[t]].does = Parse(rows[row[t]].name)
    BY <2>2, <2>3, <2>4 DEF Unraced, AtOwnRow, ParsedRight, Keep
  <2>8. RowsRight'
    <3> SUFFICES ASSUME NEW i \in 1..Slots, i <= count', rows'[i].name \in Names
                 PROVE  rows'[i].does = Parse(rows'[i].name)
      BY DEF RowsRight
    <3>1. CASE i = row[t]
      BY <3>1, <2>4, <2>7
    <3>2. CASE i # row[t]
      BY <3>2, <2>1, <2>3, <2>4, <2>6 DEF Unraced, RowsRight
    <3> QED
      BY <3>1, <3>2
  <2> QED
    BY <2>3, <2>5, <2>8 DEF Unraced
<1>9. CASE Execute(t)
  <2>1. at[t] = "execute" /\ at'[t] = "idle" /\ ~raced
        /\ \A u \in Tasks : u # t => at'[u] = at[u]
    BY <1>0, <1>9, OthersStay DEF Execute
  <2>2. rows' = rows /\ count' = count /\ row' = row /\ does' = does /\ name' = name
    BY <1>9 DEF Execute
  <2>3. Unraced
    BY <2>1 DEF CacheInv
  <2>4. OneInCache' /\ RoomForRow' /\ ParsedRight' /\ AtOwnRow'
    BY <2>1, <2>2, <2>3 DEF Unraced, OneInCache, RoomForRow, ParsedRight, AtOwnRow, CacheStages
  <2>5. RowsRight'
    BY <2>1, <2>2, <2>3 DEF Unraced, RowsRight, BeingFilled
  <2> QED
    BY <2>4, <2>5 DEF Unraced
<1> QED
  BY <1>1, <1>2, <1>3, <1>4, <1>5, <1>6, <1>7, <1>8, <1>9

LEMMA CacheInvNext == CacheInv /\ [CacheNext]_cacheVars => CacheInv'
<1> SUFFICES ASSUME CacheInv, [CacheNext]_cacheVars PROVE CacheInv'
  OBVIOUS
<1>1. CASE CacheNext
  BY <1>1, CacheTypeNext, UnracedNext DEF CacheNext, CacheInv
<1>2. CASE UNCHANGED cacheVars
  BY <1>2 DEF cacheVars, CacheInv, CacheTypeOK, TaskHasName, Unraced, OneInCache, RoomForRow,
     ParsedRight, AtOwnRow, RowsRight, BeingFilled
<1> QED
  BY <1>1, <1>2

LEMMA CacheInvAlways == CacheSpec => []CacheInv
  BY CacheInvInit, CacheInvNext, PTL DEF CacheSpec

\* Every variable of the cache has its type, in a race as well.
THEOREM CacheTypeCorrect == CacheSpec => []CacheTypeOK
<1>1. CacheInv => CacheTypeOK
  BY DEF CacheInv
<1> QED
  BY <1>1, CacheInvAlways, PTL

\* What execute_action_from_string executes is what the name means, for every number
\* of rows, and no row lies beyond the array, as long as no two tasks met in the cache.
THEOREM CachedActionsAreRight == CacheSpec => []CacheAnswersRightly
<1>1. CacheInv => CacheAnswersRightly
  BY DEF CacheInv, CacheAnswersRightly, Unraced, RoomForRow, ParsedRight
<1> QED
  BY <1>1, CacheInvAlways, PTL

-----------------------------------------------------------------------------
(* The parts together.                                                     *)

\* Only one part moves, and each part sees a behaviour of its own.
LEMMA PartsInitSplit ==
  PartsInit => /\ ChargingInit /\ CacheInit /\ ReportInit /\ LookupInit /\ UsbInit
               /\ ParserInit /\ FieldInit
BY DEF PartsInit

LEMMA PartsNextSplit ==
  ASSUME [PartsNext]_partVars
  PROVE  /\ [ChargingNext]_chargingVars /\ [CacheNext]_cacheVars
         /\ [ReportNext]_reportVars /\ [LookupNext]_lookupVars /\ [UsbNext]_usbVars
         /\ [ParserNext]_parserVars /\ [FieldNext]_fieldVars
<1>1. CASE UNCHANGED partVars
  BY <1>1, Zenon DEF partVars
<1>2. CASE Parked("charging") /\ ChargingNext
  BY <1>2 DEF Parked
<1>3. CASE Parked("cache") /\ CacheNext
  BY <1>3 DEF Parked
<1>4. CASE Parked("reports") /\ ReportNext
  BY <1>4 DEF Parked
<1>5. CASE Parked("lookup") /\ LookupNext
  BY <1>5 DEF Parked
<1>6. CASE Parked("usb") /\ UsbNext
  BY <1>6 DEF Parked
<1>7. CASE Parked("parser") /\ ParserNext
  BY <1>7 DEF Parked
<1>8. CASE Parked("field") /\ FieldNext
  BY <1>8 DEF Parked
<1> QED
  BY <1>1, <1>2, <1>3, <1>4, <1>5, <1>6, <1>7, <1>8, Zenon DEF PartsNext

\* Putting the parts side by side adds no behaviour to any of them: what is true of a
\* part alone is true of it here.
THEOREM PartsAreThemselves ==
  PartsSpec => /\ ChargingSpec /\ CacheSpec /\ ReportSpec /\ LookupSpec /\ UsbSpec
               /\ ParserSpec /\ FieldSpec
BY PartsInitSplit, PartsNextSplit, PTL
DEF PartsSpec, ChargingSpec, CacheSpec, ReportSpec, LookupSpec, UsbSpec, ParserSpec, FieldSpec

\* Every variable of every part has its type.
THEOREM PartsTypeCorrect == PartsSpec => []PartsTypeOK
<1>1. /\ ChargingTypeOK /\ CacheTypeOK /\ ReportTypeOK /\ LookupTypeOK
      /\ UsbTypeOK /\ ParserTypeOK /\ FieldTypeOK
      => PartsTypeOK
  BY DEF PartsTypeOK
<1> QED
  BY <1>1, PartsAreThemselves, ChargingTypeCorrect, CacheTypeCorrect, ReportTypeCorrect,
     LookupTypeCorrect, UsbTypeCorrect, ParserTypeCorrect, FieldTypeCorrect, PTL
=============================================================================

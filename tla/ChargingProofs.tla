--------------------------- MODULE ChargingProofs ----------------------------
(***************************************************************************)
(* Proofs about Charging, for any readings and thresholds: its types, what *)
(* the charger does while no callback is overtaken, and that a supply that *)
(* goes leaves nothing behind.                                             *)
(***************************************************************************)
EXTENDS Charging, TLAPS

-----------------------------------------------------------------------------
(* Types.                                                                  *)

LEMMA ChargingTypeInit == ChargingInit => ChargingTypeOK
BY LevelAssumption DEF ChargingInit, ChargingTypeOK, TimerState

LEMMA RatchetIsSample == ChargingTypeOK => Ratchet \in Samples
BY DEF ChargingTypeOK, Ratchet

LEMMA ChargingTypeNext == ChargingTypeOK /\ [ChargingNext]_chargingVars => ChargingTypeOK'
<1> SUFFICES ASSUME ChargingTypeOK, [ChargingNext]_chargingVars PROVE ChargingTypeOK'
  OBVIOUS
<1> USE DEF ChargingTypeOK, TimerState, phase, pins, phaseTimers, route, fixed
<1>1. CASE ReadBattery \/ DeadBattery \/ SupplyAsBefore
  BY <1>1 DEF ReadBattery, DeadBattery, SupplyAsBefore
<1>2. CASE SupplyArrives
  <2>1. overtaken' \in BOOLEAN
    BY <1>2 DEF SupplyArrives
  <2>2. current' \in {"fast", "normal", "slow"}
    BY <1>2 DEF SupplyArrives
  <2>3. /\ psu' \in BOOLEAN /\ slow' \in BOOLEAN /\ finished' \in BOOLEAN
        /\ enabled' \in BOOLEAN /\ vmon' \in {"battery", "supply", "starting", "deciding"}
    BY <1>2 DEF SupplyArrives
  <2>4. UNCHANGED << power, vin, bat, charging, phaseTimers, callback, route, level, fixed >>
    BY <1>2 DEF SupplyArrives
  <2> QED
    BY <2>1, <2>2, <2>3, <2>4
<1>3. CASE ChargingStarts
  BY <1>3 DEF ChargingStarts
<1>4. CASE SupplyGone
  BY <1>4 DEF SupplyGone
<1>5. CASE Decide
  <2>1. charging' \in BOOLEAN
    BY <1>5 DEF Decide, ChipCharges
  <2>2. CASE DeclareFinished
    <3>1. overtaken' \in BOOLEAN
      BY <2>2 DEF DeclareFinished
    <3>2. finished' \in BOOLEAN /\ enabled' \in BOOLEAN /\ UNCHANGED entryTimer
      BY <2>2 DEF DeclareFinished
    <3>3. vmon' = "battery"
          /\ UNCHANGED << power, vin, bat, psu, slow, current, slowTimer, callback, route,
                          level, fixed >>
      BY <1>5 DEF Decide
    <3> QED
      BY <2>1, <3>1, <3>2, <3>3
  <2>3. CASE KeepEntryTimer
    <3>1. entryTimer' \in TimerState /\ UNCHANGED << finished, enabled, overtaken >>
      BY <2>3 DEF KeepEntryTimer
    <3> QED
      BY <1>5, <2>1, <3>1 DEF Decide
  <2> QED
    BY <1>5, <2>2, <2>3 DEF Decide
<1>6. CASE EntryExpires \/ EntryArms \/ EntrySlows \/ EntrySettles
  BY <1>6 DEF EntryExpires, EntryArms, EntrySlows, EntrySettles, DaemonGoes
<1>7. CASE EntryChecks
  <2>1. callback' \in {"entering", "idle"} /\ overtaken' \in BOOLEAN
    BY <1>7 DEF EntryChecks
  <2> QED
    BY <1>7, <2>1 DEF EntryChecks
<1>8. CASE SlowExpires \/ SlowChecks \/ SlowTerminates
  BY <1>8 DEF SlowExpires, SlowChecks, SlowTerminates, DaemonGoes
<1>9. CASE AskBattery
  BY <1>9, RatchetIsSample DEF AskBattery
<1>10. CASE BridgeRoutes \/ PlugOrUnplug
  <2>1. vin' \in BOOLEAN
    BY <1>10 DEF BridgeRoutes, PlugOrUnplug
  <2> QED
    BY <1>10, <2>1 DEF BridgeRoutes, PlugOrUnplug
<1>11. CASE UNCHANGED chargingVars
  BY <1>11 DEF chargingVars
<1> QED
  BY <1>1, <1>2, <1>3, <1>4, <1>5, <1>6, <1>7, <1>8, <1>9, <1>10, <1>11
     DEF ChargingNext, VmonTask, TimerDaemon

\* Every variable of the charger keeps its type.
THEOREM ChargingTypeCorrect == ChargingSpec => []ChargingTypeOK
BY ChargingTypeInit, ChargingTypeNext, PTL DEF ChargingSpec

-----------------------------------------------------------------------------
(* The phases.  All parts speak of a device in which vmon_task has not     *)
(* overtaken a callback since the last supply went.                        *)

\* Without a supply there is no phase, and once the charger is off no timer.
NoSupplyNoPhase ==
  ~psu =>
    /\ ~slow /\ ~finished /\ slowTimer = "none"
    /\ callback \in {"idle", "entryDue"}
    /\ ~enabled => callback = "idle" /\ entryTimer = "none"

\* A supply that has just come starts anew.
StartsAnew ==
  vmon = "starting" =>
    /\ psu /\ ~slow /\ ~finished /\ slowTimer = "none"
    /\ callback \in {"idle", "entryDue"}

\* What a callback has tested stays true while it works.
CallbackHolds ==
  /\ callback \in {"entering", "armed"} => psu /\ ~slow /\ ~finished
  /\ callback = "armed" => slowTimer # "none"
  /\ callback = "settling" => psu /\ slow /\ ~finished
  /\ callback = "terminating" => psu /\ slow /\ ~finished

\* Charging can only be finished in the slow phase, which has its timer and its
\* current; and the charger is off exactly then.
PhaseHolds ==
  /\ finished => slow
  /\ slow => slowTimer # "none" /\ current = "slow"
  /\ psu /\ vmon # "starting" /\ callback # "settling" => enabled = ~finished

PhaseInv ==
  ~overtaken => NoSupplyNoPhase /\ StartsAnew /\ CallbackHolds /\ PhaseHolds

LEMMA PhaseInit == ChargingInit => PhaseInv
BY DEF ChargingInit, PhaseInv, NoSupplyNoPhase, StartsAnew, CallbackHolds, PhaseHolds

LEMMA PhaseNext == ChargingTypeOK /\ PhaseInv /\ [ChargingNext]_chargingVars => PhaseInv'
<1> SUFFICES ASSUME ChargingTypeOK, PhaseInv, [ChargingNext]_chargingVars, ~overtaken'
             PROVE  (NoSupplyNoPhase /\ StartsAnew /\ CallbackHolds /\ PhaseHolds)'
  BY DEF PhaseInv
<1> USE DEF ChargingTypeOK, PhaseInv, NoSupplyNoPhase, StartsAnew, CallbackHolds, PhaseHolds,
            phase, pins, phaseTimers, route, fixed
<1>1. CASE ReadBattery \/ DeadBattery \/ SupplyAsBefore
  BY <1>1 DEF ReadBattery, DeadBattery, SupplyAsBefore
<1>2. CASE SupplyArrives
  BY <1>2 DEF SupplyArrives
<1>3. CASE ChargingStarts
  BY <1>3 DEF ChargingStarts
<1>4. CASE SupplyGone
  BY <1>4 DEF SupplyGone
<1>5. CASE Decide
  <2>1. CASE DeclareFinished
    BY <1>5, <2>1 DEF Decide, DeclareFinished
  <2>2. CASE KeepEntryTimer
    <3>1. UNCHANGED << finished, enabled, overtaken >>
      BY <2>2 DEF KeepEntryTimer
    <3>2. ~enabled /\ entryTimer = "none" => entryTimer' = "none"
      BY <1>5, <2>2 DEF Decide, KeepEntryTimer, ChipCharges
    <3> QED
      BY <1>5, <3>1, <3>2 DEF Decide
  <2> QED
    BY <1>5, <2>1, <2>2 DEF Decide
<1>6. CASE EntryExpires
  BY <1>6 DEF EntryExpires, DaemonGoes
<1>7. CASE EntryChecks
  <2>1. CASE callback' = "idle"
    BY <1>7, <2>1 DEF EntryChecks
  <2>2. CASE callback' = "entering"
    <3>1. psu /\ vmon # "starting" /\ ~slow /\ ~overtaken
      BY <1>7, <2>2 DEF EntryChecks
    <3> QED
      BY <1>7, <2>2, <3>1 DEF EntryChecks
  <2> QED
    BY <1>7, <2>1, <2>2 DEF EntryChecks
<1>8. CASE EntryArms
  BY <1>8 DEF EntryArms, DaemonGoes
<1>9. CASE EntrySlows
  BY <1>9 DEF EntrySlows, DaemonGoes
<1>10. CASE EntrySettles
  BY <1>10 DEF EntrySettles, DaemonGoes
<1>11. CASE SlowExpires
  BY <1>11 DEF SlowExpires, DaemonGoes
<1>12. CASE SlowChecks
  BY <1>12 DEF SlowChecks, DaemonGoes
<1>13. CASE SlowTerminates
  BY <1>13 DEF SlowTerminates, DaemonGoes
<1>14. CASE AskBattery \/ BridgeRoutes \/ PlugOrUnplug
  BY <1>14 DEF AskBattery, BridgeRoutes, PlugOrUnplug
<1>15. CASE UNCHANGED chargingVars
  BY <1>15 DEF chargingVars
<1> QED
  BY <1>1, <1>2, <1>3, <1>4, <1>5, <1>6, <1>7, <1>8, <1>9, <1>10, <1>11, <1>12, <1>13,
     <1>14, <1>15 DEF ChargingNext, VmonTask, TimerDaemon

LEMMA PhaseAlways == ChargingSpec => []PhaseInv
<1>1. ChargingInit => ChargingTypeOK /\ PhaseInv
  BY ChargingTypeInit, PhaseInit
<1>2. ChargingTypeOK /\ PhaseInv /\ [ChargingNext]_chargingVars
        => (ChargingTypeOK /\ PhaseInv)'
  BY ChargingTypeNext, PhaseNext
<1> QED
  BY <1>1, <1>2, PTL DEF ChargingSpec

\* Once a supply was seen to go, nothing of its charge is left to the next one.
THEOREM UnpluggingClears == ChargingSpec => []UnplugClears
<1>1. PhaseInv => UnplugClears
  BY DEF PhaseInv, NoSupplyNoPhase, UnplugClears
<1> QED
  BY <1>1, PhaseAlways, PTL

\* With a supply, the charger is off exactly when charging was found finished.
THEOREM ChargerAsPhase == ChargingSpec => []ChargerFollowsPhase
<1>1. PhaseInv => ChargerFollowsPhase
  BY DEF PhaseInv, PhaseHolds, ChargerFollowsPhase, Between
<1> QED
  BY <1>1, PhaseAlways, PTL

\* The slow phase always has its timer and its current.
THEOREM SlowPhaseHasTimer == ChargingSpec => []SlowPhaseIsLimited
<1>1. PhaseInv => SlowPhaseIsLimited
  BY DEF PhaseInv, PhaseHolds, SlowPhaseIsLimited, Between
<1> QED
  BY <1>1, PhaseAlways, PTL

-----------------------------------------------------------------------------
(* Warnings.                                                               *)

\* On battery the level only falls.
LEMMA LevelFalls ==
  ASSUME ChargingTypeOK, [ChargingNext]_chargingVars, ~psu, level # 0
  PROVE  level' <= level /\ disableWarn' = disableWarn
<1>1. bat \in Nat /\ level \in Nat
  BY LevelAssumption DEF ChargingTypeOK
<1> USE DEF fixed
<1>2. CASE AskBattery
  <2>1. level' = IF bat < level THEN bat ELSE level
    BY <1>2 DEF AskBattery, Ratchet
  <2> QED
    BY <1>1, <1>2, <2>1 DEF AskBattery
<1>3. CASE VmonTask
  <2>1. level' = level /\ disableWarn' = disableWarn
    BY <1>3 DEF VmonTask, ReadBattery, DeadBattery, SupplyArrives, ChargingStarts,
                SupplyGone, SupplyAsBefore, Decide
  <2> QED
    BY <1>1, <2>1
<1>4. CASE TimerDaemon
  <2>1. level' = level /\ disableWarn' = disableWarn
    BY <1>4 DEF TimerDaemon, EntryExpires, EntryChecks, EntryArms, EntrySlows,
                EntrySettles, SlowExpires, SlowChecks, SlowTerminates
  <2> QED
    BY <1>1, <2>1
<1>5. CASE BridgeRoutes \/ PlugOrUnplug \/ UNCHANGED chargingVars
  <2>1. level' = level /\ disableWarn' = disableWarn
    BY <1>5 DEF BridgeRoutes, PlugOrUnplug, chargingVars
  <2> QED
    BY <1>1, <2>1
<1> QED
  BY <1>2, <1>3, <1>4, <1>5 DEF ChargingNext

\* On battery a warning is never taken back, however the readings jitter.
THEOREM WarningsRemain == ChargingSpec => WarningsStay
<1>1. ASSUME ChargingTypeOK, ChargingTypeOK', [ChargingNext]_chargingVars,
             ~psu, ~psu', level # 0
      PROVE  Severity[BatteryState'] >= Severity[BatteryState]
  <2>1. level' <= level /\ disableWarn' = disableWarn
    BY <1>1, LevelFalls
  <2>2. level \in Nat /\ level' \in Nat /\ Warning \in Nat /\ Normal \in Nat
        /\ Warning < Normal
    BY <1>1, LevelAssumption DEF ChargingTypeOK
  <2>3. BatteryState = IF level > (IF disableWarn THEN Warning ELSE Normal) THEN "normal"
                       ELSE IF level > Warning /\ ~disableWarn THEN "warning" ELSE "low"
    BY <1>1 DEF BatteryState
  <2>4. BatteryState' = IF level' > (IF disableWarn THEN Warning ELSE Normal) THEN "normal"
                        ELSE IF level' > Warning /\ ~disableWarn THEN "warning" ELSE "low"
    BY <1>1, <2>1 DEF BatteryState
  <2>5. CASE disableWarn
    BY <2>1, <2>2, <2>3, <2>4, <2>5 DEF Severity
  <2>6. CASE ~disableWarn
    BY <2>1, <2>2, <2>3, <2>4, <2>6 DEF Severity
  <2> QED
    BY <2>5, <2>6, <1>1 DEF ChargingTypeOK
<1>2. ChargingTypeOK /\ ChargingTypeOK' /\ [ChargingNext]_chargingVars =>
        [~psu /\ ~psu' /\ level # 0 => Severity[BatteryState'] >= Severity[BatteryState]
          ]_chargingVars
  BY <1>1
<1> QED
  BY <1>2, ChargingTypeCorrect, PTL DEF ChargingSpec, WarningsStay
=============================================================================

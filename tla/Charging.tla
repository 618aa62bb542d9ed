------------------------------ MODULE Charging ------------------------------
(***************************************************************************)
(* The power monitor, main/utils/vmon.c: vmon_task with the two timers of  *)
(* the slow charging phase, the routing of the USB data lines, and the     *)
(* battery state that the LEDs and the web page show.                      *)
(*                                                                         *)
(* vmon_task (priority 5) and the timer daemon (priority 1) run on one     *)
(* core: a pass of vmon_task is cut where it blocks (the two ADC readings, *)
(* the delay in start_charging), a callback anywhere.  When the daemon has *)
(* picked an expired timer, deleting the timer does not stop its callback. *)
(* The charger chip is external: it may draw current only while it is      *)
(* enabled and supplied.                                                   *)
(***************************************************************************)
EXTENDS Naturals

CONSTANTS Samples,   \* the battery voltages a reading may give; 0 is a failed one
          Dead,      \* BAT_DEAD_THRESH
          Warning,   \* BAT_WARNING_THRESH
          Normal,    \* BAT_NORMAL_THRESH
          Full       \* BAT_SLOW_PHASE_THRESH

ASSUME LevelAssumption ==
  /\ Samples \subseteq Nat /\ 0 \in Samples
  /\ {Dead, Warning, Normal, Full} \subseteq Nat
  /\ 0 < Dead /\ Dead <= Warning /\ Warning < Normal /\ Normal < Full

VARIABLES
  power,        \* "on", or "asleep" after deep_sleep()
  vin,          \* a supply is plugged in (vin_volts above VIN_THRESHOLD)
  bat,          \* bat_volts
  psu,          \* s_psu_connected
  charging,     \* s_charging
  slow,         \* s_slow_phase
  finished,     \* s_charging_finished
  enabled,      \* GPIO_BAT_CE is low
  current,      \* the charge current chosen by GPIO_BAT_ISET1..6
  slowTimer,    \* slow_phase_timer
  entryTimer,   \* slow_phase_entry_timer
  callback,     \* what the timer daemon is doing
  vmon,         \* where vmon_task blocks
  allowSlow,    \* !disable_slow_phase || !fast_charge
  neverWired,   \* s_never_wired
  mux,          \* GPIO_MUX_SEL: the data lines go to the "pc" or to the "mcu"
  routed,       \* run_hid_bridge has set GPIO_MUX_SEL
  level,        \* prev_level
  disableWarn,  \* s_disable_warn
  overtaken     \* history: vmon_task changed the phase during a callback, or a
                \* callback began the slow phase before the supply was known

phase  == << psu, charging, slow, finished >>
pins   == << enabled, current >>
phaseTimers == << slowTimer, entryTimer >>
route  == << mux, routed >>
fixed  == << allowSlow, neverWired, disableWarn >>
chargingVars == << power, vin, bat, phase, pins, phaseTimers, callback, vmon, route,
                   level, fixed, overtaken >>

TimerState == {"none", "running", "fired"}

\* Every variable has its type.
ChargingTypeOK ==
  /\ power \in {"on", "asleep"} /\ vin \in BOOLEAN /\ bat \in Samples
  /\ psu \in BOOLEAN /\ charging \in BOOLEAN
  /\ slow \in BOOLEAN /\ finished \in BOOLEAN
  /\ enabled \in BOOLEAN /\ current \in {"fast", "normal", "slow"}
  /\ slowTimer \in TimerState /\ entryTimer \in TimerState
  /\ callback \in {"idle", "entryDue", "entering", "armed", "settling",
                   "slowDue", "terminating"}
  /\ vmon \in {"battery", "supply", "starting", "deciding"}
  /\ mux \in {"pc", "mcu"} /\ routed \in BOOLEAN
  /\ level \in Samples
  /\ allowSlow \in BOOLEAN /\ neverWired \in BOOLEAN /\ disableWarn \in BOOLEAN
  /\ overtaken \in BOOLEAN

\* The pins come up low: the charger is enabled at full current.  A setting that
\* cannot be read leaves an uninitialised local: any value.
ChargingInit ==
  /\ power = "on" /\ vin \in BOOLEAN
  /\ allowSlow \in BOOLEAN /\ neverWired \in BOOLEAN /\ disableWarn \in BOOLEAN
  /\ bat = 0 /\ psu = FALSE /\ charging = FALSE /\ slow = FALSE /\ finished = FALSE
  /\ enabled = TRUE /\ current = "fast"
  /\ slowTimer = "none" /\ entryTimer = "none" /\ callback = "idle"
  /\ vmon = "battery" /\ mux = "mcu" /\ routed = FALSE
  /\ level = 0 /\ overtaken = FALSE

-----------------------------------------------------------------------------
(* vmon_task.                                                              *)

ReadBattery ==
  /\ vmon = "battery"
  /\ bat' \in Samples
  /\ vmon' = "supply"
  /\ UNCHANGED << power, vin, phase, pins, phaseTimers, callback, route, level, fixed,
                  overtaken >>

\* Nobody but the buttons brings the device back from here.
DeadBattery ==
  /\ vmon = "supply" /\ bat < Dead /\ ~vin
  /\ power' = "asleep"
  /\ UNCHANGED << vin, bat, phase, pins, phaseTimers, callback, vmon, route, level,
                  fixed, overtaken >>

\* start_charging blocks with the charger disabled.
SupplyArrives ==
  /\ vmon = "supply" /\ vin /\ ~psu
  /\ psu' = TRUE /\ slow' = FALSE /\ finished' = FALSE
  /\ enabled' = FALSE
  /\ current' \in {"fast", "normal"}
  /\ vmon' = "starting"
  /\ overtaken' = (overtaken \/ callback # "idle")
  /\ UNCHANGED << power, vin, bat, charging, phaseTimers, callback, route, level, fixed >>

\* SW3 held at boot keeps the data lines at the microcontroller.
ChargingStarts ==
  /\ vmon = "starting"
  /\ enabled' = TRUE
  /\ mux' = IF neverWired THEN "mcu" ELSE "pc"
  /\ vmon' = "deciding"
  /\ UNCHANGED << power, vin, bat, phase, current, phaseTimers, callback, routed, level,
                  fixed, overtaken >>

\* Mutant of SupplyGone: the flags of the phase are left for the next supply to
\* clear.
SupplyGoneKeepsPhase ==
  /\ vmon = "supply" /\ ~vin /\ psu /\ bat >= Dead
  /\ psu' = FALSE
  /\ slowTimer' = "none" /\ entryTimer' = "none"
  /\ enabled' = FALSE
  /\ mux' = "mcu"
  /\ vmon' = "deciding"
  /\ overtaken' = (callback # "idle")
  /\ UNCHANGED << power, vin, bat, charging, slow, finished, current, callback,
                  routed, level, fixed >>

SupplyGone ==
  /\ vmon = "supply" /\ ~vin /\ psu /\ bat >= Dead
  /\ psu' = FALSE /\ slow' = FALSE /\ finished' = FALSE
  /\ slowTimer' = "none" /\ entryTimer' = "none"
  /\ enabled' = FALSE
  /\ mux' = "mcu"
  /\ vmon' = "deciding"
  /\ overtaken' = (callback # "idle")
  /\ UNCHANGED << power, vin, bat, charging, current, callback, routed, level, fixed >>

SupplyAsBefore ==
  /\ vmon = "supply" /\ vin = psu /\ (bat >= Dead \/ vin)
  /\ vmon' = "deciding"
  /\ UNCHANGED << power, vin, bat, phase, pins, phaseTimers, callback, route, level,
                  fixed, overtaken >>

\* The chip pulls GPIO_BAT_CHRG low while it charges.
ChipCharges == IF enabled /\ vin THEN BOOLEAN ELSE {FALSE}

\* Mutant of DeclareFinished: the charger is left enabled.
DeclareFinishedOnly ==
  /\ slow /\ psu /\ ~charging' /\ ~finished
  /\ finished' = TRUE
  /\ overtaken' = (overtaken \/ callback # "idle")
  /\ UNCHANGED << enabled, entryTimer >>

\* The chip has stopped by itself in the slow phase.
DeclareFinished ==
  /\ slow /\ psu /\ ~charging' /\ ~finished
  /\ finished' = TRUE /\ enabled' = FALSE
  /\ overtaken' = (overtaken \/ callback # "idle")
  /\ UNCHANGED entryTimer

\* The entry timer runs while the battery is full; a reading below deletes it.
KeepEntryTimer ==
  /\ finished \/ ~(slow /\ psu /\ ~charging')
  /\ entryTimer' =
       IF finished THEN entryTimer
       ELSE IF charging' /\ ~slow /\ bat >= Full /\ allowSlow /\ entryTimer = "none"
       THEN "running"
       ELSE IF bat < Full THEN "none" ELSE entryTimer
  /\ UNCHANGED << finished, enabled, overtaken >>

Decide ==
  /\ vmon = "deciding"
  /\ charging' \in ChipCharges
  /\ DeclareFinished \/ KeepEntryTimer
  /\ vmon' = "battery"
  /\ UNCHANGED << power, vin, bat, psu, slow, current, slowTimer, callback, route,
                  level, fixed >>

VmonTask ==
  \/ ReadBattery \/ DeadBattery
  \/ SupplyArrives \/ ChargingStarts \/ SupplyGone \/ SupplyAsBefore
  \/ Decide

-----------------------------------------------------------------------------
(* The timer daemon: slow_phase_entry_timer_cb and slow_phase_timer_cb.    *)

DaemonGoes(from, to) == callback = from /\ callback' = to

EntryExpires ==
  /\ DaemonGoes("idle", "entryDue")
  /\ entryTimer = "running" /\ entryTimer' = "fired"
  /\ UNCHANGED << power, vin, bat, phase, pins, slowTimer, vmon, route, level, fixed,
                  overtaken >>

\* The condition is tested once, before a log call that may block; it does not ask
\* for a supply.
EntryChecks ==
  /\ callback = "entryDue"
  /\ LET passes == charging /\ ~slow /\ bat >= Full
     IN /\ callback' = IF passes THEN "entering" ELSE "idle"
        /\ overtaken' = (overtaken \/ (passes /\ (~psu \/ vmon = "starting")))
  /\ UNCHANGED << power, vin, bat, phase, pins, phaseTimers, vmon, route, level, fixed >>

\* Mutant of EntryArms: the 45 minute timer is not started.
EntryArmsNothing ==
  /\ DaemonGoes("entering", "armed")
  /\ UNCHANGED << power, vin, bat, phase, pins, phaseTimers, vmon, route, level, fixed,
                  overtaken >>

\* A timer left over from before is not started again.
EntryArms ==
  /\ DaemonGoes("entering", "armed")
  /\ slowTimer' = IF slowTimer = "none" THEN "running" ELSE slowTimer
  /\ UNCHANGED << power, vin, bat, phase, pins, entryTimer, vmon, route, level,
                  fixed, overtaken >>

EntrySlows ==
  /\ DaemonGoes("armed", "settling")
  /\ slow' = TRUE /\ enabled' = FALSE /\ current' = "slow"
  /\ UNCHANGED << power, vin, bat, psu, charging, finished, phaseTimers, vmon, route,
                  level, fixed, overtaken >>

\* After 10 ms the charger is enabled again, whatever happened meanwhile.
EntrySettles ==
  /\ DaemonGoes("settling", "idle")
  /\ enabled' = TRUE
  /\ UNCHANGED << power, vin, bat, phase, current, phaseTimers, vmon, route, level, fixed,
                  overtaken >>

SlowExpires ==
  /\ DaemonGoes("idle", "slowDue")
  /\ slowTimer = "running" /\ slowTimer' = "fired"
  /\ UNCHANGED << power, vin, bat, phase, pins, entryTimer, vmon, route, level,
                  fixed, overtaken >>

SlowChecks ==
  /\ DaemonGoes("slowDue",
       IF ~finished /\ slow /\ psu /\ charging /\ bat >= Full
       THEN "terminating" ELSE "idle")
  /\ UNCHANGED << power, vin, bat, phase, pins, phaseTimers, vmon, route, level, fixed,
                  overtaken >>

SlowTerminates ==
  /\ DaemonGoes("terminating", "idle")
  /\ finished' = TRUE /\ enabled' = FALSE
  /\ UNCHANGED << power, vin, bat, psu, charging, slow, current, phaseTimers, vmon, route,
                  level, fixed, overtaken >>

TimerDaemon ==
  \/ EntryExpires \/ EntryChecks \/ EntryArms \/ EntrySlows \/ EntrySettles
  \/ SlowExpires \/ SlowChecks \/ SlowTerminates

-----------------------------------------------------------------------------
(* Everybody else.                                                         *)

\* Mutant of Ratchet: the last reading is shown as it is.
NoRatchet == bat

\* Mutant of Ratchet: readings are averaged.
Average == (bat + level) \div 2

\* get_battery_level: the level only falls on battery and only rises while
\* charging.
Ratchet ==
  IF level = 0 THEN bat
  ELSE IF psu /\ charging THEN (IF bat > level THEN bat ELSE level)
  ELSE (IF bat < level THEN bat ELSE level)

\* get_battery_state: what the LEDs show.
BatteryState ==
  IF psu /\ charging THEN "charging"
  ELSE IF psu \/ level > (IF disableWarn THEN Warning ELSE Normal) THEN "normal"
  ELSE IF level > Warning /\ ~disableWarn THEN "warning"
  ELSE "low"

\* The LED task, the battery timer of the BLE stack and the web page ask.
AskBattery ==
  /\ level' = Ratchet
  /\ UNCHANGED << power, vin, bat, phase, pins, phaseTimers, callback, vmon, route, fixed,
                  overtaken >>

\* run_hid_bridge, which app_main calls after it has started vmon_task: a routing
\* that vmon_task chose before is undone.
BridgeRoutes ==
  /\ ~routed /\ routed' = TRUE
  /\ mux' = "mcu"
  /\ UNCHANGED << power, vin, bat, phase, pins, phaseTimers, callback, vmon, level, fixed,
                  overtaken >>

PlugOrUnplug ==
  /\ vin' = ~vin
  /\ UNCHANGED << power, bat, phase, pins, phaseTimers, callback, vmon, route, level,
                  fixed, overtaken >>

\* A device asleep stays so until a button resets it, which is a new ChargingInit.
ChargingNext ==
  \/ PlugOrUnplug
  \/ power = "on" /\ (VmonTask \/ TimerDaemon \/ AskBattery \/ BridgeRoutes)

ChargingSpec == ChargingInit /\ [][ChargingNext]_chargingVars

-----------------------------------------------------------------------------
(* Properties.  A callback that vmon_task overtakes does damage (overtaken *)
(* says so); what the properties state besides is that nothing else does,  *)
(* and that unplugging the supply repairs it.                              *)

Between == power = "on" /\ callback = "idle" /\ vmon = "battery" /\ ~overtaken

\* With a supply, the charger is off exactly when charging was found finished.
ChargerFollowsPhase == Between /\ psu => enabled = ~finished

\* The slow phase, which the chip may not end by itself, always has its 45 minute
\* timer and its current.
SlowPhaseIsLimited == Between /\ slow => slowTimer # "none" /\ current = "slow"

\* Once a supply was seen to go, nothing of its charge is left to the next one: no
\* phase, no timer, and no callback on its way.  (Before the first supply the
\* charger is enabled and may charge before vmon_task sees why.)
UnplugClears ==
  power = "on" /\ vmon = "battery" /\ ~psu /\ ~enabled /\ ~overtaken =>
    /\ ~slow /\ ~finished /\ callback = "idle"
    /\ slowTimer = "none" /\ entryTimer = "none"

Severity == [charging |-> 0, normal |-> 0, warning |-> 1, low |-> 2]

\* On battery a warning is never taken back, however the readings jitter.
WarningsStay ==
  [][ ~psu /\ ~psu' /\ level # 0 => Severity[BatteryState'] >= Severity[BatteryState]
    ]_chargingVars
=============================================================================

-------------------------- MODULE HidBridgeProofs --------------------------
(***************************************************************************)
(* Theorems about HidBridge, for any set of input tasks, any settings, any *)
(* events of the surroundings and any failures of the Bluetooth stack.     *)
(***************************************************************************)
EXTENDS HidBridge, TLAPS

\* The calls of one order before the i-th concern parts of the stack.
LEMMA BeforeType ==
  \A i \in 1..5 : /\ Before(InitOrder, i) \subseteq Parts
                  /\ Before(DeinitOrder, i) \subseteq Parts
<1> SUFFICES ASSUME NEW i \in 1..5
             PROVE  /\ Before(InitOrder, i) \subseteq Parts
                    /\ Before(DeinitOrder, i) \subseteq Parts
  OBVIOUS
<1>1. \A j \in 1..(i - 1) : j \in {1, 2, 3, 4}
  OBVIOUS
<1>2. \A j \in {1, 2, 3, 4} : InitOrder[j] \in Parts /\ DeinitOrder[j] \in Parts
  BY DEF InitOrder, DeinitOrder, Parts
<1> QED
  BY <1>1, <1>2 DEF Before

\* Whatever ble_hid_device_init does, it ends in an outcome of the known kinds.
LEMMA InitOutcomesType ==
  \A s \in SUBSET Parts : \A o \in InitOutcomes(s) :
     o.ret \in {"ok", "fail", "abort"} /\ o.up \in SUBSET Parts
BY BeforeType DEF InitOutcomes

\* Likewise for ble_hid_device_deinit, which never aborts.
LEMMA DeinitOutcomesType ==
  \A s \in SUBSET Parts, h \in BOOLEAN : \A o \in DeinitOutcomes(s, h) :
     o.ret \in {"ok", "fail"} /\ o.up \in SUBSET Parts
BY BeforeType DEF DeinitOutcomes

LEMMA KnownTasks ==
  /\ "timer" \in Tasks /\ "report" \in Tasks /\ "main" \in Tasks
  /\ "vmon" \in Tasks /\ "bt" \in Tasks
  /\ "free" \notin Tasks
BY TasksAssumption DEF Tasks

LEMMA WakersAreTasks ==
  \A t \in Wakers : t \in Tasks /\ t \notin {"timer", "main", "vmon", "bt"}
BY TasksAssumption DEF Wakers, Tasks

-----------------------------------------------------------------------------
(* Type correctness.                                                       *)

\* The main loop stops counting when it reaches the threshold: it leaves for
\* deep sleep and does not come back to count.
CountingBelow == pc["main"] = "idle" => idleTicks < SleepThreshold

LEMMA BridgeTypesNext == TypeOK /\ [Next]_vars => BridgeTypes'
<1> SUFFICES ASSUME TypeOK, [Next]_vars PROVE BridgeTypes'
  OBVIOUS
<1> USE KnownTasks DEF TypeOK, BridgeTypes, TimerState, bridge, timers
<1>1. CASE Boot \/ BootFails \/ Reset \/ UNCHANGED vars
  BY <1>1 DEF Boot, BootFails, Reset, vars
<1>2. CASE ReportArrives \/ ReportForwarded \/ \E t \in InputTasks : InputArrives(t)
  BY <1>2 DEF ReportArrives, ReportForwarded, InputArrives, ResetTimers
<1>3. CASE \E t \in Wakers : WakeStep(t)
  BY <1>3, WakersAreTasks DEF WakeStep, WakeTake, WakeTimeout, WakeInit
<1>4. CASE TimerStep
  <2>1. CASE InactivityFires \/ InactivityTake \/ InactivityStaysAwake \/ InactivityDeepSleeps
    BY <2>1 DEF InactivityFires, InactivityTake, InactivityStaysAwake, InactivityDeepSleeps
  <2>2. CASE PauseBegins \/ PauseEnds \/ DeepTimerFires \/ DeepTimerTake \/ TimerTakeTimeout
    BY <2>2 DEF BeginDeinit, PauseBegins, PauseEnds, DeepTimerFires, DeepTimerTake,
       TimerTakeTimeout
  <2>3. CASE BridgeDeinit \/ DeinitTimeout \/ DeinitTake
    BY <2>3 DEF BeginDeinit, BridgeDeinit, DeinitTimeout, DeinitTake
  <2>4. CASE DeinitBle \/ DeinitUsb \/ DeepSleep("timer")
    BY <2>4 DEF DeinitBle, DeinitUsb, DeepSleep
  <2> QED
    BY <1>4, <2>1, <2>2, <2>3, <2>4 DEF TimerStep
<1>5. CASE MainTick \/ BtStep \/ EnvStep
  BY <1>5 DEF BeginDeinit, MainTick, BtStep, ServiceCreated, HostConnects, HostConnected,
     EnvStep, HostLeaves, UsbDeviceStarted, PsuChanges, WifiChanges, BatteryDead
<1>6. CASE \E t \in {"main", "vmon"} : SleeperStep(t)
  BY <1>6 DEF SleeperStep, Teardown, DeepSleep
<1> QED
  BY <1>1, <1>2, <1>3, <1>4, <1>5, <1>6 DEF Next, Running

LEMMA StackTypesNext == TypeOK /\ [Next]_vars => StackTypes'
<1> SUFFICES ASSUME TypeOK, [Next]_vars PROVE StackTypes'
  OBVIOUS
<1> USE DEF TypeOK, StackTypes, stack, ble
<1>1. CASE Boot \/ BootFails
  BY <1>1, InitOutcomesType DEF Boot, BootFails
<1>2. CASE Reset \/ UNCHANGED vars
  BY <1>2 DEF Reset, vars, Parts
<1>3. CASE ReportArrives \/ ReportForwarded \/ \E t \in InputTasks : InputArrives(t)
  BY <1>3 DEF ReportArrives, ReportForwarded, InputArrives
<1>4. CASE \E t \in Wakers : WakeStep(t)
  BY <1>4, InitOutcomesType DEF WakeStep, WakeTake, WakeTimeout, WakeInit, BeginInit
<1>5. CASE TimerStep
  <2>1. CASE InactivityFires \/ InactivityTake \/ InactivityStaysAwake \/ InactivityDeepSleeps
             \/ DeepTimerFires \/ DeepTimerTake \/ TimerTakeTimeout
    BY <2>1 DEF InactivityFires, InactivityTake, InactivityStaysAwake, InactivityDeepSleeps,
       DeepTimerFires, DeepTimerTake, TimerTakeTimeout
  <2>2. CASE PauseBegins \/ BridgeDeinit \/ DeinitTimeout \/ DeinitTake
    BY <2>2 DEF PauseBegins, BridgeDeinit, DeinitTimeout, DeinitTake, BeginDeinit
  <2>3. CASE PauseEnds \/ DeinitBle
    BY <2>3, DeinitOutcomesType DEF PauseEnds, DeinitBle, EndDeinit
  <2>4. CASE DeinitUsb \/ DeepSleep("timer")
    BY <2>4 DEF DeinitUsb, DeepSleep
  <2> QED
    BY <1>5, <2>1, <2>2, <2>3, <2>4 DEF TimerStep
<1>6. CASE MainTick \/ BatteryDead
  BY <1>6 DEF MainTick, BatteryDead, BeginDeinit
<1>7. CASE BtStep \/ HostLeaves \/ UsbDeviceStarted \/ PsuChanges \/ WifiChanges
  BY <1>7 DEF BtStep, ServiceCreated, HostConnects, HostConnected, HostLeaves,
     UsbDeviceStarted, PsuChanges, WifiChanges
<1>8. CASE \E t \in {"main", "vmon"} : SleeperStep(t)
  BY <1>8, DeinitOutcomesType DEF SleeperStep, Teardown, DeepSleep, EndDeinit
<1> QED
  BY <1>1, <1>2, <1>3, <1>4, <1>5, <1>6, <1>7, <1>8 DEF Next, Running, EnvStep

LEMMA EnvTypesNext == TypeOK /\ CountingBelow /\ [Next]_vars => EnvTypes'
<1> SUFFICES ASSUME TypeOK, CountingBelow, [Next]_vars PROVE EnvTypes'
  OBVIOUS
<1> USE DEF TypeOK, EnvTypes, env
<1>1. CASE Reset \/ MainTick
  <2>1. idleTicks' \in 0..SleepThreshold
    BY <1>1, ThresholdAssumption DEF Reset, MainTick, CountingBelow
  <2>2. usb' \in BOOLEAN /\ psu' \in BOOLEAN /\ wifi' \in BOOLEAN
    BY <1>1 DEF Reset, MainTick
  <2> QED
    BY <2>1, <2>2
<1>2. CASE Boot \/ BootFails \/ UNCHANGED vars
  BY <1>2 DEF Boot, BootFails, vars
<1>3. CASE \/ ReportArrives \/ ReportForwarded \/ \E t \in InputTasks : InputArrives(t)
           \/ \E t \in Wakers : WakeStep(t)
  BY <1>3 DEF ReportArrives, ReportForwarded, InputArrives, WakeStep, WakeTake,
     WakeTimeout, WakeInit
<1>4. CASE TimerStep
  BY <1>4 DEF TimerStep, InactivityFires, TimerTakeTimeout, InactivityTake,
     InactivityStaysAwake, InactivityDeepSleeps, PauseBegins, PauseEnds,
     DeepTimerFires, DeepTimerTake, BridgeDeinit, DeinitTimeout, DeinitTake,
     DeinitBle, DeinitUsb, DeepSleep
<1>5. CASE BtStep \/ EnvStep
  BY <1>5 DEF BtStep, ServiceCreated, HostConnects, HostConnected, EnvStep,
     HostLeaves, UsbDeviceStarted, PsuChanges, WifiChanges, BatteryDead
<1>6. CASE \E t \in {"main", "vmon"} : SleeperStep(t)
  BY <1>6 DEF SleeperStep, Teardown, DeepSleep
<1> QED
  BY <1>1, <1>2, <1>3, <1>4, <1>5, <1>6 DEF Next, Running

LEMMA PcTypeNext == TypeOK /\ [Next]_vars => (pc \in [Tasks -> Labels])'
<1> SUFFICES ASSUME TypeOK, [Next]_vars PROVE (pc \in [Tasks -> Labels])'
  OBVIOUS
<1> USE KnownTasks DEF TypeOK, Labels, Goto
<1>1. CASE Boot \/ BootFails \/ Reset \/ UNCHANGED vars
  BY <1>1 DEF Boot, BootFails, Reset, vars
<1>2. CASE ReportArrives \/ ReportForwarded \/ \E t \in InputTasks : InputArrives(t)
  BY <1>2 DEF ReportArrives, ReportForwarded, InputArrives
<1>3. CASE \E t \in Wakers : WakeStep(t)
  BY <1>3 DEF WakeStep, WakeTake, WakeTimeout, WakeInit
<1>4. CASE TimerStep
  BY <1>4 DEF TimerStep, InactivityFires, TimerTakeTimeout, InactivityTake,
     InactivityStaysAwake, InactivityDeepSleeps, PauseBegins, PauseEnds,
     DeepTimerFires, DeepTimerTake, BridgeDeinit, DeinitTimeout, DeinitTake,
     DeinitBle, DeinitUsb, DeepSleep
<1>5. CASE MainTick \/ BtStep \/ EnvStep
  BY <1>5 DEF MainTick, BtStep, ServiceCreated, HostConnects, HostConnected,
     EnvStep, HostLeaves, UsbDeviceStarted, PsuChanges, WifiChanges, BatteryDead
<1>6. CASE \E t \in {"main", "vmon"} : SleeperStep(t)
  BY <1>6 DEF SleeperStep, Teardown, DeepSleep
<1> QED
  BY <1>1, <1>2, <1>3, <1>4, <1>5, <1>6 DEF Next, Running

LEMMA CountingBelowNext == TypeOK /\ CountingBelow /\ [Next]_vars => CountingBelow'
<1> SUFFICES ASSUME TypeOK, CountingBelow, [Next]_vars PROVE CountingBelow'
  OBVIOUS
<1> USE KnownTasks DEF TypeOK, EnvTypes, CountingBelow, Goto
<1>1. CASE Reset \/ MainTick
  BY <1>1, ThresholdAssumption DEF Reset, MainTick
<1>2. CASE Boot \/ BootFails \/ UNCHANGED vars
  BY <1>2 DEF Boot, BootFails, vars
<1>3. CASE ReportArrives \/ ReportForwarded \/ \E t \in InputTasks : InputArrives(t)
  BY <1>3, WakersAreTasks DEF ReportArrives, ReportForwarded, InputArrives, Wakers
<1>4. CASE \E t \in Wakers : WakeStep(t)
  BY <1>4, WakersAreTasks DEF WakeStep, WakeTake, WakeTimeout, WakeInit
<1>5. CASE TimerStep
  BY <1>5 DEF TimerStep, InactivityFires, TimerTakeTimeout, InactivityTake,
     InactivityStaysAwake, InactivityDeepSleeps, PauseBegins, PauseEnds,
     DeepTimerFires, DeepTimerTake, BridgeDeinit, DeinitTimeout, DeinitTake,
     DeinitBle, DeinitUsb, DeepSleep
<1>6. CASE BtStep \/ EnvStep
  BY <1>6 DEF BtStep, ServiceCreated, HostConnects, HostConnected, EnvStep,
     HostLeaves, UsbDeviceStarted, PsuChanges, WifiChanges, BatteryDead
<1>7. CASE \E t \in {"main", "vmon"} : SleeperStep(t)
  BY <1>7 DEF SleeperStep, Teardown, DeepSleep
<1> QED
  BY <1>1, <1>2, <1>3, <1>4, <1>5, <1>6, <1>7 DEF Next, Running

TypeInv == TypeOK /\ CountingBelow

LEMMA TypeInit == Init => TypeInv
<1> SUFFICES ASSUME Init PROVE TypeInv
  OBVIOUS
<1>1. BridgeTypes
  BY DEF Init, BridgeTypes, TimerState
<1>2. StackTypes
  BY DEF Init, StackTypes, Parts
<1>3. idleTicks \in 0..SleepThreshold /\ CountingBelow
  BY ThresholdAssumption DEF Init, CountingBelow
<1>4. usb \in BOOLEAN /\ psu \in BOOLEAN /\ wifi \in BOOLEAN
  BY DEF Init
<1>5. pc \in [Tasks -> Labels]
  BY DEF Init, Labels
<1> QED
  BY <1>1, <1>2, <1>3, <1>4, <1>5 DEF TypeInv, TypeOK, EnvTypes

\* Every variable keeps its type; in particular the counter of the main loop
\* never passes its threshold.
THEOREM TypeCorrect == Spec => []TypeOK
<1>1. TypeInv /\ [Next]_vars => TypeInv'
  BY BridgeTypesNext, StackTypesNext, EnvTypesNext, PcTypeNext, CountingBelowNext
     DEF TypeInv, TypeOK
<1>2. TypeInv => TypeOK
  BY DEF TypeInv
<1> QED
  BY TypeInit, <1>1, <1>2, PTL DEF Spec

-----------------------------------------------------------------------------
(* The BLE stack mutex.                                                    *)

LEMMA ExclusionNext ==
  TypeOK /\ MutexProtectsLifecycle /\ [Next]_vars => MutexProtectsLifecycle'
<1> SUFFICES ASSUME TypeOK, MutexProtectsLifecycle, [Next]_vars,
                    NEW u \in Tasks, pc'[u] \in Locked
             PROVE  mutex' = u
  BY DEF MutexProtectsLifecycle
<1> USE KnownTasks DEF TypeOK, MutexProtectsLifecycle, Locked, Goto, bridge
<1>1. CASE Boot \/ BootFails \/ Reset \/ UNCHANGED vars
  BY <1>1 DEF Boot, BootFails, Reset, vars
<1>2. CASE ReportArrives \/ ReportForwarded \/ \E t \in InputTasks : InputArrives(t)
  BY <1>2, WakersAreTasks DEF ReportArrives, ReportForwarded, InputArrives, Wakers
<1>3. CASE \E t \in Wakers : WakeStep(t)
  BY <1>3, WakersAreTasks DEF WakeStep, WakeTake, WakeTimeout, WakeInit
<1>4. CASE TimerStep
  BY <1>4 DEF TimerStep, InactivityFires, TimerTakeTimeout, InactivityTake,
     InactivityStaysAwake, InactivityDeepSleeps, PauseBegins, PauseEnds,
     DeepTimerFires, DeepTimerTake, BridgeDeinit, DeinitTimeout, DeinitTake,
     DeinitBle, DeinitUsb, DeepSleep
<1>5. CASE MainTick \/ BtStep \/ EnvStep
  BY <1>5 DEF MainTick, BtStep, ServiceCreated, HostConnects, HostConnected,
     EnvStep, HostLeaves, UsbDeviceStarted, PsuChanges, WifiChanges, BatteryDead
<1>6. CASE \E t \in {"main", "vmon"} : SleeperStep(t)
  BY <1>6 DEF SleeperStep, Teardown, DeepSleep
<1> QED
  BY <1>1, <1>2, <1>3, <1>4, <1>5, <1>6 DEF Next, Running

\* Bringing the Bluetooth stack up and taking it down under the mutex exclude
\* each other, whatever the number of tasks that want to.
THEOREM MutualExclusion == Spec => []MutexProtectsLifecycle
<1>1. Init => MutexProtectsLifecycle
  BY DEF Init, MutexProtectsLifecycle, Locked
<1> QED
  BY TypeCorrect, <1>1, ExclusionNext, PTL DEF Spec

\* What makes MutexHeldByWorker inductive: before the boot nothing works, and
\* events are switched off from the start of a pause on.
BootIsQuiet ==
  power = "boot" => mutex = "free" /\ pc["timer"] = "idle" /\ ~initialized /\ active
PauseIsDeaf == pc["timer"] = "pause" => ~gEnabled

HeldInv == MutexProtectsLifecycle /\ BootIsQuiet /\ PauseIsDeaf /\ MutexHeldByWorker

LEMMA BootIsQuietNext == TypeOK /\ BootIsQuiet /\ [Next]_vars => BootIsQuiet'
<1> USE KnownTasks DEF BootIsQuiet
<1>1. CASE Boot \/ BootFails \/ Reset \/ UNCHANGED vars
  BY <1>1 DEF Boot, BootFails, Reset, vars, bridge
<1>2. CASE Running
  <2> SUFFICES ASSUME Running, TypeOK PROVE power' # "boot"
    BY <1>2
  <2> USE DEF TypeOK, BridgeTypes
  <2>1. CASE ReportArrives \/ ReportForwarded \/ \E t \in InputTasks : InputArrives(t)
    BY <2>1, <1>2 DEF Running, ReportArrives, ReportForwarded, InputArrives, ResetTimers
  <2>2. CASE \E t \in Wakers : WakeStep(t)
    BY <2>2, <1>2 DEF Running, WakeStep, WakeTake, WakeTimeout, WakeInit
  <2>3. CASE TimerStep
    BY <2>3, <1>2 DEF BeginDeinit, Running, TimerStep, InactivityFires,
       TimerTakeTimeout, InactivityTake,
       InactivityStaysAwake, InactivityDeepSleeps, PauseBegins, PauseEnds,
       DeepTimerFires, DeepTimerTake, BridgeDeinit, DeinitTimeout, DeinitTake,
       DeinitBle, DeinitUsb, DeepSleep
  <2>4. CASE MainTick \/ BtStep \/ EnvStep
    BY <2>4, <1>2 DEF BeginDeinit, Running, MainTick, BtStep, ServiceCreated,
       HostConnects, HostConnected,
       EnvStep, HostLeaves, UsbDeviceStarted, PsuChanges, WifiChanges, BatteryDead
  <2>5. CASE \E t \in {"main", "vmon"} : SleeperStep(t)
    BY <2>5, <1>2 DEF Running, SleeperStep, Teardown, DeepSleep
  <2> QED
    BY <2>1, <2>2, <2>3, <2>4, <2>5 DEF Running
<1> QED
  BY <1>1, <1>2 DEF Next

LEMMA PauseIsDeafNext ==
  TypeOK /\ MutexProtectsLifecycle /\ BootIsQuiet /\ PauseIsDeaf /\ [Next]_vars
  => PauseIsDeaf'
<1> SUFFICES ASSUME TypeOK, MutexProtectsLifecycle, BootIsQuiet, PauseIsDeaf, [Next]_vars
             PROVE  PauseIsDeaf'
  OBVIOUS
<1> USE KnownTasks DEF TypeOK, MutexProtectsLifecycle, BootIsQuiet, PauseIsDeaf, Locked,
        Goto, ble
<1>1. CASE Boot \/ BootFails \/ Reset \/ UNCHANGED vars
  BY <1>1 DEF Boot, BootFails, Reset, vars
<1>2. CASE ReportArrives \/ ReportForwarded \/ \E t \in InputTasks : InputArrives(t)
  BY <1>2, WakersAreTasks DEF ReportArrives, ReportForwarded, InputArrives, Wakers
<1>3. CASE \E t \in Wakers : WakeStep(t)
  BY <1>3, WakersAreTasks DEF WakeStep, WakeTake, WakeTimeout, WakeInit, BeginInit
<1>4. CASE TimerStep
  <2>1. CASE InactivityFires \/ InactivityTake \/ InactivityStaysAwake \/ InactivityDeepSleeps
    BY <2>1 DEF InactivityFires, InactivityTake, InactivityStaysAwake, InactivityDeepSleeps
  <2>2. CASE PauseBegins \/ PauseEnds \/ DeepTimerFires \/ DeepTimerTake \/ TimerTakeTimeout
    BY <2>2 DEF PauseBegins, PauseEnds, DeepTimerFires, DeepTimerTake, TimerTakeTimeout,
       BeginDeinit
  <2>3. CASE BridgeDeinit \/ DeinitTimeout \/ DeinitTake
    BY <2>3 DEF BridgeDeinit, DeinitTimeout, DeinitTake, BeginDeinit
  <2>4. CASE DeinitBle \/ DeinitUsb \/ DeepSleep("timer")
    BY <2>4 DEF DeinitBle, DeinitUsb, DeepSleep
  <2> QED
    BY <1>4, <2>1, <2>2, <2>3, <2>4 DEF TimerStep
<1>5. CASE MainTick \/ BtStep \/ EnvStep
  BY <1>5 DEF MainTick, BtStep, ServiceCreated, HostConnects, HostConnected, BeginDeinit,
     EnvStep, HostLeaves, UsbDeviceStarted, PsuChanges, WifiChanges, BatteryDead
<1>6. CASE \E t \in {"main", "vmon"} : SleeperStep(t)
  BY <1>6 DEF SleeperStep, Teardown, DeepSleep
<1> QED
  BY <1>1, <1>2, <1>3, <1>4, <1>5, <1>6 DEF Next, Running

LEMMA MutexHeldNext == TypeOK /\ HeldInv /\ [Next]_vars => MutexHeldByWorker'
<1> SUFFICES ASSUME TypeOK, HeldInv, [Next]_vars
             PROVE  MutexHeldByWorker'
  OBVIOUS
<1>a. mutex \in Tasks \cup {"free"}
  BY DEF TypeOK, BridgeTypes
<1> USE <1>a, KnownTasks DEF TypeOK, HeldInv, MutexProtectsLifecycle, BootIsQuiet, PauseIsDeaf,
        MutexHeldByWorker, Leaked, Locked, Goto, bridge, ble
<1>1. CASE Boot \/ BootFails \/ Reset \/ UNCHANGED vars
  BY <1>1 DEF Boot, BootFails, Reset, vars
<1>2. CASE ReportArrives \/ ReportForwarded \/ \E t \in InputTasks : InputArrives(t)
  BY <1>2, WakersAreTasks DEF ReportArrives, ReportForwarded, InputArrives, Wakers
<1>3. CASE \E t \in Wakers : WakeStep(t)
  BY <1>3, WakersAreTasks DEF WakeStep, WakeTake, WakeTimeout, WakeInit, BeginInit
<1>4. CASE TimerStep
  <2>1. CASE InactivityFires \/ InactivityTake \/ InactivityStaysAwake \/ InactivityDeepSleeps
    BY <2>1 DEF InactivityFires, InactivityTake, InactivityStaysAwake, InactivityDeepSleeps
  <2>2. CASE PauseBegins \/ PauseEnds \/ DeepTimerFires \/ DeepTimerTake \/ TimerTakeTimeout
    BY <2>2 DEF PauseBegins, PauseEnds, DeepTimerFires, DeepTimerTake, TimerTakeTimeout,
       BeginDeinit
  <2>3. CASE BridgeDeinit \/ DeinitTimeout \/ DeinitTake
    BY <2>3 DEF BridgeDeinit, DeinitTimeout, DeinitTake, BeginDeinit
  <2>4. CASE DeinitBle \/ DeinitUsb \/ DeepSleep("timer")
    BY <2>4 DEF DeinitBle, DeinitUsb, DeepSleep
  <2> QED
    BY <1>4, <2>1, <2>2, <2>3, <2>4 DEF TimerStep
<1>5. CASE MainTick \/ BtStep \/ EnvStep
  BY <1>5 DEF MainTick, BtStep, ServiceCreated, HostConnects, HostConnected, BeginDeinit,
     EnvStep, HostLeaves, UsbDeviceStarted, PsuChanges, WifiChanges, BatteryDead
<1>6. CASE \E t \in {"main", "vmon"} : SleeperStep(t)
  BY <1>6 DEF SleeperStep, Teardown, DeepSleep
<1> QED
  BY <1>1, <1>2, <1>3, <1>4, <1>5, <1>6 DEF Next, Running

\* The mutex is given back on every path but one: when nobody inside the critical
\* sections owns it, a pause has failed, the stack counts as active, and it is
\* deaf.
THEOREM MutexAlwaysGivenBack == Spec => []MutexHeldByWorker
<1>1. Init => HeldInv
  BY KnownTasks DEF Init, HeldInv, MutexProtectsLifecycle, Locked, BootIsQuiet,
     PauseIsDeaf, MutexHeldByWorker
<1>2. TypeOK /\ HeldInv /\ [Next]_vars => HeldInv'
  BY ExclusionNext, BootIsQuietNext, PauseIsDeafNext, MutexHeldNext DEF HeldInv
<1>3. HeldInv => MutexHeldByWorker
  BY DEF HeldInv
<1> QED
  BY TypeCorrect, <1>1, <1>2, <1>3, PTL DEF Spec

-----------------------------------------------------------------------------
(* The way to deep sleep and the sleep timers.                             *)

\* A task on its way to deep sleep stays on it as long as the device is on.
LEMMA SleepIsCommitted ==
  TypeOK /\ GoingToSleep /\ [Next]_vars /\ power' = "on" => GoingToSleep'
<1> SUFFICES ASSUME TypeOK, GoingToSleep, [Next]_vars, power' = "on"
             PROVE  GoingToSleep'
  OBVIOUS
<1> USE KnownTasks DEF TypeOK, GoingToSleep, Goto
<1>1. CASE Boot \/ BootFails \/ Reset \/ UNCHANGED vars
  BY <1>1 DEF Boot, BootFails, Reset, vars
<1>2. CASE /\ power = "on"
           /\ ReportArrives \/ ReportForwarded \/ \E t \in InputTasks : InputArrives(t)
  BY <1>2, WakersAreTasks DEF ReportArrives, ReportForwarded, InputArrives, Wakers
<1>3. CASE power = "on" /\ \E t \in Wakers : WakeStep(t)
  BY <1>3, WakersAreTasks DEF WakeStep, WakeTake, WakeTimeout, WakeInit, BeginInit
<1>4. CASE power = "on" /\ TimerStep
  <2>1. CASE InactivityFires \/ InactivityTake \/ InactivityStaysAwake \/ InactivityDeepSleeps
    BY <1>4, <2>1 DEF InactivityFires, InactivityTake, InactivityStaysAwake,
       InactivityDeepSleeps
  <2>2. CASE PauseBegins \/ PauseEnds \/ DeepTimerFires \/ DeepTimerTake \/ TimerTakeTimeout
    BY <1>4, <2>2 DEF PauseBegins, PauseEnds, DeepTimerFires, DeepTimerTake,
       TimerTakeTimeout, BeginDeinit
  <2>3. CASE BridgeDeinit \/ DeinitTimeout \/ DeinitTake
    BY <1>4, <2>3 DEF BridgeDeinit, DeinitTimeout, DeinitTake, BeginDeinit
  <2>4. CASE DeinitBle \/ DeinitUsb \/ DeepSleep("timer")
    BY <1>4, <2>4 DEF DeinitBle, DeinitUsb, DeepSleep
  <2> QED
    BY <1>4, <2>1, <2>2, <2>3, <2>4 DEF TimerStep
<1>5. CASE power = "on" /\ (MainTick \/ BatteryDead)
  BY <1>5 DEF MainTick, BatteryDead, BeginDeinit
<1>6. CASE /\ power = "on"
           /\ BtStep \/ HostLeaves \/ UsbDeviceStarted \/ PsuChanges \/ WifiChanges
  BY <1>6 DEF BtStep, ServiceCreated, HostConnects, HostConnected, HostLeaves,
     UsbDeviceStarted, PsuChanges, WifiChanges
<1>7. CASE power = "on" /\ \E t \in {"main", "vmon"} : SleeperStep(t)
  BY <1>7 DEF SleeperStep, Teardown, DeepSleep
<1> QED
  BY <1>1, <1>2, <1>3, <1>4, <1>5, <1>6, <1>7 DEF Next, Running, EnvStep

LEMMA TimersNext == 
  TypeOK /\ BootIsQuiet /\ TimersDeletedOnlyForSleep /\ [Next]_vars
  => TimersDeletedOnlyForSleep'
<1> SUFFICES ASSUME TypeOK, BootIsQuiet, TimersDeletedOnlyForSleep, [Next]_vars,
                    power' = "on", initialized', ~GoingToSleep'
             PROVE  inactivity' # "none" /\ deepTimer' # "none"
  BY DEF TimersDeletedOnlyForSleep
<1>a. power = "on" /\ initialized => inactivity # "none" /\ deepTimer # "none"
  BY SleepIsCommitted DEF TimersDeletedOnlyForSleep
<1> USE <1>a
<1> USE KnownTasks DEF TypeOK, BootIsQuiet, timers, bridge
<1>1. CASE Boot \/ BootFails \/ Reset \/ UNCHANGED vars
  BY <1>1 DEF Boot, BootFails, Reset, vars
<1>2. CASE /\ power = "on"
           /\ ReportArrives \/ ReportForwarded \/ \E t \in InputTasks : InputArrives(t)
  BY <1>2, WakersAreTasks DEF ReportArrives, ReportForwarded, InputArrives, Wakers, ResetTimers
<1>3. CASE power = "on" /\ \E t \in Wakers : WakeStep(t)
  BY <1>3, WakersAreTasks DEF WakeStep, WakeTake, WakeTimeout, WakeInit, BeginInit
<1>4. CASE power = "on" /\ TimerStep
  <2>1. CASE InactivityFires \/ InactivityTake \/ InactivityStaysAwake \/ InactivityDeepSleeps
    BY <1>4, <2>1 DEF InactivityFires, InactivityTake, InactivityStaysAwake,
       InactivityDeepSleeps
  <2>2. CASE PauseBegins \/ PauseEnds \/ DeepTimerFires \/ DeepTimerTake \/ TimerTakeTimeout
    BY <1>4, <2>2 DEF PauseBegins, PauseEnds, DeepTimerFires, DeepTimerTake,
       TimerTakeTimeout, BeginDeinit
  <2>3. CASE BridgeDeinit \/ DeinitTimeout \/ DeinitTake
    BY <1>4, <2>3 DEF BridgeDeinit, DeinitTimeout, DeinitTake, BeginDeinit, GoingToSleep, Goto
  <2>4. CASE DeinitBle \/ DeinitUsb \/ DeepSleep("timer")
    BY <1>4, <2>4 DEF DeinitBle, DeinitUsb, DeepSleep
  <2> QED
    BY <1>4, <2>1, <2>2, <2>3, <2>4 DEF TimerStep
<1>5. CASE power = "on" /\ (MainTick \/ BatteryDead)
  BY <1>5 DEF MainTick, BatteryDead, BeginDeinit
<1>6. CASE /\ power = "on"
           /\ BtStep \/ HostLeaves \/ UsbDeviceStarted \/ PsuChanges \/ WifiChanges
  BY <1>6 DEF BtStep, ServiceCreated, HostConnects, HostConnected, HostLeaves,
     UsbDeviceStarted, PsuChanges, WifiChanges
<1>7. CASE power = "on" /\ \E t \in {"main", "vmon"} : SleeperStep(t)
  BY <1>7 DEF SleeperStep, Teardown, DeepSleep
<1> QED
  BY <1>1, <1>2, <1>3, <1>4, <1>5, <1>6, <1>7 DEF Next, Running, EnvStep

\* A bridge that goes on running has both timers: xTimerReset gets a NULL handle
\* only on the way to deep sleep.
THEOREM TimersLastUntilSleep == Spec => []TimersDeletedOnlyForSleep
<1>1. Init => BootIsQuiet /\ TimersDeletedOnlyForSleep
  BY KnownTasks DEF Init, BootIsQuiet, TimersDeletedOnlyForSleep
<1> QED
  BY TypeCorrect, <1>1, BootIsQuietNext, TimersNext, PTL DEF Spec

-----------------------------------------------------------------------------
(* The flag and the stack.                                                 *)

\* A successful ble_hid_device_init started from nothing and ends with all.
LEMMA InitOkMeansUp ==
  \A s \in SUBSET Parts : \A o \in InitOutcomes(s) : o.ret = "ok" => s = {} /\ o.up = Parts
BY DEF InitOutcomes

\* What makes ActiveMeansUp inductive: it holds already while the inactivity
\* callback looks around, and an initialisation under way has switched the
\* events on.
AwakeMeansUp ==
  /\ power = "on" /\ initialized /\ active /\ ~GoingToSleep
  /\ mutex = "free" \/ pc["timer"] = "inactCheck"
  => up = Parts /\ gEnabled /\ stats = "live"

InitHears ==
  power = "on" /\ ~GoingToSleep => \A t \in Wakers : pc[t] = "init" => gEnabled

LEMMA InitHearsNext ==
  TypeOK /\ MutexProtectsLifecycle /\ BootIsQuiet /\ InitHears /\ [Next]_vars => InitHears'
<1> SUFFICES ASSUME TypeOK, MutexProtectsLifecycle, BootIsQuiet, InitHears, [Next]_vars,
                    power' = "on", ~GoingToSleep',
                    NEW w \in Wakers, pc'[w] = "init"
             PROVE  gEnabled'
  BY DEF InitHears
<1>a. /\ ~GoingToSleep /\ w \in Tasks /\ w \notin {"timer", "main", "vmon", "bt"}
      /\ power = "on" /\ pc[w] = "init" => gEnabled
      /\ pc[w] = "init" => mutex = w
      /\ pc["timer"] = "inactCheck" => mutex = "timer"
  BY SleepIsCommitted, KnownTasks, WakersAreTasks DEF InitHears, MutexProtectsLifecycle, Locked
<1> USE <1>a
<1> USE KnownTasks DEF TypeOK, BootIsQuiet, Goto, ble
<1>1. CASE Boot \/ BootFails \/ Reset \/ UNCHANGED vars
  BY <1>1 DEF Boot, BootFails, Reset, vars
<1>2. CASE /\ power = "on"
           /\ ReportArrives \/ ReportForwarded \/ \E t \in InputTasks : InputArrives(t)
  BY <1>2, WakersAreTasks DEF ReportArrives, ReportForwarded, InputArrives, Wakers
<1>3. CASE power = "on" /\ \E t \in Wakers : WakeStep(t)
  BY <1>3, WakersAreTasks DEF WakeStep, WakeTake, WakeTimeout, WakeInit, BeginInit
<1>4. CASE power = "on" /\ TimerStep
  <2>1. CASE InactivityFires \/ InactivityTake \/ InactivityStaysAwake \/ InactivityDeepSleeps
    BY <1>4, <2>1 DEF InactivityFires, InactivityTake, InactivityStaysAwake,
       InactivityDeepSleeps
  <2>2. CASE PauseBegins \/ PauseEnds \/ DeepTimerFires \/ DeepTimerTake \/ TimerTakeTimeout
    BY <1>4, <2>2 DEF PauseBegins, PauseEnds, DeepTimerFires, DeepTimerTake,
       TimerTakeTimeout, BeginDeinit
  <2>3. CASE BridgeDeinit \/ DeinitTimeout \/ DeinitTake
    BY <1>4, <2>3 DEF BridgeDeinit, DeinitTimeout, DeinitTake, BeginDeinit, GoingToSleep
  <2>4. CASE DeinitBle \/ DeinitUsb \/ DeepSleep("timer")
    BY <1>4, <2>4 DEF DeinitBle, DeinitUsb, DeepSleep
  <2> QED
    BY <1>4, <2>1, <2>2, <2>3, <2>4 DEF TimerStep
<1>5. CASE power = "on" /\ (MainTick \/ BatteryDead)
  BY <1>5 DEF MainTick, BatteryDead, BeginDeinit, GoingToSleep
<1>6. CASE /\ power = "on"
           /\ BtStep \/ HostLeaves \/ UsbDeviceStarted \/ PsuChanges \/ WifiChanges
  BY <1>6 DEF BtStep, ServiceCreated, HostConnects, HostConnected, HostLeaves,
     UsbDeviceStarted, PsuChanges, WifiChanges
<1>7. CASE power = "on" /\ \E t \in {"main", "vmon"} : SleeperStep(t)
  BY <1>7 DEF SleeperStep, Teardown, DeepSleep
<1> QED
  BY <1>1, <1>2, <1>3, <1>4, <1>5, <1>6, <1>7 DEF Next, Running, EnvStep

LEMMA AwakeMeansUpNext ==
  TypeOK /\ MutexProtectsLifecycle /\ BootIsQuiet /\ InitHears /\ AwakeMeansUp /\ [Next]_vars
  => AwakeMeansUp'
<1> SUFFICES ASSUME TypeOK, MutexProtectsLifecycle, BootIsQuiet, InitHears, AwakeMeansUp,
                    [Next]_vars,
                    power' = "on", initialized', active', ~GoingToSleep',
                    mutex' = "free" \/ pc'["timer"] = "inactCheck"
             PROVE  up' = Parts /\ gEnabled' /\ stats' = "live"
  BY DEF AwakeMeansUp
<1>a. /\ ~GoingToSleep /\ up \in SUBSET Parts
      /\ power = "boot" => ~initialized
      /\ /\ power = "on" /\ initialized /\ active
         /\ mutex = "free" \/ pc["timer"] = "inactCheck"
         => up = Parts /\ gEnabled /\ stats = "live"
  BY SleepIsCommitted DEF TypeOK, StackTypes, BootIsQuiet, AwakeMeansUp
<1>b. \A t \in Wakers : pc[t] = "init" => mutex = t /\ (power = "on" => gEnabled)
  BY <1>a, WakersAreTasks DEF InitHears, MutexProtectsLifecycle, Locked
<1>c. pc["timer"] \in {"inactCheck", "pause"} => mutex = "timer"
  BY KnownTasks DEF MutexProtectsLifecycle, Locked
<1> USE <1>a, <1>b, <1>c
<1> USE KnownTasks DEF TypeOK, Goto, bridge, ble, stack
<1>1. CASE Boot \/ BootFails \/ Reset \/ UNCHANGED vars
  BY <1>1, InitOkMeansUp DEF Boot, BootFails, Reset, vars
<1>2. CASE /\ power = "on"
           /\ ReportArrives \/ ReportForwarded \/ \E t \in InputTasks : InputArrives(t)
  BY <1>2, WakersAreTasks DEF ReportArrives, ReportForwarded, InputArrives, Wakers
<1>3. CASE power = "on" /\ \E t \in Wakers : WakeStep(t)
  <2>1. PICK t \in Wakers : WakeStep(t)
    BY <1>3
  <2>2. t \in Tasks /\ t # "timer"
    BY WakersAreTasks
  <2>3. CASE WakeTake(t) \/ WakeTimeout(t)
    BY <1>3, <2>2, <2>3 DEF WakeTake, WakeTimeout, BeginInit
  <2>4. CASE WakeInit(t)
    <3>1. PICK o \in InitOutcomes(up) :
            /\ up' = o.up /\ active' = (o.ret = "ok")
            /\ stats' = IF o.ret = "ok" THEN "live" ELSE stats
      BY <2>4 DEF WakeInit
    <3>2. up' = Parts /\ stats' = "live"
      BY <3>1, InitOkMeansUp
    <3>3. gEnabled
      BY <1>3, <2>4 DEF WakeInit
    <3> QED
      BY <2>4, <3>2, <3>3 DEF WakeInit
  <2> QED
    BY <2>1, <2>3, <2>4 DEF WakeStep
<1>4. CASE power = "on" /\ TimerStep
  <2>1. CASE InactivityFires \/ InactivityTake \/ InactivityStaysAwake \/ InactivityDeepSleeps
    BY <1>4, <2>1 DEF InactivityFires, InactivityTake, InactivityStaysAwake,
       InactivityDeepSleeps
  <2>2. CASE PauseBegins \/ PauseEnds \/ DeepTimerFires \/ DeepTimerTake \/ TimerTakeTimeout
    BY <1>4, <2>2 DEF PauseBegins, PauseEnds, DeepTimerFires, DeepTimerTake,
       TimerTakeTimeout, BeginDeinit
  <2>3. CASE BridgeDeinit \/ DeinitTimeout \/ DeinitTake
    BY <1>4, <2>3 DEF BridgeDeinit, DeinitTimeout, DeinitTake, BeginDeinit, GoingToSleep
  <2>4. CASE DeinitBle \/ DeinitUsb \/ DeepSleep("timer")
    BY <1>4, <2>4 DEF DeinitBle, DeinitUsb, DeepSleep, GoingToSleep
  <2> QED
    BY <1>4, <2>1, <2>2, <2>3, <2>4 DEF TimerStep
<1>5. CASE power = "on" /\ (MainTick \/ BatteryDead)
  BY <1>5 DEF MainTick, BatteryDead, BeginDeinit, GoingToSleep
<1>6. CASE /\ power = "on"
           /\ BtStep \/ HostLeaves \/ UsbDeviceStarted \/ PsuChanges \/ WifiChanges
  BY <1>6 DEF BtStep, ServiceCreated, HostConnects, HostConnected, HostLeaves,
     UsbDeviceStarted, PsuChanges, WifiChanges
<1>7. CASE power = "on" /\ \E t \in {"main", "vmon"} : SleeperStep(t)
  BY <1>7 DEF SleeperStep, Teardown, DeepSleep, GoingToSleep
<1> QED
  BY <1>1, <1>2, <1>3, <1>4, <1>5, <1>6, <1>7 DEF Next, Running, EnvStep

\* Whatever calls fail, the flag never claims a stack that is down or deaf.
THEOREM ActiveFlagIsTrue == Spec => []ActiveMeansUp
<1> DEFINE Inv == MutexProtectsLifecycle /\ BootIsQuiet /\ InitHears /\ AwakeMeansUp
<1>1. Init => Inv
  BY KnownTasks, WakersAreTasks DEF Init, MutexProtectsLifecycle, Locked, BootIsQuiet,
     InitHears, AwakeMeansUp
<1>2. TypeOK /\ Inv /\ [Next]_vars => Inv'
  BY ExclusionNext, BootIsQuietNext, InitHearsNext, AwakeMeansUpNext
<1>3. Inv => ActiveMeansUp
  BY DEF AwakeMeansUp, ActiveMeansUp, Settled
<1> QED
  BY TypeCorrect, <1>1, <1>2, <1>3, PTL DEF Spec

-----------------------------------------------------------------------------
(* The USB HID task alone.                                                 *)

\* process_report looks at s_ble_stack_active again once it owns the mutex: when
\* no input task competes with it and initialisation does not fail half-way, the
\* stack is down whenever the flag says so and the bridge is not in between.
DownWhenInactive == ~active /\ pc["timer"] # "deinitBle" => up = {}
InitWhenInactive == pc["report"] = "init" => ~active

DownInv == MutexProtectsLifecycle /\ BootIsQuiet /\ DownWhenInactive /\ InitWhenInactive

\* With nothing up and no call that fails by itself, initialisation succeeds.
LEMMA InitFromNothing ==
  FailingInit = {} => \A o \in InitOutcomes({}) : o.ret = "ok"
BY DEF InitOutcomes, InitFails

LEMMA DeinitOkMeansDown ==
  \A s \in SUBSET Parts, h \in BOOLEAN : \A o \in DeinitOutcomes(s, h) :
     o.ret = "ok" => o.up = {}
BY DEF DeinitOutcomes

LEMMA DeinitOnlyTakesDown ==
  \A s \in SUBSET Parts, h \in BOOLEAN : \A o \in DeinitOutcomes(s, h) : o.up \subseteq s
BY DEF DeinitOutcomes

LEMMA InitWhenInactiveNext ==
  ASSUME InputTasks = {}, TypeOK, DownInv, [Next]_vars
  PROVE  InitWhenInactive'
<1> SUFFICES ASSUME pc'["report"] = "init" PROVE ~active'
  BY DEF InitWhenInactive
<1>a. /\ pc["report"] = "init" => mutex = "report" /\ ~active /\ power # "boot"
      /\ pc["timer"] \in {"pause", "deinitBle"} => mutex = "timer"
  BY KnownTasks DEF DownInv, InitWhenInactive, MutexProtectsLifecycle, BootIsQuiet, Locked
<1>b. Wakers = {"report"}
  BY DEF Wakers
<1> USE <1>a, <1>b
<1> USE KnownTasks DEF TypeOK, Goto, bridge
<1>1. CASE Boot \/ BootFails \/ Reset \/ UNCHANGED vars
  BY <1>1 DEF Boot, BootFails, Reset, vars
<1>2. CASE /\ power = "on"
           /\ ReportArrives \/ ReportForwarded \/ \E t \in InputTasks : InputArrives(t)
  BY <1>2, WakersAreTasks DEF ReportArrives, ReportForwarded, InputArrives, Wakers
<1>3. CASE power = "on" /\ \E t \in Wakers : WakeStep(t)
  BY <1>3, WakersAreTasks DEF WakeStep, WakeTake, WakeTimeout, WakeInit, BeginInit
<1>4. CASE power = "on" /\ TimerStep
  <2>1. CASE InactivityFires \/ InactivityTake \/ InactivityStaysAwake \/ InactivityDeepSleeps
    BY <1>4, <2>1 DEF InactivityFires, InactivityTake, InactivityStaysAwake,
       InactivityDeepSleeps
  <2>2. CASE PauseBegins \/ PauseEnds \/ DeepTimerFires \/ DeepTimerTake \/ TimerTakeTimeout
    BY <1>4, <2>2 DEF PauseBegins, PauseEnds, DeepTimerFires, DeepTimerTake,
       TimerTakeTimeout, BeginDeinit
  <2>3. CASE BridgeDeinit \/ DeinitTimeout \/ DeinitTake
    BY <1>4, <2>3 DEF BridgeDeinit, DeinitTimeout, DeinitTake, BeginDeinit
  <2>4. CASE DeinitBle \/ DeinitUsb \/ DeepSleep("timer")
    BY <1>4, <2>4 DEF DeinitBle, DeinitUsb, DeepSleep
  <2> QED
    BY <1>4, <2>1, <2>2, <2>3, <2>4 DEF TimerStep
<1>5. CASE power = "on" /\ (MainTick \/ BatteryDead)
  BY <1>5 DEF MainTick, BatteryDead, BeginDeinit
<1>6. CASE /\ power = "on"
           /\ BtStep \/ HostLeaves \/ UsbDeviceStarted \/ PsuChanges \/ WifiChanges
  BY <1>6 DEF BtStep, ServiceCreated, HostConnects, HostConnected, HostLeaves,
     UsbDeviceStarted, PsuChanges, WifiChanges
<1>7. CASE power = "on" /\ \E t \in {"main", "vmon"} : SleeperStep(t)
  BY <1>7 DEF SleeperStep, Teardown, DeepSleep
<1> QED
  BY <1>1, <1>2, <1>3, <1>4, <1>5, <1>6, <1>7 DEF Next, Running, EnvStep

LEMMA DownWhenInactiveNext ==
  ASSUME InputTasks = {}, FailingInit = {}, TypeOK, DownInv, [Next]_vars
  PROVE  DownWhenInactive'
<1> SUFFICES ASSUME ~active', pc'["timer"] # "deinitBle" PROVE up' = {}
  BY DEF DownWhenInactive
<1>a. /\ up \in SUBSET Parts /\ service \in BOOLEAN
      /\ ~active /\ pc["timer"] # "deinitBle" => up = {}
      /\ pc["report"] = "init" => mutex = "report" /\ ~active
      /\ pc["timer"] = "deinitBle" => mutex = "timer"
      /\ power = "boot" => active
  BY KnownTasks DEF TypeOK, StackTypes, BootIsQuiet, DownInv, DownWhenInactive,
     InitWhenInactive,
     MutexProtectsLifecycle, Locked
<1>b. Wakers = {"report"}
  BY DEF Wakers
<1> USE <1>a, <1>b
<1> USE KnownTasks DEF TypeOK, Goto, bridge, stack
<1>1. CASE Boot \/ BootFails \/ Reset \/ UNCHANGED vars
  BY <1>1, InitOkMeansUp DEF Boot, BootFails, Reset, vars
<1>2. CASE /\ power = "on"
           /\ ReportArrives \/ ReportForwarded \/ \E t \in InputTasks : InputArrives(t)
  BY <1>2, WakersAreTasks DEF ReportArrives, ReportForwarded, InputArrives, Wakers
<1>3. CASE power = "on" /\ \E t \in Wakers : WakeStep(t)
  <2>1. CASE WakeTake("report") \/ WakeTimeout("report")
    BY <1>3, <2>1 DEF WakeTake, WakeTimeout
  <2>2. CASE WakeInit("report")
    <3>1. up = {}
      BY <2>2 DEF WakeInit
    <3>2. active'
      BY <2>2, <3>1, InitFromNothing DEF WakeInit
    <3> QED
      BY <3>2
  <2> QED
    BY <1>3, <2>1, <2>2 DEF WakeStep
<1>4. CASE power = "on" /\ TimerStep
  <2>1. CASE InactivityFires \/ InactivityTake \/ InactivityStaysAwake \/ InactivityDeepSleeps
    BY <1>4, <2>1 DEF InactivityFires, InactivityTake, InactivityStaysAwake,
       InactivityDeepSleeps
  <2>2. CASE PauseBegins \/ PauseEnds \/ DeepTimerFires \/ DeepTimerTake \/ TimerTakeTimeout
    BY <1>4, <2>2, DeinitOkMeansDown DEF PauseBegins, PauseEnds, DeepTimerFires, DeepTimerTake,
       TimerTakeTimeout, BeginDeinit, EndDeinit
  <2>3. CASE BridgeDeinit \/ DeinitTimeout \/ DeinitTake
    BY <1>4, <2>3 DEF BridgeDeinit, DeinitTimeout, DeinitTake, BeginDeinit
  <2>4. CASE DeinitBle \/ DeinitUsb \/ DeepSleep("timer")
    BY <1>4, <2>4, DeinitOkMeansDown DEF DeinitBle, DeinitUsb, DeepSleep, EndDeinit
  <2> QED
    BY <1>4, <2>1, <2>2, <2>3, <2>4 DEF TimerStep
<1>5. CASE power = "on" /\ (MainTick \/ BatteryDead)
  BY <1>5 DEF MainTick, BatteryDead, BeginDeinit
<1>6. CASE /\ power = "on"
           /\ BtStep \/ HostLeaves \/ UsbDeviceStarted \/ PsuChanges \/ WifiChanges
  BY <1>6 DEF BtStep, ServiceCreated, HostConnects, HostConnected, HostLeaves,
     UsbDeviceStarted, PsuChanges, WifiChanges
<1>7. CASE power = "on" /\ \E t \in {"main", "vmon"} : SleeperStep(t)
  BY <1>7, DeinitOnlyTakesDown DEF SleeperStep, Teardown, DeepSleep, EndDeinit
<1> QED
  BY <1>1, <1>2, <1>3, <1>4, <1>5, <1>6, <1>7 DEF Next, Running, EnvStep

\* With no other waker and no failing initialisation, ble_hid_device_init is
\* never entered with part of the stack up: the assertion in it cannot fail.
THEOREM ReportInitsOnlyWhenDown ==
  ASSUME InputTasks = {}, FailingInit = {}
  PROVE  Spec => []InitOnlyWhenDown
<1>1. Init => DownInv
  BY KnownTasks DEF Init, DownInv, MutexProtectsLifecycle, Locked, BootIsQuiet,
     DownWhenInactive, InitWhenInactive
<1>2. TypeOK /\ DownInv /\ [Next]_vars => DownInv'
  BY ExclusionNext, BootIsQuietNext, InitWhenInactiveNext, DownWhenInactiveNext DEF DownInv
<1>3. DownInv => InitOnlyWhenDown
  BY KnownTasks DEF DownInv, DownWhenInactive, InitWhenInactive, MutexProtectsLifecycle,
     Locked, InitOnlyWhenDown, Wakers
<1> QED
  BY TypeCorrect, <1>1, <1>2, <1>3, PTL DEF Spec

-----------------------------------------------------------------------------
(* The bridge implements the switch.                                       *)

\* The inactivity callback has seen the flag, and nobody clears it meanwhile.
CheckedIsActive == pc["timer"] = "inactCheck" => active

\* No task has begun anything before the boot.
BootIsIdle == power = "boot" => pc = [t \in Tasks |-> "idle"]

SwitchInv ==
  DownInv /\ PauseIsDeaf /\ InitHears /\ AwakeMeansUp /\ CheckedIsActive /\ BootIsIdle

LEMMA CheckedIsActiveNext ==
  TypeOK /\ MutexProtectsLifecycle /\ CheckedIsActive /\ [Next]_vars => CheckedIsActive'
<1> SUFFICES ASSUME TypeOK, MutexProtectsLifecycle, CheckedIsActive, [Next]_vars,
                    pc'["timer"] = "inactCheck"
             PROVE  active'
  BY DEF CheckedIsActive
<1>a. /\ pc["timer"] = "inactCheck" => mutex = "timer" /\ active
      /\ \A t \in Wakers : pc[t] = "init" => mutex = t
  BY KnownTasks, WakersAreTasks DEF CheckedIsActive, MutexProtectsLifecycle, Locked
<1> USE <1>a
<1> USE KnownTasks DEF TypeOK, Goto, bridge
<1>1. CASE Boot \/ BootFails \/ Reset \/ UNCHANGED vars
  BY <1>1 DEF Boot, BootFails, Reset, vars
<1>2. CASE ReportArrives \/ ReportForwarded \/ \E t \in InputTasks : InputArrives(t)
  BY <1>2, WakersAreTasks DEF ReportArrives, ReportForwarded, InputArrives, Wakers
<1>3. CASE \E t \in Wakers : WakeStep(t)
  BY <1>3, WakersAreTasks DEF WakeStep, WakeTake, WakeTimeout, WakeInit
<1>4. CASE TimerStep
  <2>1. CASE InactivityFires \/ InactivityTake \/ InactivityStaysAwake \/ InactivityDeepSleeps
    BY <2>1 DEF InactivityFires, InactivityTake, InactivityStaysAwake, InactivityDeepSleeps
  <2>2. CASE PauseBegins \/ PauseEnds \/ DeepTimerFires \/ DeepTimerTake \/ TimerTakeTimeout
    BY <2>2 DEF PauseBegins, PauseEnds, DeepTimerFires, DeepTimerTake, TimerTakeTimeout
  <2>3. CASE BridgeDeinit \/ DeinitTimeout \/ DeinitTake
    BY <2>3 DEF BridgeDeinit, DeinitTimeout, DeinitTake
  <2>4. CASE DeinitBle \/ DeinitUsb \/ DeepSleep("timer")
    BY <2>4 DEF DeinitBle, DeinitUsb, DeepSleep
  <2> QED
    BY <1>4, <2>1, <2>2, <2>3, <2>4 DEF TimerStep
<1>5. CASE MainTick \/ BtStep \/ EnvStep
  BY <1>5 DEF MainTick, BtStep, ServiceCreated, HostConnects, HostConnected,
     EnvStep, HostLeaves, UsbDeviceStarted, PsuChanges, WifiChanges, BatteryDead
<1>6. CASE \E t \in {"main", "vmon"} : SleeperStep(t)
  BY <1>6 DEF SleeperStep, Teardown, DeepSleep
<1> QED
  BY <1>1, <1>2, <1>3, <1>4, <1>5, <1>6 DEF Next, Running

\* A running device changes its power only to leave.
LEMMA RunningLeaves == power = "on" /\ Running => power' \in {"on", "panic", "asleep"}
<1> SUFFICES ASSUME power = "on", Running PROVE power' \in {"on", "panic", "asleep"}
  OBVIOUS
<1>1. CASE TimerStep
  BY <1>1 DEF TimerStep, InactivityFires, TimerTakeTimeout, InactivityTake,
     InactivityStaysAwake, InactivityDeepSleeps, PauseBegins, PauseEnds,
     DeepTimerFires, DeepTimerTake, BridgeDeinit, DeinitTimeout, DeinitTake,
     DeinitBle, DeinitUsb, DeepSleep, BeginDeinit
<1>2. CASE MainTick \/ BtStep \/ EnvStep
  BY <1>2 DEF MainTick, BtStep, ServiceCreated, HostConnects, HostConnected, BeginDeinit,
     EnvStep, HostLeaves, UsbDeviceStarted, PsuChanges, WifiChanges, BatteryDead
<1>3. CASE ReportArrives \/ ReportForwarded \/ \E t \in InputTasks : InputArrives(t)
  BY <1>3 DEF ReportArrives, ReportForwarded, InputArrives, ResetTimers
<1>4. CASE \E t \in Wakers : WakeStep(t)
  BY <1>4 DEF WakeStep, WakeTake, WakeTimeout, WakeInit
<1>5. CASE \E t \in {"main", "vmon"} : SleeperStep(t)
  BY <1>5 DEF SleeperStep, Teardown, DeepSleep
<1> QED
  BY <1>1, <1>2, <1>3, <1>4, <1>5 DEF Running

LEMMA BootIsIdleNext == BootIsIdle /\ [Next]_vars => BootIsIdle'
<1> SUFFICES ASSUME BootIsIdle, [Next]_vars, power' = "boot"
             PROVE  pc' = [t \in Tasks |-> "idle"]
  BY DEF BootIsIdle
<1>1. CASE Reset
  BY <1>1 DEF Reset
<1>2. CASE UNCHANGED vars
  BY <1>2 DEF vars, BootIsIdle
<1>3. CASE Boot \/ BootFails
  BY <1>3 DEF Boot, BootFails
<1>4. CASE Running
  BY <1>4, RunningLeaves DEF Running
<1> QED
  BY <1>1, <1>2, <1>3, <1>4 DEF Next

\* What the mode is made of, once the device is on and means to stay on.
LEMMA ModeOfRunning ==
  ASSUME InputTasks = {}, power = "on", ~GoingToSleep, initialized
  PROVE  SwitchMode = IF pc["timer"] = "pause" THEN "pausing"
                      ELSE IF pc["report"] = "init" THEN "waking"
                      ELSE IF active /\ gEnabled /\ up = Parts THEN "on"
                      ELSE IF ~active /\ up = {} THEN "paused"
                      ELSE "stuck"
<1>1. Wakers = {"report"}
  BY DEF Wakers
<1> QED
  BY <1>1 DEF SwitchMode

\* Only the four steps of a pause and of a wake-up change what the mode is made of.
SwitchUnmoved ==
  /\ active' = active /\ gEnabled' = gEnabled /\ up' = up
  /\ pc'["timer"] = "pause" <=> pc["timer"] = "pause"
  /\ pc'["report"] = "init" <=> pc["report"] = "init"

LEMMA OtherStepsKeepMode ==
  ASSUME InputTasks = {}, TypeOK, power = "on", Running, ~GoingToSleep, ~GoingToSleep'
  PROVE  SwitchUnmoved \/ PauseBegins \/ PauseEnds \/ WakeInit("report")
         \/ (WakeTake("report") /\ ~active)
<1>b. Wakers = {"report"}
  BY DEF Wakers
<1> USE <1>b, KnownTasks, TasksAssumption DEF TypeOK, Goto, bridge, ble, stack, SwitchUnmoved
<1>1. CASE TimerStep
  <2>1. CASE InactivityFires \/ InactivityTake \/ InactivityStaysAwake \/ InactivityDeepSleeps
    BY <2>1 DEF InactivityFires, InactivityTake, InactivityStaysAwake, InactivityDeepSleeps
  <2>2. CASE DeepTimerFires \/ DeepTimerTake \/ TimerTakeTimeout
    BY <2>2 DEF DeepTimerFires, DeepTimerTake, TimerTakeTimeout
  <2>3. CASE BridgeDeinit \/ DeinitTimeout \/ DeinitTake
    BY <2>3 DEF BridgeDeinit, DeinitTimeout, DeinitTake, GoingToSleep
  <2>4. CASE DeinitBle \/ DeinitUsb \/ DeepSleep("timer")
    BY <2>4 DEF DeinitBle, DeinitUsb, DeepSleep, GoingToSleep
  <2> QED
    BY <1>1, <2>1, <2>2, <2>3, <2>4 DEF TimerStep
<1>2. CASE MainTick \/ BatteryDead
  BY <1>2 DEF MainTick, BatteryDead, GoingToSleep
<1>3. CASE BtStep \/ HostLeaves \/ UsbDeviceStarted \/ PsuChanges \/ WifiChanges
  BY <1>3 DEF BtStep, ServiceCreated, HostConnects, HostConnected, HostLeaves,
     UsbDeviceStarted, PsuChanges, WifiChanges
<1>4. CASE ReportArrives \/ ReportForwarded
  BY <1>4 DEF ReportArrives, ReportForwarded
<1>5. CASE WakeStep("report")
  BY <1>5 DEF WakeStep, WakeTake, WakeTimeout
<1>6. CASE \E t \in {"main", "vmon"} : SleeperStep(t)
  BY <1>6 DEF SleeperStep, Teardown, DeepSleep, GoingToSleep
<1> QED
  BY <1>1, <1>2, <1>3, <1>4, <1>5, <1>6 DEF Running, EnvStep

\* Whether the bridge is initialised changes only on the way out.
LEMMA StaysInitialized ==
  ASSUME TypeOK, power = "on", Running, ~GoingToSleep
  PROVE  initialized' = initialized
<1> USE KnownTasks DEF TypeOK, bridge
<1>1. CASE TimerStep
  BY <1>1 DEF TimerStep, InactivityFires, TimerTakeTimeout, InactivityTake,
     InactivityStaysAwake, InactivityDeepSleeps, PauseBegins, PauseEnds,
     DeepTimerFires, DeepTimerTake, BridgeDeinit, DeinitTimeout, DeinitTake,
     DeinitBle, DeinitUsb, DeepSleep, GoingToSleep
<1>2. CASE MainTick \/ BtStep \/ EnvStep
  BY <1>2 DEF MainTick, BtStep, ServiceCreated, HostConnects, HostConnected,
     EnvStep, HostLeaves, UsbDeviceStarted, PsuChanges, WifiChanges, BatteryDead
<1>3. CASE ReportArrives \/ ReportForwarded \/ \E t \in InputTasks : InputArrives(t)
  BY <1>3 DEF ReportArrives, ReportForwarded, InputArrives
<1>4. CASE \E t \in Wakers : WakeStep(t)
  BY <1>4 DEF WakeStep, WakeTake, WakeTimeout, WakeInit
<1>5. CASE \E t \in {"main", "vmon"} : SleeperStep(t)
  BY <1>5 DEF SleeperStep, Teardown, DeepSleep
<1> QED
  BY <1>1, <1>2, <1>3, <1>4, <1>5 DEF Running

\* A step of a bridge that stays on is a move of the switch, or none.
LEMMA RunningMoves ==
  ASSUME InputTasks = {}, FailingInit = {}, TypeOK, SwitchInv, SwitchInv',
         power = "on", Running, power' = "on", ~GoingToSleep, ~GoingToSleep', initialized
  PROVE  SwitchMode' = SwitchMode \/ << SwitchMode, SwitchMode' >> \in Switch!Moves
<1>0. initialized'
  BY StaysInitialized
<1>1. SwitchMode = IF pc["timer"] = "pause" THEN "pausing"
                   ELSE IF pc["report"] = "init" THEN "waking"
                   ELSE IF active /\ gEnabled /\ up = Parts THEN "on"
                   ELSE IF ~active /\ up = {} THEN "paused"
                   ELSE "stuck"
  BY ModeOfRunning
<1>2. SwitchMode' = IF pc'["timer"] = "pause" THEN "pausing"
                    ELSE IF pc'["report"] = "init" THEN "waking"
                    ELSE IF active' /\ gEnabled' /\ up' = Parts THEN "on"
                    ELSE IF ~active' /\ up' = {} THEN "paused"
                    ELSE "stuck"
  <2>1. Wakers = {"report"}
    BY DEF Wakers
  <2> QED
    BY <1>0, <2>1 DEF SwitchMode
<1>3. /\ pc["timer"] \in {"inactCheck", "pause"} => mutex = "timer"
      /\ pc["report"] = "init" => mutex = "report"
  BY KnownTasks DEF SwitchInv, DownInv, MutexProtectsLifecycle, Locked
<1>4. "timer" # "report" /\ "timer" # "free" /\ "report" # "free"
  OBVIOUS
<1>5. CASE SwitchUnmoved
  BY <1>1, <1>2, <1>5 DEF SwitchUnmoved
<1>6. CASE PauseBegins
  <2>1. pc["timer"] = "inactCheck" /\ mutex = "timer" /\ pc["report"] # "init"
    BY <1>3, <1>4, <1>6 DEF PauseBegins
  <2>2. active /\ up = Parts /\ gEnabled
    BY <2>1 DEF SwitchInv, CheckedIsActive, AwakeMeansUp
  <2>3. SwitchMode = "on"
    BY <1>1, <2>1, <2>2
  <2>4. pc'["timer"] = "pause"
    BY <1>6, KnownTasks DEF PauseBegins, Goto, TypeOK
  <2>5. SwitchMode' = "pausing"
    BY <1>2, <2>4
  <2> QED
    BY <2>3, <2>5 DEF Switch!Moves
<1>7. CASE PauseEnds
  <2>1. pc["timer"] = "pause" /\ pc["report"] # "init" /\ ~gEnabled
    BY <1>3, <1>4, <1>7 DEF PauseEnds, SwitchInv, PauseIsDeaf
  <2>2. pc'["timer"] = "idle" /\ pc'["report"] = pc["report"] /\ gEnabled' = gEnabled
    BY <1>7, KnownTasks DEF PauseEnds, Goto, TypeOK, ble
  <2>3. SwitchMode = "pausing" /\ SwitchMode' \in {"paused", "stuck"}
    BY <1>1, <1>2, <2>1, <2>2
  <2> QED
    BY <2>3 DEF Switch!Moves
<1>8. CASE WakeInit("report")
  <2>1. pc["report"] = "init" /\ pc["timer"] # "pause"
    BY <1>3, <1>4, <1>8 DEF WakeInit
  <2>2. up = {}
    BY <1>3, <1>4, <2>1, KnownTasks
       DEF SwitchInv, DownInv, InitWhenInactive, DownWhenInactive, MutexProtectsLifecycle, Locked
  <2>3. gEnabled
    BY <2>1 DEF SwitchInv, InitHears, Wakers
  <2>4. PICK o \in InitOutcomes(up) : up' = o.up /\ active' = (o.ret = "ok")
    BY <1>8 DEF WakeInit
  <2>5. o.ret = "ok"
    BY <2>2, <2>4, InitFromNothing
  <2>6. up' = Parts
    BY <2>2, <2>4, <2>5, InitOkMeansUp
  <2>7. active' /\ gEnabled' /\ pc'["timer"] = pc["timer"] /\ pc'["report"] = "idle"
    BY <1>8, <2>3, <2>4, <2>5, KnownTasks DEF WakeInit, Goto, TypeOK
  <2>8. SwitchMode = "waking" /\ SwitchMode' = "on"
    BY <1>1, <1>2, <2>1, <2>6, <2>7
  <2> QED
    BY <2>8 DEF Switch!Moves
<1>9. CASE WakeTake("report") /\ ~active
  <2>1. mutex = "free" /\ pc["timer"] # "pause" /\ pc["report"] = "take"
    BY <1>3, <1>4, <1>9 DEF WakeTake
  <2>2. pc'["timer"] = pc["timer"] /\ pc'["report"] = "init"
    BY <1>9, KnownTasks DEF WakeTake, Goto, TypeOK
  <2>3. SwitchMode \in {"paused", "stuck"} /\ SwitchMode' = "waking"
    BY <1>1, <1>2, <1>9, <2>1, <2>2
  <2> QED
    BY <2>3 DEF Switch!Moves
<1> QED
  BY OtherStepsKeepMode, <1>5, <1>6, <1>7, <1>8, <1>9

LEMMA SwitchMoves ==
  ASSUME InputTasks = {}, FailingInit = {}, TypeOK, SwitchInv, SwitchInv', [Next]_vars
  PROVE  [Switch!SwitchNext]_SwitchMode
<1> SUFFICES \/ SwitchMode' = SwitchMode \/ << SwitchMode, SwitchMode' >> \in Switch!Moves
             \/ SwitchMode # "off" /\ SwitchMode' = "leaving"
  BY DEF Switch!SwitchNext
<1>1. CASE Boot
  <2>1. pc' = [t \in Tasks |-> "idle"]
    BY <1>1 DEF Boot, SwitchInv, BootIsIdle
  <2>2. up' = Parts
    BY <1>1, InitOkMeansUp DEF Boot, TypeOK, StackTypes
  <2>3. ~GoingToSleep' /\ pc'["timer"] = "idle" /\ \A t \in Wakers : pc'[t] # "init"
    BY <2>1, KnownTasks, WakersAreTasks DEF GoingToSleep
  <2>4. power = "boot" /\ power' = "on" /\ initialized' /\ active' /\ gEnabled'
    BY <1>1 DEF Boot
  <2>5. SwitchMode = "off" /\ SwitchMode' = "on"
    BY <2>2, <2>3, <2>4 DEF SwitchMode
  <2> QED
    BY <2>5 DEF Switch!Moves
<1>2. CASE BootFails
  <2>0. pc' = [t \in Tasks |-> "idle"] /\ ~initialized
    BY <1>2 DEF BootFails, SwitchInv, DownInv, BootIsIdle, BootIsQuiet
  <2>1. ~GoingToSleep'
    BY <2>0, KnownTasks DEF GoingToSleep
  <2>2. ~GoingToSleep' /\ power = "boot" /\ power' = "on" /\ ~initialized'
    BY <1>2, <2>0, <2>1 DEF BootFails, bridge
  <2>3. SwitchMode = "off" /\ SwitchMode' = "failed"
    BY <2>2 DEF SwitchMode
  <2> QED
    BY <2>3 DEF Switch!Moves
<1>3. CASE Reset
  <2>1. SwitchMode = "leaving" /\ SwitchMode' = "off"
    BY <1>3 DEF Reset, SwitchMode
  <2> QED
    BY <2>1 DEF Switch!Moves
<1>4. CASE UNCHANGED vars
  BY <1>4 DEF vars, bridge, stack, ble, SwitchMode, GoingToSleep
<1>5. CASE Running
  <2>0. power = "on"
    BY <1>5 DEF Running
  <2>1. SwitchMode # "off"
    BY <2>0 DEF SwitchMode
  <2>2. CASE power' # "on" \/ GoingToSleep'
    <3>1. SwitchMode' = "leaving"
      BY <1>5, <2>0, <2>2, RunningLeaves DEF SwitchMode
    <3> QED
      BY <2>1, <3>1
  <2>3. CASE power' = "on" /\ ~GoingToSleep'
    <3>1. ~GoingToSleep
      BY <2>3, SleepIsCommitted
    <3>2. CASE initialized
      BY <1>5, <2>0, <2>3, <3>1, <3>2, RunningMoves
    <3>3. CASE ~initialized
      <4>1. ~initialized'
        BY <1>5, <2>0, <3>1, <3>3, StaysInitialized
      <4>2. SwitchMode = "failed" /\ SwitchMode' = "failed"
        BY <2>0, <2>3, <3>1, <3>3, <4>1 DEF SwitchMode
      <4> QED
        BY <4>2
    <3> QED
      BY <3>2, <3>3
  <2> QED
    BY <2>2, <2>3
<1> QED
  BY <1>1, <1>2, <1>3, <1>4, <1>5 DEF Next

\* With USB reports as the only wake-up source, and initialisations that do not fail,
\* the bridge with all its tasks, timers and locks is an on/off switch.
THEOREM BridgeIsASwitch ==
  ASSUME InputTasks = {}, FailingInit = {}
  PROVE  Spec => ImplementsSwitch
<1>1. Init => SwitchInv
  BY KnownTasks, WakersAreTasks DEF Init, SwitchInv, DownInv, MutexProtectsLifecycle, Locked,
     BootIsQuiet, DownWhenInactive, InitWhenInactive, PauseIsDeaf, InitHears, AwakeMeansUp,
     CheckedIsActive, BootIsIdle
<1>2. TypeOK /\ SwitchInv /\ [Next]_vars => SwitchInv'
  BY ExclusionNext, BootIsQuietNext, InitWhenInactiveNext, DownWhenInactiveNext,
     PauseIsDeafNext, InitHearsNext, AwakeMeansUpNext, CheckedIsActiveNext,
     BootIsIdleNext DEF SwitchInv, DownInv
<1>3. TypeOK /\ SwitchInv /\ SwitchInv' /\ [Next]_vars => [Switch!SwitchNext]_SwitchMode
  BY SwitchMoves
<1>4. Init => Switch!SwitchInit
  BY DEF Init, Switch!SwitchInit, SwitchMode
<1> QED
  BY TypeCorrect, <1>1, <1>2, <1>3, <1>4, PTL DEF Spec, ImplementsSwitch, Switch!SwitchSpec
-----------------------------------------------------------------------------
(* Panics and the no-sleep mode.                                           *)

\* Whatever calls fail and whatever the number of tasks, no step of a settled bridge
\* with an active stack ends in a panic: neither xTimerReset on a deleted timer, nor
\* the second vTaskDelete of the statistics task, nor an assertion of the stack.
THEOREM AwakeNeverPanics == Spec => [][Settled /\ active => power' # "panic"]_vars
<1>1. ASSUME TypeOK, MutexProtectsLifecycle, TimersDeletedOnlyForSleep, ActiveMeansUp,
             Settled, active, [Next]_vars, power' = "panic"
      PROVE  FALSE
  <2>1. power = "on" /\ mutex = "free" /\ stats = "live" /\ ~GoingToSleep
    BY <1>1 DEF Settled, ActiveMeansUp
  <2>2. \A t \in Tasks : pc[t] \notin Locked
    <3>1. "free" \notin Tasks
      BY TasksAssumption DEF Tasks
    <3> QED
      BY <1>1, <2>1, <3>1 DEF MutexProtectsLifecycle
  <2>3. "none" \notin {inactivity, deepTimer}
    BY <1>1, <2>1 DEF TimersDeletedOnlyForSleep, Settled
  <2>4. CASE Boot \/ BootFails \/ Reset \/ UNCHANGED vars
    BY <1>1, <2>1, <2>4 DEF Boot, BootFails, Reset, vars
  <2>5. CASE ReportArrives \/ ReportForwarded \/ \E t \in InputTasks : InputArrives(t)
    BY <1>1, <2>1, <2>3, <2>5 DEF ReportArrives, ReportForwarded, InputArrives, ResetTimers
  <2>6. CASE \E t \in Wakers : WakeStep(t)
    BY <1>1, <2>1, <2>2, <2>6, WakersAreTasks DEF WakeStep, WakeTake, WakeTimeout, WakeInit, Locked
  <2>7. CASE TimerStep
    <3>1. CASE \/ InactivityFires \/ InactivityTake \/ InactivityStaysAwake
               \/ InactivityDeepSleeps \/ PauseEnds \/ DeepTimerFires \/ DeepTimerTake
               \/ TimerTakeTimeout \/ BridgeDeinit \/ DeinitTimeout \/ DeinitBle
      BY <1>1, <2>1, <3>1 DEF InactivityFires, InactivityTake, InactivityStaysAwake,
         InactivityDeepSleeps, PauseEnds, DeepTimerFires, DeepTimerTake, TimerTakeTimeout,
         BridgeDeinit, DeinitTimeout, DeinitBle
    <3>2. CASE PauseBegins
      BY <1>1, <2>1, <3>2 DEF PauseBegins, BeginDeinit
    <3>3. CASE DeinitTake \/ DeinitUsb \/ DeepSleep("timer")
      BY <2>1, <3>3, KnownTasks DEF DeinitTake, DeinitUsb, DeepSleep, GoingToSleep
    <3> QED
      BY <2>7, <3>1, <3>2, <3>3 DEF TimerStep
  <2>8. CASE MainTick \/ BatteryDead
    BY <1>1, <2>1, <2>8 DEF MainTick, BatteryDead, BeginDeinit
  <2>9. CASE BtStep \/ HostLeaves \/ UsbDeviceStarted \/ PsuChanges \/ WifiChanges
    BY <1>1, <2>1, <2>9 DEF BtStep, ServiceCreated, HostConnects, HostConnected, HostLeaves,
       UsbDeviceStarted, PsuChanges, WifiChanges
  <2>10. CASE \E t \in {"main", "vmon"} : SleeperStep(t)
    BY <1>1, <2>1, <2>10 DEF SleeperStep, Teardown, DeepSleep
  <2> QED
    BY <1>1, <2>4, <2>5, <2>6, <2>7, <2>8, <2>9, <2>10 DEF Next, Running, EnvStep
<1>2. TypeOK /\ MutexProtectsLifecycle /\ TimersDeletedOnlyForSleep /\ ActiveMeansUp /\ [Next]_vars
      => [Settled /\ active => power' # "panic"]_vars
  BY <1>1
<1> QED
  BY <1>2, TypeCorrect, MutualExclusion, TimersLastUntilSleep, ActiveFlagIsTrue, PTL DEF Spec

\* In the no-sleep mode of SW2 the timers' callbacks go as far as deep sleep in one
\* way only: the deep sleep timer's, with deep sleep and both sleeps enabled.
AwakeAsSet ==
  cfg.neverSleep =>
    /\ pc["timer"] # "pause"
    /\ pc["timer"] = "bridgeDeinit" => EnableDeepSleep

LEMMA AwakeAsSetNext == TypeOK /\ AwakeAsSet /\ [Next]_vars => AwakeAsSet'
<1> SUFFICES ASSUME TypeOK, AwakeAsSet, [Next]_vars, cfg'.neverSleep
             PROVE  /\ pc'["timer"] # "pause"
                    /\ pc'["timer"] = "bridgeDeinit" => EnableDeepSleep'
  BY DEF AwakeAsSet
<1> USE KnownTasks DEF TypeOK, Goto
<1>1. CASE Reset
  BY <1>1 DEF Reset
<1>2. CASE ~Reset
  <2>1. cfg' = cfg
    BY <1>2 DEF Next, Boot, BootFails, Running, TimerStep, InactivityFires, InactivityTake,
       InactivityStaysAwake, InactivityDeepSleeps, PauseBegins, PauseEnds, DeepTimerFires,
       DeepTimerTake, TimerTakeTimeout, BridgeDeinit, DeinitTimeout, DeinitTake, DeinitBle,
       DeinitUsb, MainTick, BtStep, ServiceCreated, HostConnects, HostConnected, EnvStep,
       HostLeaves, UsbDeviceStarted, PsuChanges, WifiChanges, BatteryDead, ReportArrives,
       ReportForwarded, InputArrives, WakeStep, WakeTake, WakeTimeout, WakeInit, SleeperStep,
       Teardown, DeepSleep, vars
  <2>2. EnableDeepSleep' <=> EnableDeepSleep
    BY <2>1 DEF EnableDeepSleep
  <2>3. /\ pc["timer"] # "pause"
        /\ pc["timer"] = "bridgeDeinit" => EnableDeepSleep
    BY <2>1 DEF AwakeAsSet
  <2>4. CASE TimerStep
    BY <2>1, <2>2, <2>3, <2>4 DEF TimerStep, InactivityFires, InactivityTake,
       InactivityStaysAwake, InactivityDeepSleeps, PauseBegins, PauseEnds, DeepTimerFires,
       DeepTimerTake, TimerTakeTimeout, BridgeDeinit, DeinitTimeout, DeinitTake, DeinitBle,
       DeinitUsb, DeepSleep, KeepAwake
  <2>5. CASE ~TimerStep
    <3>1. pc'["timer"] \in {pc["timer"], "idle"}
      BY <1>2, <2>5, WakersAreTasks, TasksAssumption DEF Next, Boot, BootFails, Running,
         MainTick, BtStep, ServiceCreated, HostConnects, HostConnected, EnvStep, HostLeaves,
         UsbDeviceStarted, PsuChanges, WifiChanges, BatteryDead, ReportArrives,
         ReportForwarded, InputArrives, WakeStep, WakeTake, WakeTimeout, WakeInit,
         SleeperStep, Teardown, DeepSleep, vars, Wakers
    <3> QED
      BY <2>2, <2>3, <3>1
  <2> QED
    BY <2>4, <2>5
<1> QED
  BY <1>1, <1>2

THEOREM NoSleepModeAsFarAsItGoes == Spec => []AwakeAsSet
<1>1. Init => AwakeAsSet
  BY KnownTasks DEF Init, AwakeAsSet
<1> QED
  BY TypeCorrect, <1>1, AwakeAsSetNext, PTL DEF Spec

\* A device on which nobody has both sleeps and deep sleep enabled keeps what holding
\* SW2 at boot promises.
THEOREM NoSleepModeHoldsWithoutDeepSleep ==
  ASSUME \A s \in Settings : s.neverSleep => ~(s.deepSleep /\ s.twoSleeps)
  PROVE  Spec => []NoSleepModeHolds
<1>1. TypeOK /\ AwakeAsSet => NoSleepModeHolds
  BY DEF TypeOK, BridgeTypes, AwakeAsSet, EnableDeepSleep, NoSleepModeHolds
<1> QED
  BY <1>1, TypeCorrect, NoSleepModeAsFarAsItGoes, PTL
=============================================================================

------------------------------ MODULE HidBridge -----------------------------
(***************************************************************************)
(* The core of the adapter: main/hid_bridge.c with the part of             *)
(* main/ble/ble_hid_device.c it drives, and the two other places that put  *)
(* the device to sleep (the main loop of main/main.c and the dead-battery  *)
(* branch of main/utils/vmon.c).                                           *)
(*                                                                         *)
(* FreeRTOS tasks interleave: the timer daemon runs the two sleep timers'  *)
(* callbacks, the USB HID task runs hid_bridge_process_report, the buttons *)
(* and encoder tasks run the input callbacks, the Bluedroid task ("bt")    *)
(* runs hidd_event_callback.  pc[t] says where task t stands between two   *)
(* points at which another task can change what it relies on.              *)
(***************************************************************************)
EXTENDS BleStack, FiniteSets

CONSTANTS InputTasks,      \* tasks that run input callbacks (buttons, encoder)
          Settings,        \* the power settings a boot may find
          EnvEvents,       \* the events of the surroundings that may happen
          SleepThreshold   \* main-loop ticks without any device before sleep

ASSUME TasksAssumption ==
  InputTasks \cap {"timer", "report", "main", "vmon", "bt", "free"} = {}
ASSUME SettingsAssumption ==
  Settings \subseteq [enableSleep : BOOLEAN, deepSleep : BOOLEAN,
                      twoSleeps : BOOLEAN, neverSleep : BOOLEAN]
ASSUME EnvAssumption ==
  EnvEvents \subseteq {"psu", "wifi", "hostLeaves", "batteryDead"}
ASSUME ThresholdAssumption == SleepThreshold \in Nat \ {0}

Tasks == InputTasks \cup {"timer", "report", "main", "vmon", "bt"}

VARIABLES
  power,        \* "boot", "on", "asleep" (deep sleep) or "panic"
  cfg,          \* the settings hid_bridge_init read, with s_never_sleep
  initialized,  \* s_hid_bridge_initialized
  running,      \* s_hid_bridge_running
  active,       \* s_ble_stack_active
  mutex,        \* owner of s_ble_stack_mutex, or "free"
  inactivity,   \* s_inactivity_timer: "none" (NULL), "dormant" or "armed"
  deepTimer,    \* s_deep_sleep_timer, likewise
  up,           \* the parts of the Bluetooth stack that are up
  service,      \* the HID service has a handle in hidd_le_env
  gEnabled,     \* g_enabled
  connected,    \* s_connected
  battery,      \* s_battery_timer: "none", "stopped" or "running"
  stats,        \* s_stats_task_handle: "none", "live" or "stale" (task deleted)
  link,         \* a BLE host really is connected
  usb,          \* some g_device_connected entry is set
  psu,          \* s_psu_connected
  wifi,         \* is_wifi_connected()
  idleTicks,    \* sleep_counter of the main loop
  pc            \* where each task stands

bridge == << initialized, running, active, mutex >>
timers == << inactivity, deepTimer >>
stack  == << up, service, link >>
ble    == << gEnabled, connected, battery, stats >>
env    == << usb, psu, wifi >>
vars   == << power, cfg, bridge, timers, stack, ble, env, idleTicks, pc >>

TimerState == {"none", "dormant", "armed"}
Labels == {"idle", "send", "take", "init", "inactTake", "inactCheck", "pause",
           "deepTake", "bridgeDeinit", "deinitTake", "deinitBle", "deinitUsb",
           "teardown", "goToSleep", "connecting"}

\* The places at which a task owns the BLE stack mutex.
Locked == {"init", "inactCheck", "pause", "deinitBle", "deinitUsb"}

BridgeTypes ==
  /\ power \in {"boot", "on", "asleep", "panic"}
  /\ cfg \in Settings
  /\ initialized \in BOOLEAN /\ running \in BOOLEAN /\ active \in BOOLEAN
  /\ mutex \in Tasks \cup {"free"}
  /\ inactivity \in TimerState /\ deepTimer \in TimerState

StackTypes ==
  /\ up \subseteq Parts
  /\ service \in BOOLEAN /\ link \in BOOLEAN
  /\ gEnabled \in BOOLEAN /\ connected \in BOOLEAN
  /\ battery \in {"none", "stopped", "running"} /\ stats \in {"none", "live", "stale"}

EnvTypes ==
  /\ usb \in BOOLEAN /\ psu \in BOOLEAN /\ wifi \in BOOLEAN
  /\ idleTicks \in 0..SleepThreshold

\* Every variable has its type; the main loop's counter stops at its threshold.
TypeOK == BridgeTypes /\ StackTypes /\ EnvTypes /\ pc \in [Tasks -> Labels]

Init ==
  /\ power = "boot" /\ cfg \in Settings
  /\ initialized = FALSE /\ running = FALSE /\ active = TRUE
  /\ mutex = "free"
  /\ inactivity = "none" /\ deepTimer = "none"
  /\ up = {} /\ service = FALSE /\ link = FALSE
  /\ gEnabled = TRUE /\ connected = FALSE /\ battery = "none" /\ stats = "none"
  /\ usb = FALSE /\ psu = FALSE /\ wifi = FALSE
  /\ idleTicks = 0
  /\ pc = [t \in Tasks |-> "idle"]

-----------------------------------------------------------------------------
(* What the code reads.                                                    *)

\* s_enable_deep_sleep as hid_bridge_init computes it.
EnableDeepSleep == cfg.deepSleep /\ cfg.twoSleeps

\* usb_hid_host_device_connected: a power supply counts as a device.
DeviceConnected == psu \/ usb

\* hidd_event_callback lets an event through (is_ble_enabled() holds exactly
\* while the profile is up once a callback is registered).
EventsPass == gEnabled /\ "profile" \in up

\* hid_bridge_is_ble_paused.
Paused == ~active /\ DeviceConnected

Goto(t, label) == pc' = [pc EXCEPT ![t] = label]

\* xTimerReset on both sleep timers: a NULL handle is a failed assertion.
ResetTimers ==
  IF "none" \in {inactivity, deepTimer}
  THEN power' = "panic" /\ UNCHANGED timers
  ELSE inactivity' = "armed" /\ deepTimer' = "armed" /\ UNCHANGED power

-----------------------------------------------------------------------------
(* Boot: hid_bridge_init and hid_bridge_start, from run_hid_bridge.        *)

\* hid_bridge_init fails: the timers are deleted, the callbacks are not
\* subscribed, the main loop runs all the same.
BootFails ==
  /\ power = "boot"
  /\ power' = "on"
  /\ \/ UNCHANGED << up, gEnabled >>           \* usb_hid_host_init failed
     \/ \E o \in InitOutcomes(up) :            \* ble_hid_device_init failed
          o.ret = "fail" /\ up' = o.up /\ gEnabled' = TRUE
  /\ UNCHANGED << cfg, bridge, timers, service, link, connected, battery, stats,
                  env, idleTicks, pc >>

Boot ==
  /\ power = "boot"
  /\ \E o \in InitOutcomes(up) : o.ret = "ok" /\ up' = o.up
  /\ power' = "on"
  /\ gEnabled' = TRUE /\ stats' = "live"
  /\ active' = TRUE /\ initialized' = TRUE /\ running' = TRUE
  /\ inactivity' = "armed" /\ deepTimer' = "armed"
  /\ UNCHANGED << cfg, mutex, service, link, connected, battery, env,
                  idleTicks, pc >>

-----------------------------------------------------------------------------
(* ble_hid_device_init and ble_hid_device_deinit, in two steps each: they  *)
(* set g_enabled first, and their outcome shows some 100 ms later.         *)

BeginInit == gEnabled' = TRUE /\ UNCHANGED << connected, battery, stats >>

\* s_connected keeps its value: the DISCONNECT event that follows is dropped.
\* So does s_stats_task_handle: the next vTaskDelete on it, unless a successful
\* initialisation comes first, is undefined.
BeginDeinit ==
  /\ gEnabled' = FALSE /\ battery' = "none"
  /\ stats' = IF stats = "live" THEN "stale" ELSE stats
  /\ \/ UNCHANGED power
     \/ stats = "stale" /\ power' = "panic"
  /\ UNCHANGED connected

EndDeinit(o) ==
  /\ up' = o.up
  /\ link' = (link /\ "bluedroid_enable" \in o.up)
  /\ UNCHANGED service

-----------------------------------------------------------------------------
(* Waking the BLE stack: wakeup() of the input tasks and the first half of *)
(* hid_bridge_process_report.                                              *)

\* A USB report reaches the bridge; with the stack down it tries to wake it.
ReportArrives ==
  /\ pc["report"] = "idle"
  /\ usb /\ initialized
  /\ \/ ~active /\ Goto("report", "take")
     \/ active /\ connected /\ Goto("report", "send")
  /\ UNCHANGED << power, cfg, bridge, timers, stack, ble, env, idleTicks >>

\* The report goes out over BLE and is counted as activity.
ReportForwarded ==
  /\ pc["report"] = "send"
  /\ IF DeviceConnected /\ connected
     THEN /\ inactivity' = IF inactivity = "none" THEN "none" ELSE "armed"
          /\ deepTimer' = IF deepTimer = "none" THEN "none" ELSE "armed"
     ELSE UNCHANGED timers
  /\ Goto("report", "idle")
  /\ UNCHANGED << power, cfg, bridge, stack, ble, env, idleTicks >>

\* A button or the encoder is used: nothing happens without a connected host;
\* otherwise the configured action is executed, the timers restart, and
\* wakeup() looks at s_ble_stack_active, without the mutex.
InputArrives(t) ==
  /\ pc[t] = "idle"
  /\ initialized /\ connected
  /\ ResetTimers
  /\ IF active THEN UNCHANGED pc ELSE Goto(t, "take")
  /\ UNCHANGED << cfg, bridge, stack, ble, env, idleTicks >>

\* Mutant of WakeTake: process_report does not look at the flag again.
WakeTakeUnchecked(t) ==
  /\ pc[t] = "take" /\ mutex = "free"
  /\ mutex' = t /\ BeginInit /\ Goto(t, "init")
  /\ UNCHANGED << power, cfg, initialized, running, active, timers, stack,
                  env, idleTicks >>

\* The mutex is taken.  process_report looks at s_ble_stack_active again;
\* wakeup() does not, and initialises the stack whatever happened meanwhile.
WakeTake(t) ==
  /\ pc[t] = "take" /\ mutex = "free"
  /\ IF t = "report" /\ active
     THEN Goto(t, "idle") /\ UNCHANGED << mutex, ble >>
     ELSE mutex' = t /\ BeginInit /\ Goto(t, "init")
  /\ UNCHANGED << power, cfg, initialized, running, active, timers, stack,
                  env, idleTicks >>

\* Mutant of WakeTimeout: the result of xSemaphoreTake is not looked at.
WakeTimeoutIgnored(t) ==
  /\ pc[t] = "take" /\ mutex # "free"
  /\ BeginInit /\ Goto(t, "init")
  /\ UNCHANGED << power, cfg, bridge, timers, stack, env, idleTicks >>

\* 25 ms pass without the mutex: the report (or the wake-up) is dropped.
WakeTimeout(t) ==
  /\ pc[t] = "take" /\ mutex # "free"
  /\ Goto(t, "idle")
  /\ UNCHANGED << power, cfg, bridge, timers, stack, ble, env, idleTicks >>

\* Mutant of WakeInit: the error path returns without giving the mutex back.
WakeInitKeepsMutex(t) ==
  /\ pc[t] = "init"
  /\ \E o \in InitOutcomes(up) :
       /\ up' = o.up
       /\ power' = IF o.ret = "abort" THEN "panic" ELSE "on"
       /\ active' = (o.ret = "ok")
       /\ service' = (service /\ o.ret # "ok")
       /\ stats' = IF o.ret = "ok" THEN "live" ELSE stats
       /\ mutex' = IF o.ret = "ok" THEN "free" ELSE mutex
  /\ Goto(t, "idle")
  /\ UNCHANGED << cfg, initialized, running, timers, link, gEnabled, connected,
                  battery, env, idleTicks >>

\* ble_hid_device_init returns (or aborts) and the mutex is given back.
\* esp_hidd_profile_init clears hidd_le_env, and the service handle with it.
WakeInit(t) ==
  /\ pc[t] = "init"
  /\ \E o \in InitOutcomes(up) :
       /\ up' = o.up
       /\ power' = IF o.ret = "abort" THEN "panic" ELSE "on"
       /\ active' = (o.ret = "ok")
       /\ service' = (service /\ o.ret # "ok")
       /\ stats' = IF o.ret = "ok" THEN "live" ELSE stats
  /\ mutex' = "free"
  /\ Goto(t, "idle")
  /\ UNCHANGED << cfg, initialized, running, timers, link, gEnabled, connected,
                  battery, env, idleTicks >>

-----------------------------------------------------------------------------
(* The inactivity timer: inactivity_timer_callback, in the timer daemon.   *)
(* The timers are one-shot: a callback that returns without xTimerReset    *)
(* leaves its timer dormant.                                               *)

InactivityFires ==
  /\ pc["timer"] = "idle" /\ inactivity = "armed"
  /\ inactivity' = "dormant"
  /\ Goto("timer", "inactTake")
  /\ UNCHANGED << power, cfg, bridge, deepTimer, stack, ble, env, idleTicks >>

\* 250 ms pass without the mutex; the timer is not restarted.
TimerTakeTimeout ==
  /\ pc["timer"] \in {"inactTake", "deepTake"} /\ mutex # "free"
  /\ Goto("timer", "idle")
  /\ UNCHANGED << power, cfg, bridge, timers, stack, ble, env, idleTicks >>

\* Mutant of InactivityTake: whether there is a stack to pause is not checked.
InactivityTakeAnyway ==
  /\ pc["timer"] = "inactTake" /\ mutex = "free"
  /\ IF DeviceConnected /\ connected
     THEN mutex' = "timer" /\ Goto("timer", "inactCheck") /\ UNCHANGED inactivity
     ELSE inactivity' = "armed" /\ Goto("timer", "idle") /\ UNCHANGED mutex
  /\ UNCHANGED << power, cfg, initialized, running, active, deepTimer, stack,
                  ble, env, idleTicks >>

\* Without device, host or stack there is nothing to pause: wait again.
InactivityTake ==
  /\ pc["timer"] = "inactTake" /\ mutex = "free"
  /\ IF DeviceConnected /\ connected /\ active
     THEN mutex' = "timer" /\ Goto("timer", "inactCheck") /\ UNCHANGED inactivity
     ELSE inactivity' = "armed" /\ Goto("timer", "idle") /\ UNCHANGED mutex
  /\ UNCHANGED << power, cfg, initialized, running, active, deepTimer, stack,
                  ble, env, idleTicks >>

KeepAwake == wifi \/ cfg.neverSleep \/ ~cfg.enableSleep

\* The reasons not to sleep: for good (no restart) or as long as the power
\* supply is there (restart).
InactivityStaysAwake ==
  /\ pc["timer"] = "inactCheck"
  /\ \/ KeepAwake /\ UNCHANGED inactivity
     \/ ~KeepAwake /\ psu /\ inactivity' = "armed"
  /\ mutex' = "free"
  /\ Goto("timer", "idle")
  /\ UNCHANGED << power, cfg, initialized, running, active, deepTimer, stack,
                  ble, env, idleTicks >>

\* One sleep only: straight to deep sleep, with the mutex given back.
InactivityDeepSleeps ==
  /\ pc["timer"] = "inactCheck" /\ ~KeepAwake /\ ~psu /\ ~cfg.twoSleeps
  /\ mutex' = "free"
  /\ Goto("timer", "bridgeDeinit")
  /\ UNCHANGED << power, cfg, initialized, running, active, timers, stack,
                  ble, env, idleTicks >>

PauseBegins ==
  /\ pc["timer"] = "inactCheck" /\ ~KeepAwake /\ ~psu /\ cfg.twoSleeps
  /\ BeginDeinit
  /\ Goto("timer", "pause")
  /\ UNCHANGED << cfg, bridge, timers, stack, env, idleTicks >>

\* Mutants of PauseEnds: the flag is not cleared; the mutex is never given.
PauseEndsStaysActive ==
  /\ pc["timer"] = "pause"
  /\ \E o \in DeinitOutcomes(up, service) :
       /\ EndDeinit(o)
       /\ mutex' = IF o.ret = "ok" THEN "free" ELSE mutex
  /\ Goto("timer", "idle")
  /\ UNCHANGED << power, cfg, initialized, running, active, timers, ble, env, idleTicks >>

PauseEndsKeepsMutex ==
  /\ pc["timer"] = "pause"
  /\ \E o \in DeinitOutcomes(up, service) :
       EndDeinit(o) /\ active' = (o.ret # "ok")
  /\ Goto("timer", "idle")
  /\ UNCHANGED << power, cfg, initialized, running, mutex, timers, ble, env, idleTicks >>

\* Light sleep is entered; on an error the mutex is never given back.
PauseEnds ==
  /\ pc["timer"] = "pause"
  /\ \E o \in DeinitOutcomes(up, service) :
       /\ EndDeinit(o)
       /\ active' = (o.ret # "ok")
       /\ mutex' = IF o.ret = "ok" THEN "free" ELSE mutex
  /\ Goto("timer", "idle")
  /\ UNCHANGED << power, cfg, initialized, running, timers, ble, env, idleTicks >>

-----------------------------------------------------------------------------
(* The deep sleep timer: deep_sleep_timer_callback and enter_deep_sleep.   *)

DeepTimerFires ==
  /\ pc["timer"] = "idle" /\ deepTimer = "armed"
  /\ deepTimer' = "dormant"
  /\ Goto("timer", "deepTake")
  /\ UNCHANGED << power, cfg, bridge, inactivity, stack, ble, env, idleTicks >>

\* The checks of the callback; neither s_never_sleep nor s_enable_sleep nor
\* the Wi-Fi is one of them.
DeepTimerTake ==
  /\ pc["timer"] = "deepTake" /\ mutex = "free"
  /\ \/ ~EnableDeepSleep /\ Goto("timer", "idle") /\ UNCHANGED deepTimer
     \/ EnableDeepSleep /\ psu /\ deepTimer' = "armed" /\ Goto("timer", "idle")
     \/ EnableDeepSleep /\ ~psu /\ Goto("timer", "bridgeDeinit") /\ UNCHANGED deepTimer
  /\ UNCHANGED << power, cfg, bridge, inactivity, stack, ble, env, idleTicks >>

\* hid_bridge_deinit deletes the timers before it asks for the mutex.
BridgeDeinit ==
  /\ pc["timer"] = "bridgeDeinit"
  /\ running' = FALSE
  /\ inactivity' = "none" /\ deepTimer' = "none"
  /\ Goto("timer", "deinitTake")
  /\ UNCHANGED << power, cfg, initialized, active, mutex, stack, ble, env, idleTicks >>

\* Mutant of DeinitTimeout: enter_deep_sleep gives up on an error.
DeinitTimeoutReturns ==
  /\ pc["timer"] = "deinitTake" /\ mutex # "free"
  /\ Goto("timer", "idle")
  /\ UNCHANGED << power, cfg, bridge, timers, stack, ble, env, idleTicks >>

\* enter_deep_sleep ignores the error hid_bridge_deinit returns.
DeinitTimeout ==
  /\ pc["timer"] = "deinitTake" /\ mutex # "free"
  /\ Goto("timer", "goToSleep")
  /\ UNCHANGED << power, cfg, bridge, timers, stack, ble, env, idleTicks >>

DeinitTake ==
  /\ pc["timer"] = "deinitTake" /\ mutex = "free"
  /\ mutex' = "timer"
  /\ active' = FALSE
  /\ IF active THEN BeginDeinit /\ Goto("timer", "deinitBle")
               ELSE UNCHANGED << ble, power >> /\ Goto("timer", "deinitUsb")
  /\ UNCHANGED << cfg, initialized, running, timers, stack, env, idleTicks >>

DeinitBle ==
  /\ pc["timer"] = "deinitBle"
  /\ \E o \in DeinitOutcomes(up, service) :
       /\ EndDeinit(o)
       /\ active' = (o.ret # "ok")
       /\ IF o.ret = "ok"
          THEN UNCHANGED mutex /\ Goto("timer", "deinitUsb")
          ELSE mutex' = "free" /\ Goto("timer", "goToSleep")
  /\ UNCHANGED << power, cfg, initialized, running, timers, ble, env, idleTicks >>

\* usb_hid_host_deinit forgets its devices whatever it returns.  On success
\* the mutex is deleted, and then given: xSemaphoreGive(NULL).
DeinitUsb ==
  /\ pc["timer"] = "deinitUsb"
  /\ usb' = FALSE
  /\ mutex' = "free"
  /\ \/ UNCHANGED << power, initialized >>
     \/ power' = "panic" /\ initialized' = FALSE
  /\ Goto("timer", "goToSleep")
  /\ UNCHANGED << cfg, running, active, timers, stack, ble, psu, wifi, idleTicks >>

-----------------------------------------------------------------------------
(* The two sleeps that go round the bridge: both take the stack down       *)
(* without the mutex and without touching s_ble_stack_active.              *)

NoDevice == ~psu /\ ~usb /\ ~connected

\* Mutants of MainTick: one tick too many; no sleep without a bridge.
MainTickLate ==
  /\ pc["main"] = "idle"
  /\ IF ~NoDevice
     THEN idleTicks' = 0 /\ UNCHANGED << power, running, ble, pc >>
     ELSE /\ idleTicks' = idleTicks + 1
          /\ IF idleTicks > SleepThreshold
             THEN running' = FALSE /\ BeginDeinit /\ Goto("main", "teardown")
             ELSE UNCHANGED << power, running, ble, pc >>
  /\ UNCHANGED << cfg, initialized, active, mutex, timers, stack, env >>

MainTickNeedsBridge ==
  /\ pc["main"] = "idle"
  /\ IF ~NoDevice \/ ~initialized
     THEN idleTicks' = 0 /\ UNCHANGED << power, running, ble, pc >>
     ELSE /\ idleTicks' = idleTicks + 1
          /\ IF idleTicks + 1 >= SleepThreshold
             THEN running' = FALSE /\ BeginDeinit /\ Goto("main", "teardown")
             ELSE UNCHANGED << power, running, ble, pc >>
  /\ UNCHANGED << cfg, initialized, active, mutex, timers, stack, env >>

\* One turn of the main loop (35 ms).
MainTick ==
  /\ pc["main"] = "idle"
  /\ IF ~NoDevice
     THEN idleTicks' = 0 /\ UNCHANGED << power, running, ble, pc >>
     ELSE /\ idleTicks' = idleTicks + 1
          /\ IF idleTicks + 1 >= SleepThreshold
             THEN running' = FALSE /\ BeginDeinit /\ Goto("main", "teardown")
             ELSE UNCHANGED << power, running, ble, pc >>
  /\ UNCHANGED << cfg, initialized, active, mutex, timers, stack, env >>

BatteryDead ==
  /\ "batteryDead" \in EnvEvents
  /\ pc["vmon"] = "idle" /\ ~psu
  /\ BeginDeinit
  /\ Goto("vmon", "teardown")
  /\ UNCHANGED << cfg, bridge, timers, stack, env, idleTicks >>

Teardown(t) ==
  /\ pc[t] = "teardown"
  /\ \E o \in DeinitOutcomes(up, service) : EndDeinit(o)
  /\ Goto(t, "goToSleep")
  /\ UNCHANGED << power, cfg, bridge, timers, ble, env, idleTicks >>

\* deep_sleep(): esp_deep_sleep_start does not return.
DeepSleep(t) ==
  /\ pc[t] = "goToSleep"
  /\ power' = "asleep"
  /\ UNCHANGED << cfg, bridge, timers, stack, ble, env, idleTicks, pc >>

\* A reset, after a panic or out of deep sleep (ext1: a button or the
\* encoder, ext0: the supply voltage), keeps nothing of the variables; the
\* user may have changed the settings.
Reset ==
  /\ power \in {"asleep", "panic"}
  /\ power' = "boot" /\ cfg' \in Settings
  /\ initialized' = FALSE /\ running' = FALSE /\ active' = TRUE
  /\ mutex' = "free"
  /\ inactivity' = "none" /\ deepTimer' = "none"
  /\ up' = {} /\ service' = FALSE /\ link' = FALSE
  /\ gEnabled' = TRUE /\ connected' = FALSE /\ battery' = "none" /\ stats' = "none"
  /\ usb' = FALSE /\ psu' = FALSE /\ wifi' = FALSE
  /\ idleTicks' = 0
  /\ pc' = [t \in Tasks |-> "idle"]

-----------------------------------------------------------------------------
(* Bluetooth events and the surroundings.                                  *)

\* ESP_GATTS_CREAT_ATTR_TAB_EVT: the HID service gets its handle.
ServiceCreated ==
  /\ {"profile", "bluedroid_enable"} \subseteq up /\ ~service
  /\ service' = TRUE
  /\ UNCHANGED << power, cfg, bridge, timers, up, link, ble, env, idleTicks, pc >>

\* A host connects.  hidd_event_callback first writes the host's address to
\* flash and then sets s_connected: a deinit may come in between.
HostConnects ==
  /\ pc["bt"] = "idle" /\ ~link /\ service /\ "bluedroid_enable" \in up
  /\ link' = TRUE
  /\ IF EventsPass THEN Goto("bt", "connecting") ELSE UNCHANGED pc
  /\ UNCHANGED << power, cfg, bridge, timers, up, service, ble, env, idleTicks >>

HostConnected ==
  /\ pc["bt"] = "connecting"
  /\ connected' = TRUE /\ battery' = "running"
  /\ Goto("bt", "idle")
  /\ UNCHANGED << power, cfg, bridge, timers, stack, gEnabled, stats, env,
                  idleTicks >>

HostLeaves ==
  /\ "hostLeaves" \in EnvEvents
  /\ pc["bt"] = "idle" /\ link
  /\ link' = FALSE
  /\ IF EventsPass
     THEN /\ connected' = FALSE
          /\ battery' = IF battery = "none" THEN "none" ELSE "stopped"
     ELSE UNCHANGED << connected, battery >>
  /\ UNCHANGED << power, cfg, bridge, timers, up, service, gEnabled, stats,
                  env, idleTicks, pc >>

\* A USB device is opened and started; its flag is never cleared on unplug.
UsbDeviceStarted ==
  /\ initialized /\ pc["timer"] # "goToSleep" /\ ~usb
  /\ usb' = TRUE
  /\ UNCHANGED << power, cfg, bridge, timers, stack, ble, psu, wifi, idleTicks, pc >>

PsuChanges ==
  /\ "psu" \in EnvEvents
  /\ psu' = ~psu
  /\ UNCHANGED << power, cfg, bridge, timers, stack, ble, usb, wifi, idleTicks, pc >>

WifiChanges ==
  /\ "wifi" \in EnvEvents
  /\ wifi' = ~wifi
  /\ UNCHANGED << power, cfg, bridge, timers, stack, ble, usb, psu, idleTicks, pc >>

-----------------------------------------------------------------------------
Wakers == InputTasks \cup {"report"}

TimerStep ==
  \/ InactivityFires \/ InactivityTake \/ InactivityStaysAwake
  \/ InactivityDeepSleeps \/ PauseBegins \/ PauseEnds
  \/ DeepTimerFires \/ DeepTimerTake \/ TimerTakeTimeout
  \/ BridgeDeinit \/ DeinitTimeout \/ DeinitTake \/ DeinitBle \/ DeinitUsb
  \/ DeepSleep("timer")

WakeStep(t) == WakeTake(t) \/ WakeTimeout(t) \/ WakeInit(t)

SleeperStep(t) == Teardown(t) \/ DeepSleep(t)

BtStep == ServiceCreated \/ HostConnects \/ HostConnected

EnvStep == HostLeaves \/ UsbDeviceStarted \/ PsuChanges \/ WifiChanges \/ BatteryDead

Running ==
  /\ power = "on"
  /\ \/ TimerStep \/ MainTick \/ BtStep \/ EnvStep
     \/ ReportArrives \/ ReportForwarded
     \/ \E t \in InputTasks : InputArrives(t)
     \/ \E t \in Wakers : WakeStep(t)
     \/ \E t \in {"main", "vmon"} : SleeperStep(t)

Next == Boot \/ BootFails \/ Running \/ Reset

Spec == Init /\ [][Next]_vars

(***************************************************************************)
(* Fairness: the scheduler runs every task that can run, so each task's    *)
(* next step is weakly fair, and an armed timer fires.  A task waiting for *)
(* the mutex can always take its timeout, so nothing stronger is needed.   *)
(* Nothing is assumed of the surroundings but, in FairSpec, that whoever   *)
(* uses a USB device goes on using it.                                     *)
(***************************************************************************)
OnStep(A) == power = "on" /\ A

SchedulerFairness ==
  /\ WF_vars(Boot)
  /\ WF_vars(OnStep(TimerStep))
  /\ WF_vars(OnStep(MainTick \/ SleeperStep("main")))
  /\ WF_vars(OnStep(SleeperStep("vmon")))
  /\ WF_vars(OnStep(ServiceCreated))
  /\ WF_vars(OnStep(HostConnected))
  /\ \A t \in Wakers : WF_vars(OnStep(WakeStep(t)))
  /\ WF_vars(OnStep(ReportForwarded))

QuietSpec == Spec /\ SchedulerFairness
FairSpec == QuietSpec /\ WF_vars(OnStep(ReportArrives))

-----------------------------------------------------------------------------
(* Safety.                                                                 *)

\* ble_hid_device_init and _deinit, called by the bridge from four tasks, run
\* one at a time: whoever is inside them owns s_ble_stack_mutex.
MutexProtectsLifecycle == \A t \in Tasks : pc[t] \in Locked => mutex = t

\* Some task is on its way to deep sleep and will not come back.
GoingToSleep ==
  \/ pc["timer"] \in {"bridgeDeinit", "deinitTake", "deinitBle", "deinitUsb"}
  \/ \E t \in Tasks : pc[t] \in {"teardown", "goToSleep"}

\* The pause failed and inactivity_timer_callback kept the mutex.
Leaked == mutex = "timer" /\ pc["timer"] \notin Locked

\* The mutex is never left locked by a task that has gone on to something
\* else, but for the one error path that forgets it: then the bridge still
\* counts the stack as active while the Bluetooth events are switched off.
MutexHeldByWorker ==
  \/ mutex = "free"
  \/ pc[mutex] \in Locked
  \/ Leaked /\ active /\ ~gEnabled

\* Nobody is changing the stack and the device stays on.
Settled == power = "on" /\ initialized /\ mutex = "free" /\ ~GoingToSleep

\* When the bridge is settled, s_ble_stack_active never claims a stack that is
\* partly down or deaf to events, or whose statistics task is already deleted
\* (so that the next pause would delete it again), whatever failed on the way.
ActiveMeansUp == Settled /\ active => up = Parts /\ gEnabled /\ stats = "live"

\* hid_bridge_deinit leaves the timer handles NULL, which an input callback
\* hands to xTimerReset unchecked; but only while the device is on its way to
\* deep sleep: a bridge that goes on running has both timers.
TimersDeletedOnlyForSleep ==
  power = "on" /\ initialized /\ "none" \in {inactivity, deepTimer} => GoingToSleep

\* ble_hid_device_init is entered with nothing of the stack up, as the
\* ESP_ERROR_CHECK on esp_bt_controller_mem_release asserts.
InitOnlyWhenDown == \A t \in Wakers : power = "on" /\ pc[t] = "init" => up = {}

\* Holding SW2 at boot disables any sleep until the next reboot: no sleep timer
\* may start one.
NoSleepModeHolds == cfg.neverSleep => pc["timer"] \notin {"pause", "bridgeDeinit"}

\* hid_bridge_deinit returns when it has taken everything down; it does not
\* bring the device to a panic instead.
DeinitReturns ==
  [][pc["timer"] = "deinitUsb" /\ ~initialized' => power' = "on"]_vars

-----------------------------------------------------------------------------
(* The bridge as an on/off switch of the Bluetooth stack.                  *)

SwitchMode ==
  IF power = "boot" THEN "off"
  ELSE IF power # "on" \/ GoingToSleep THEN "leaving"
  ELSE IF ~initialized THEN "failed"
  ELSE IF pc["timer"] = "pause" THEN "pausing"
  ELSE IF \E t \in Wakers : pc[t] = "init" THEN "waking"
  ELSE IF active /\ gEnabled /\ up = Parts THEN "on"
  ELSE IF ~active /\ up = {} THEN "paused"
  ELSE "stuck"

Switch == INSTANCE BleSwitch WITH mode <- SwitchMode

\* Every behaviour of the bridge is one of the switch: light sleep begins with
\* the whole stack up and ends with it down, a wake-up begins with it down, and
\* the two never overlap.
ImplementsSwitch == Switch!SwitchSpec

-----------------------------------------------------------------------------
(* Liveness.                                                               *)

\* A paused bridge whose USB device is used gets its stack back (or the
\* device leaves the on state): no report is lost for ever to a mutex that is
\* not given back or to a stack that does not come up again.
PausedWakes == (power = "on" /\ Paused /\ usb) ~> (active \/ power # "on")

\* Without power supply, USB device and host, the main loop puts the device to
\* deep sleep, also when the bridge did not start.
IdleDeviceSleeps == []<>(power # "on" \/ ~NoDevice)

\* The inactivity timer would have everything it needs to enter light sleep, and
\* nobody uses the USB device.
Quiet ==
  /\ Settled /\ active /\ usb /\ link /\ connected
  /\ ~psu /\ ~KeepAwake
  /\ \A t \in Wakers : pc[t] = "idle"

\* Without USB events for the configured time the device enters light sleep.
LightSleepComes == []<>~Quiet
=============================================================================

# Verification of wirelessifier

wirelessifier is firmware for an ESP32-S3 that turns a wired USB keyboard or mouse into a
Bluetooth Low Energy one. This directory holds TLA+ models of its core, the TLC
configurations that check them and theorems that TLAPS proves about them. Paths are
relative to the repository; unless they say otherwise, to `main/`.

    tlc -workers 2 -config MCHidBridgeSafety.cfg MCHidBridge     # a run
    tlc -workers 2 -config MCMouseAccumulator.cfg MouseAccumulator
    tlc -workers 2 -config MCDeviceParts.cfg MCDeviceParts
    tlc -workers 2 -config MCServices.cfg MCServices
    tlc -workers 2 -config MCInactivity.cfg WebSession
    tlapm HidBridgeProofs.tla                                     # the proofs, one
    tlapm SavedDeviceProofs.tla                                   # *Proofs module each

Section 1 is the inventory of the code, 2 the plan and the modules, 3 the models and how
they correspond to the code, 4 the runs, 5 the proofs, 6 what is not modelled.

## 1. Inventory

| Component | State | Operations | Talks to |
|---|---|---|---|
| HID bridge (`hid_bridge.c`) | initialised, running, stack-active flags; BLE mutex; two one-shot timers; power settings | init, start, stop, deinit, two timer callbacks, `wakeup`, four input callbacks, `process_report` | everything below |
| BLE HID device (`ble/ble_hid_device.c`) | `g_enabled`, `s_connected`, battery and accumulator timers, statistics task, mouse sums | init, deinit, Bluetooth event callbacks, send keyboard / mouse report | ESP-IDF controller and Bluedroid, profile, saved device |
| HID profile (`ble/hid_device_le_prf.c`, `esp_hidd_prf_api.c`, `hid_dev.c`) | `hidd_le_env`, service handles, one shared report buffer, id-to-handle cache | profile init / deinit, GATT events, send values | Bluedroid |
| Saved device (`ble/connection.c`) | cache of the last host; two NVS keys | save, load, connect, has, get, clear | NVS |
| HID actions (`ble/hid_actions.c`) | action cache, pending key releases | execute an action, release timer | profile |
| USB host (`usb/usb_hid_host.c`) | device handles and connected flags, report maps, event queue | init, deinit, driver and interface callbacks, device task, `process_report` | bridge, parser |
| Descriptor parser (`usb/descriptor_parser.c`) | none between calls | parse a report descriptor, extract a field | USB host |
| Power monitor (`utils/vmon.c`) | supply present, charging phase, two timers | sampling loop, charging, dead-battery sleep | BLE device, deep sleep |
| Buttons, encoder (`utils/buttons.c`, `rotary_enc.c`) | press times, subscribers | scan, callbacks | bridge |
| Settings (`utils/storage.c`) | settings JSON, getter cache, NVS | init, get, update, getters, boot-WiFi flag | NVS |
| WiFi, HTTP, WebSocket, OTA, DNS (`web/`) | connection state, client list, inactivity time, upload | connect, disable web stack, broadcast, upload | settings |
| Main loop (`main.c`) | idle counter | boot, idle sleep, long-press menu | bridge, BLE device |
| Deep sleep (`utils/ulp.c`) | none | does not return | |
| LEDs, ADC, temperature, task monitor, ULP binary, web pages | display and measurements | | |

**How they interact.** A USB report arrives in the HID driver's task, which calls
`hid_bridge_process_report`; that forwards it over BLE and restarts the two sleep timers.
The FreeRTOS timer daemon runs the timers' callbacks: the *inactivity timer* takes the BLE
stack down ("light sleep") or, with a single sleep timeout, goes on to deep sleep; the *deep
sleep timer* tears the bridge down and powers the device off. Buttons and encoder run the
configured action from their own tasks and may wake the stack, and so may the next USB
report. The Bluedroid task reports hosts that come and go. Two more places end in deep sleep
without the bridge: the main loop, when nothing has been attached for three minutes, and the
power monitor, when the battery is dead. `s_ble_stack_mutex` serialises the bridge's own
four users of `ble_hid_device_init`/`_deinit`; the last two do not take it.

**What is hard.** Five kinds of task change the same flags; each call on the stack takes
hundreds of milliseconds and can fail half-way without a roll-back; waits for the mutex
time out (25 ms or 250 ms) and drop the work; timers are one-shot; flags are read before a
wait and used after it; Bluetooth events are dropped from the first line of a
deinitialisation on; panics and deep sleep reset everything. `PROJECT.json` lists the
hazards one by one, each at its line, with the properties aimed at it or the reason why
there is none yet.

**What makes each component correct.**

* Bridge and BLE device: the stack is brought up and taken down by one task at a time; the
  mutex is given back on every path; the active flag means a stack that is complete and
  listening; the stack is only initialised when it is down; timers exist as long as anyone
  may reset them; a paused bridge wakes up when used, an idle device sleeps, a device told
  not to sleep does not.
* Mouse accumulator: movement is neither lost nor sent twice; the last button state sent is
  the last one received.
* Saved device: until the first save the device connects to the host in flash, from then on
  to the one saved last, with the address type it was saved with.
* HID actions and profile: the action executed is the one the name means; nothing stays
  pressed at the host; a report goes out on the handle of its own id.
* USB host and parser: no interface of a device is forgotten; each report is read with the
  map of its own descriptor, as long as its id has an entry in the tables; an axis is read
  where the descriptor puts it; a field is the two's complement number of its bits.
* Power monitor: the charger is off when charging is finished; the slow phase is limited;
  nothing of a charge survives its supply; a warning is not taken back.
* Buttons and encoder: a press is answered once; buttons held at boot are silent; only a
  held knob restarts the device, and a held knob does.
* Settings: what the page was told is saved survives restarts; a getter answers from the
  present document.
* Web: credentials are saved only if they worked; a Wi-Fi session leaves no trace for the
  next boot; a request comes to its end; a live client is served; an unused web stack is
  shut down.
* OTA: wherever an update stops, the device boots.

## 2. Plan

| # | Modules | What | Status |
|---|---|---|---|
| 1 | `BleStack`, `HidBridge`, `BleSwitch`, `MCHidBridge`, `HidBridgeProofs` | sleep and wake-up; refinement of a switch, checked and proved | done |
| 2 | `MouseAccumulator`, `MouseAccumulatorProofs` | batching against the movement owed to the host | done |
| 3 | `SavedDevice`, `LastHost`, `SettingsStore`, `SavedDeviceProofs` | what is kept in NVS, with failing writes and restarts; refinement of `LastHost`, checked and proved | done |
| 4 | `Charging`, `ChargingProofs` | sampling loop, timers, supply changes | done |
| 5 | `UsbHost`, `ReportParser`, `FieldValue`, `ParserProofs` | events, maps, descriptors, fields | done |
| 6 | `ActionCache`, `ActionReports`, `ReportLookup`, `DevicePartsProofs` | actions, releases, handles | done |
| 7 | `Buttons`, `RotaryEncoder`, `InputProofs` | debouncing, clicks, holds | done |
| 8 | `WebSession`, `WsClients`, `OtaUpdate`, `ServicesProofs` | Wi-Fi and the web stack, clients, firmware updates | done |

`MCDeviceParts` composes 4 to 6, `MCServices` 3, 7 and 8. `DevicePartsProofs` has the
proofs about `ActionReports`, `ReportLookup`, `UsbHost` and `ActionCache` and those about
the composition of `MCDeviceParts`; `ServicesProofs` those about `WebSession`, `WsClients`
and `OtaUpdate` and the composition of `MCServices`; `SavedDeviceProofs` also those about
`SettingsStore`.

What could come next: the display side (LED patterns against `BatteryState` and the
connection state), and a composition of `UsbHost` with `HidBridge` in which the device
flags, which are never cleared, drive the idle sleep.

## 3. The core model

`BleStack` turns `ble_hid_device_init` and `_deinit` into functions: from the set of parts
that are up (controller initialised, controller enabled, Bluedroid initialised, Bluedroid
enabled, profile) to the set of possible outcomes: success, an error after a prefix of
the calls, or the abort of `ESP_ERROR_CHECK`. The order of the calls is the source's, and
so is the missing roll-back. A call fails when its part is already in the requested state,
and, for the parts in `FailingInit` and `FailingDeinit`, whenever it likes.

`HidBridge` is the state machine. `pc[t]` says where each task stands; a step ends where
another task can change what the first one relies on: at a mutex, before a flag is used,
inside the long calls.

| Variable | Code |
|---|---|
| `power` | booting, on, in deep sleep, panicked |
| `cfg` | `s_enable_sleep`, `deepSleep`, `s_two_sleeps`, `s_never_sleep` |
| `initialized`, `running`, `active` | `s_hid_bridge_initialized`, `s_hid_bridge_running`, `s_ble_stack_active` |
| `mutex` | owner of `s_ble_stack_mutex` |
| `inactivity`, `deepTimer` | the timer handles: NULL, dormant, armed |
| `up`, `service`, `link` | parts of the stack up; HID service has a handle; a host is connected |
| `gEnabled`, `connected`, `battery`, `stats` | `g_enabled`, `s_connected`, `s_battery_timer`, `s_stats_task_handle` |
| `usb`, `psu`, `wifi` | some `g_device_connected`; `s_psu_connected`; `is_wifi_connected()` |
| `idleTicks` | `sleep_counter` of the main loop |

| Actions | Code |
|---|---|
| `Boot`, `BootFails` | `hid_bridge_init` and `_start` from `run_hid_bridge` |
| `ReportArrives`, `ReportForwarded` | `hid_bridge_process_report`, the check and the sending |
| `InputArrives` | `rot_cb`, `rot_click_cb`, `buttons_cb`, `buttons_long_press_cb` |
| `WakeTake`, `WakeTimeout`, `WakeInit` | `wakeup` and the first half of `process_report` |
| `InactivityFires`, `InactivityTake`, `InactivityStaysAwake`, `InactivityDeepSleeps`, `PauseBegins`, `PauseEnds` | `inactivity_timer_callback` |
| `DeepTimerFires`, `DeepTimerTake` | `deep_sleep_timer_callback` |
| `TimerTakeTimeout` | the 250 ms timeout of both |
| `BridgeDeinit`, `DeinitTake`, `DeinitTimeout`, `DeinitBle`, `DeinitUsb`, `DeepSleep` | `enter_deep_sleep`, `hid_bridge_deinit`, `deep_sleep` |
| `MainTick`, `BatteryDead`, `Teardown` | the main loop; the dead-battery branch of `vmon_task` |
| `ServiceCreated`, `HostConnects`, `HostConnected`, `HostLeaves` | GATT events and `hidd_event_callback` |
| `UsbDeviceStarted`, `PsuChanges`, `WifiChanges` | what the bridge sees of the other components |
| `Reset` | reboot after a panic or deep sleep |

`BleSwitch` is the abstract specification: a switch between "on" and "paused" with one
change under way at a time. `HidBridge` defines `SwitchMode` from its
state (`INSTANCE BleSwitch WITH mode <- SwitchMode`), the run `bridge_liveness` checks that
every behaviour of the bridge is one of the switch, and `BridgeIsASwitch` proves it.

**Simplifications.**

* Time is abstract: an armed timer may fire at any moment, a wait for the mutex may time out
  whenever somebody else owns it. This allows every order that real durations allow and more.
* `is_ble_enabled()` and `g_enabled` gate the events together (`EventsPass`), because the
  former is TRUE exactly while the profile is up.
* Reconnecting to the saved host (`connect_to_saved_device`) changes nothing the bridge
  reads; whether the host really connects is `HostConnects`. The reconnect delay after a
  disconnect is part of `HostLeaves`.
* The early return of `hid_bridge_deinit` for an uninitialised bridge cannot be taken: only
  the timers call it, and they exist only after a successful init.
* `usb_hid_host_deinit` is one step that may succeed or fail, as its two ESP-IDF calls
  decide. Between a failed deinitialisation and the deep sleep 25 ms later no USB device is
  started.
* The power monitor starts a little before the bridge; its sleep is modelled from the end of
  the boot on.
* The contents of reports and the configured button actions do not reach the sleep logic.

### The mouse path

`MouseAccumulator` models `ble_hid_device_send_mouse_report` and the timer that empties its
sums. `acc` stands for the four sums, `batchCount`, `batchSize`, `accButtons`, `highSpeed`,
`seen` and `fastEvents` for the static variables of the same meaning; `buffer` is the buffer
in which every sender builds its report. Three variables are not in the code: `device`, the
buttons as the mouse has them; `host`, as the host knows them; and `owed`, the movement that
the mouse has made and the host has not been sent.

| Actions | Code |
|---|---|
| `Report` with `CheckHighSpeed`, `PlainReport`, `HighSpeedReport`, `Flush`, `Accumulate` | `ble_hid_device_send_mouse_report`, `check_high_speed_device` |
| `CallbackLoads`, `CallbackFills`, `CallbackSends`, `CallbackClears` | `accumulator_timer_callback` and the call it makes |
| `Connect`, `Disconnect` | `hidd_event_callback` |
| `Pause`, `Resume` | `ble_hid_device_deinit`, `ble_hid_device_init` |

* The task that delivers USB reports has priority 16, the timer daemon priority 1, and both
  run on core 1: a report is one step, the callback is four, and reports come between them.
* Reports for which `s_connected` is not set return at once and are left out.
* `Pause` happens with nothing pending: it runs in the timer daemon itself, seconds after the
  last report, while the accumulator timer has a period of at most 11 ms.
* `xTimerReset` on each flush only postpones the next callback, which may come at any
  moment in the model.
* Nothing resets `s_is_high_speed`, so `PlainReport` never finds a timer; its clean-up is in
  the model and is never reached.

### The charger

`Charging` models `vmon_task` and the two timers of the slow phase. A pass of `vmon_task`
is cut where it blocks: `ReadBattery`, then `DeadBattery`, `SupplyArrives` (with
`ChargingStarts` after the delay of `start_charging`), `SupplyGone` or `SupplyAsBefore`,
then `Decide` with `DeclareFinished` or `KeepEntryTimer`. The timer daemon has a lower
priority on the same core and may be cut anywhere: `EntryExpires`, `EntryChecks`,
`EntryArms`, `EntrySlows` and `EntrySettles` are `slow_phase_entry_timer_cb`;
`SlowExpires`, `SlowChecks` and `SlowTerminates` are `slow_phase_timer_cb`. `AskBattery` is
`get_battery_level`, `BatteryState` is `get_battery_state`, `BridgeRoutes` the routing of
the data lines in `run_hid_bridge`. `psu`, `charging`, `slow`, `finished` are the static
flags; `enabled`, `current` and `mux` the pins.

### From inputs to reports

| Module | Code | Variables and actions |
|---|---|---|
| `Buttons` | `buttons_task` for one button | `Poll(gap)` is a pass of the loop, `gap` after the last; `PressSeen`, `StillPressed`, `ReleaseSeen` its branches |
| `RotaryEncoder` | `rotary_enc_task`, two interrupt handlers | `edges`, `turns` are the queues; `PassStarts`, `TurnHandled`, `ButtonHandled`, `ClickHandled` a pass; `KnobPressedOrReleased`, `KnobTurned` the interrupts |
| `ActionCache` | `execute_action_from_string`, `find_in_cache`, `add_to_cache` | `rows`, `count`; each task looks up (`FindInCache`, `UseRow`) or parses and adds (`ParseAction`, `MakeRoom`, `ClaimRow`, `FillName`, `FillMeaning`) |
| `ActionReports` | `execute_*_action`, the release timer, the senders with their static buffer | `FillPress`, `SendPress`, `ScheduleRelease`, `FillSpecial`, `SendSpecial`, `UsbFills`, `UsbSends`, `Release`; `held` is what the host takes for pressed |
| `ReportLookup` | `hid_dev_rpt_by_id`, `hid_dev_register_reports` | `direct`, `lru` are the two caches; a row stands for its id; the direct cache is compared (`MatchesDirect`) and then loaded again (`HitsDirect`, `LosesDirect`) |
| `UsbHost` | `device_event_task`, the callbacks, descriptors into maps | `TakeEvent`, `WaitForClient`, `OpenDevice`, `SetUpDevice`, `ParseDescriptor` or `SkipDescriptor`, `StartDevice`, `FlagDevice`; `PlugIn`, `SeeClient`, `Unplug` are the USB libraries'. The lookup tables hold pointers and have `TableSize` entries; a larger id is stored outside of them, perhaps in the table of another interface, and what is read there may be anything |
| `ReportParser` | `parse_report_descriptor` | one action per kind of item, those without a case in the code (`FeatureItem`, `PopItem`) and those with four bytes of data (`LongItem`) included; `means` is what the HID specification says of the items read |
| `FieldValue` | `extract_field_value` | one action per pass of its loop; a field may lie behind the report, whose length the function is not told |

### What is kept, and the web

| Module | Code | Variables and actions |
|---|---|---|
| `SavedDevice` | `save_connected_device` with its two callers, `load_saved_device_to_cache` | `HostConnects` saves with the type of the host authenticated before (`linkKind`, as `ble/ble_hid_device.c:188` does), `AuthCompletes` with its own; each assignment and NVS call is a step; `SaveEnds`, `LoadFails` are the failures, `DeviceRestarts` comes at any time |
| `LastHost` | what `connection.c` promises | `known`, `flash`, `peer`, `muddled`; `SavedDevice` maps `known` to the cached address if it is valid, `flash` to the address key, `muddled` to `crossed`. `Recall`, which makes the host in flash the one known, is possible only before the first save or when that save and a load overlap |
| `SettingsStore` | `init_global_settings`, `storage_get_settings`, `storage_update_settings`, the getters | `BootWithDefaults`, `BootFirstTime`, `BootUnreadable`, `BootLoads`; `GetFrees`, `GetReplaces`; `UpdateStarts` to `UpdateSucceeds`, `UpdateFails`; `ReadAsks` to `ReadFills`. Whoever replaces the text frees it first (`FreeText`), perhaps under a reader that walks it (`ReadTakes`, then `ReadParses` or `ReadFindsNothing`). A value has a length: `Cut` is the `strncpy` into a row and into the caller's buffer |
| `WebSession` | `init_web_stack`, `web_services_task`, `connect_to_wifi`, `event_handler`, the inactivity task | `session`, `http` say where the tasks are; `bits` is the event group, `events` what the driver has posted; `save_wifi_credentials` is `HttpSavesSsid` and `HttpSavesPassword`, with `HttpSaveFails` at either; `BootByFlag` and `FlagsNextBoot` may fail to write the flag, which the code does not notice; the driver's `AttemptFails`, `AttemptSucceeds`, `LinkDrops` are external |
| `WsClients` | `ws_server.c` | `AcceptClient`, `Handshake`, `HandlerFails`, `CloseSession`; a broadcast fills the one shared array `fds` (`CastLists`) and reads its entry again at each call: `CastLooks`, `CastAsks`, `CastSucceeds` or `CastFails`, `CastTriggersClose`, which may fail, `CastChecks`, `CastAdds` |
| `OtaUpdate` | `handle_ota_upload`, `ota_confirm` | one action per call and error return; the bootloader (`OtaBoots`) is external |

**Histories.** Much of this code has no locks, and there are orders of events in which it
really goes wrong. Where that is so, a history variable records that such an order
occurred, and the property says what holds without it. The exception is thereby named and
as narrow as the model shows it to be:

| Variable | What happened | What may be wrong then |
|---|---|---|
| `overtaken` (`Charging`) | `vmon_task` changed the phase inside a timer callback, or a callback began before the supply was known | charger on after the end, slow phase left over; unplugging repairs it |
| `dropped` (`RotaryEncoder`) | the queue of two edges was full | a released knob counts as held, or a hold is missed |
| `raced` (`ActionCache`) | two tasks were in the cache at once | another action is executed; a row beyond the array |
| `lost`, `smeared` (`ActionReports`) | no memory for a release timer; a cursor or wheel action was cut by another sender | something stays pressed |
| `met` (`ReportLookup`) | a sender read the cache while another wrote it | a report on another's handle |
| `given` (`UsbHost`) | an event dropped, a set-up failed, a descriptor not had | an interface unread, or read with an old map |
| `strayed` (`UsbHost`) | a device declared a report id of 8 or more (`MAX_REPORTS_PER_INTERFACE`), which no code checks | anything: a store outside of the tables |
| `odd` (`ReportParser`) | a descriptor of one of the forms listed in the module | an axis read elsewhere |
| `torn`, `crossed` (`SavedDevice`) | the last save to write an address was cut off before the type, or wrote another host's type; the last save and a load overlapped | an address with another host's type; the older host is connected to until the next save |
| `unread` (`SettingsStore`) | NVS could not be read at boot | the user's settings are overwritten by the defaults |
| `readersMet` (`SettingsStore`) | two getters were in the cache at once | a value of another path |
| `lost`, `overread` (`SettingsStore`) | the text was freed under a getter that walked it, and the getter went on | any value, until the next boot |
| `stale`, `doubtful` (`WebSession`) | a request could be answered by an older one's bits | untested credentials saved |
| `halfSaved` (`WebSession`) | the save ended between SSID and password | a new SSID with the old password, until the next complete save |
| `passed` (`WebSession`) | the button was used while the flag was set, or clearing it failed | Wi-Fi at the next boot |
| `collided` (`WsClients`) | two tasks changed the list; a failure was noted after the array was filled again or the socket given away; a client was noted that was not closed | a live client on the list |
| `unheard` (`Buttons`) | no callback was set when a press needed it | no answer |

After `met` and `readersMet` the model lets the tasks stop where they are: what follows may
be anything and no property speaks of it.

**Simplifications.**

* `Buttons`, `RotaryEncoder`: time is counted in units; times beyond the last one compared
  with are one value. The callbacks of the other buttons show as a longer gap.
* `ActionReports`: a report is "up", "keys" or "action". The USB mouse's own reports carry
  its buttons every time and are left out.
* `UsbHost`: a map is the kind of device and the ids it was parsed from; what is in it is
  `ReportParser`'s. The device flags are only ever set here, as in the code.
* `UsbHost`: `g_field_counts` is written like the lookup tables, and never read.
* `ReportParser`: size and count are taken with the item that uses them; logical ranges are
  left out. These forms the parser misreads, by the model; `AxesWhereDeclared` leaves them
  out, and a descriptor ends for the model with the first: fewer usages than the count asks
  for; an array without a range; usages that follow those of a collection or a feature;
  usages before the first item of another report; a range that holds an axis, or comes
  after single usages (the code takes the first usage of a range for the whole field); more
  fields or reports than there are places; a feature item with a range; Pop; four bytes of
  data of which the last is not zero (size code 3 is taken for three bytes,
  `usb/descriptor_parser.c:40`, and the fourth for an item); an Output item.
* `FieldValue`: what lies behind a report is memory of any content.
* `SettingsStore`: a document is one string for each path; numbers and truth values, which
  are not cut, are short strings. Freed memory may give a wrong value or nothing.
* `WebSession`: scans and the contents of status messages are left out. Three ends of the
  code are in the model as they are: `connecting` stays set when `esp_wifi_connect` returns
  an error (`web/wifi_manager.c:302-306`), `esp_wifi_set_config` during an attempt panics
  (`:300`), and a failed connection sets the flag and restarts.
* `WsClients`: `httpd_get_client_list` fills the array in one step.

**Seen while modelling, and no property's subject.** `run_hid_bridge` routes the data lines
to the microcontroller (`main.c:143`) after `vmon_task` may have routed them to the PC
(`utils/vmon.c:145`). The release of an action comes after 7 ms; the comment at
`ble/hid_actions.c:88` says 50 ms. `process_keyboard_report` forwards the first key code
only (`hid_bridge.c:535-537`), and the array of modifiers is not initialised before a report
without modifiers is read (`hid_bridge.c:244-262`). `vmon_task` skips its delay once
charging is finished; the ADC readings still block.

## 4. Runs

| Run | Result | Shows |
|---|---|---|
| `bridge_safety` | passes, 3.0 million states | `TypeOK`, `MutexProtectsLifecycle`, `MutexHeldByWorker`, `ActiveMeansUp`, `TimersDeletedOnlyForSleep` |
| `bridge_liveness` | passes, 23 thousand states | `InitOnlyWhenDown`, `ImplementsSwitch`, `PausedWakes`, `IdleDeviceSleeps` |
| `never_sleep` | violated | the deep sleep timer ignores the no-sleep mode of SW2 |
| `double_init` | violated | a button initialises a stack that a report has just brought up |
| `deinit_panic` | violated | a wholly successful `hid_bridge_deinit` gives a deleted mutex |
| `dormant_timer` | violated | after a wake-up without a further report light sleep never comes |
| `device_parts` | passes, see below | charger, actions, reports, USB devices, descriptors |
| `services` | passes, see below | buttons, knob, saved host, settings, web, clients, updates |
| `inactivity_shutdown` | violated | the inactivity task deletes itself before it stops the Wi-Fi |
| `mouse_safety` | passes, 149 thousand states | `TypeOK`, `SumBounded`, `PendingIsServed`, `MotionComesOut` |
| `mouse_motion` | violated | a change of buttons drops the report's movement and sends the sum twice |
| `mouse_buttons` | violated | a release in the report that makes the mouse fast never reaches the host |

**The runs over many parts.** `MCDeviceParts` and `MCServices` hold a variable `part`: the
initial state chooses a part, and that part alone takes steps. The parts share no variable,
so this loses no behaviour of any of them, and their state spaces add up. Every invariant
speaks of one part and is checked in all its states.

| Run | States | Part | Properties |
|---|---|---|---|
| `device_parts` | 1.52 million | charging | `ChargerFollowsPhase`, `SlowPhaseIsLimited`, `UnplugClears`, `WarningsStay` |
| | | cache | `CacheAnswersRightly` |
| | | reports | `NoStuckAction` |
| | | lookup | `ReportsKeepTheirHandle` |
| | | usb | `ReadWithOwnMap`, `NoInterfaceForgotten` |
| | | parser | `AxesWhereDeclared` |
| | | field | `FieldReadRightly` |
| | | all | `PartsTypeOK` |
| `services` | 588 thousand | buttons | `PressAnswered`, `HeldAtBootIsSilent`, `ReleaseIsSeen` |
| | | encoder | `RestartNeedsHold`, `HoldRestarts` |
| | | host | `NeverMixed`, `KnowsLastHost` (refinement of `LastHost`) |
| | | settings | `SavedSettingsSurvive`, `GettersAnswerRightly` |
| | | web | `SavedCredentialsWorked`, `FlagIsForOneBoot`, `HandlerReturns` |
| | | clients | `LiveClientsAreServed` |
| | | ota | `DeviceStaysBootable` |
| | | all | `ServicesTypeOK` |
| `inactivity_shutdown` | 33 thousand | `WebSession` alone | `InactivityStopsWifi`, violated: `stop_webserver` deletes the task that calls it |

**Their bounds.** Two tasks wherever tasks race, since every race in the table of histories
takes two, and the theorems hold for any number. The action cache has two rows and four
names, one of them too long for a row and one unknown: rows are evicted, cut and parsed
again. The second lookup cache has two rows and compares one, as the code compares fewer
than it keeps. The event queue has two places for a device of two interfaces and three
pluggings: an event of a device that is gone, a full queue and a new device with the map of
an old one all occur. One of three kinds of device declares the id 3, one beyond a table of
three entries. Descriptors have up to six items with two usages, two report ids, counts of
one and two, at most four fields and three reports: each limit is reached. A byte has three
bits and a report three bytes, so that a field may touch three bytes and be one bit wider
than the widest allowed; every field within these bytes is tried, for reports of no, one,
two and all three of them. The battery has four readings, one on each side of every
threshold the parts compare it with. `Threshold`, `Debounce` and `MaxGap` are in the code's
proportions of a press several polls long, bouncing, and polls that are late. Two
credentials, one of which works, two retries and two events under way let an old event
answer a new request. Three pieces of an image are a first, a middle and a last one. One row
in the getters' cache makes every second path empty it; the values are shorter than a task's
buffer, longer than it, and longer than a row. The array of WebSocket clients has two places
for two sockets: which of them are connected, and so what each place holds, changes under a
broadcast.

**Their fairness.** `ServicesFairness` gives weak fairness to the polls of the buttons, to
the encoder's task and the clock, and in the web stack to `web_services_task`, the event
task and the server's task: each is a FreeRTOS task that the scheduler runs when it is ready,
and each wait in them has a timeout. Nothing is assumed of the driver, the page, the pins
or the power. `device_parts` has no fairness and no liveness property.

**Deadlock** is not checked in these two runs: a bounded descriptor ends, a field has been
read, no fourth device is plugged in, a restarted device does nothing more in `RotaryEncoder`, a
lookup stops after a meeting.

**Bounds of the bridge and mouse runs.** One buttons task beside the report task is enough
for the races of the two kinds of wake-up: a second one runs the same code as the first, and
the theorems hold for any set. `SleepThreshold` stands for 3 minutes of 35 ms ticks; 2, and
3 in the liveness run, let the counter be reset half-way. One failing part in each direction
(`bluedroid_enable` up, `controller_enable` down) gives failures that leave the stack
half-way; every part that is already up or down fails by itself besides. Settings:
`AllSettings` holds one record for each branch of the callbacks (both sleeps, one sleep,
sleep off, deep sleep off, SW2 held). All events of the surroundings are on in
`bridge_safety`.

In the mouse runs the sums have 8 values, a report moves by at most one and batches are 2 or 3
reports: a batch fits, one report more than a full batch would not. The threshold of 2
replaces 5 fast reports. The two violations need no host that leaves and no pause, so
`HostEvents` is empty there.

In `bridge_liveness` inputs and init failures are left out on purpose: with a button the
double initialisation of `double_init` breaks `InitOnlyWhenDown` and the switch, and an
initialisation that fails half-way makes every retry fail, so that no wake-up can be
promised. What remains is a statement about USB wake-ups.

**Fairness of the bridge and mouse runs.** The scheduler runs every ready task, so each
task's next step is weakly fair: `SchedulerFairness` names the boot, the timer daemon (an
armed timer fires), the main loop, the power monitor's teardown, the Bluedroid task's own
work and each waking task. A task that waits for the mutex has its timeout as an
alternative, so weak fairness is enough. `FairSpec` adds that whoever uses the USB device
goes on doing so (a mouse that is moved sends more than one report). Nothing is assumed of
hosts, supply, Wi-Fi or resets.

In `MouseAccumulator` the only fairness is that of the periodic timer's callback
(`WF_vars(Callback)`); nothing is assumed of reports.

**Liveness read carefully.** `PausedWakes` and `IdleDeviceSleeps` count leaving the state
"on" as an answer. `PausedWakes` holds in spite of the leak of the failed pause (below),
because that one leaves `active` TRUE: such a bridge is deaf, but not paused.

**What the code really does on errors.** `MutexHeldByWorker` has an exception, `Leaked`: a
failed pause returns with the mutex (`hid_bridge.c:124-126`). The property pins it down:
this is the only leak, and the bridge then still counts the stack as active with its events
switched off. `Settled` in `ActiveMeansUp` excludes it, since a leaked mutex is not free.

## 5. Proofs

### The bridge

`HidBridgeProofs` proves, for every set of input tasks, every set of settings and events,
every threshold and every choice of failing calls (the assumptions are the four named
`ASSUME`s of `HidBridge` and `BleStack`, which TLC evaluates on every run):

| Theorem | States |
|---|---|
| `TypeCorrect` | `Spec => []TypeOK` |
| `MutualExclusion` | `Spec => []MutexProtectsLifecycle` |
| `MutexAlwaysGivenBack` | `Spec => []MutexHeldByWorker` |
| `TimersLastUntilSleep` | `Spec => []TimersDeletedOnlyForSleep` |
| `ActiveFlagIsTrue` | `Spec => []ActiveMeansUp` |
| `ReportInitsOnlyWhenDown` | without input tasks and init failures, `Spec => []InitOnlyWhenDown` |
| `BridgeIsASwitch` | without input tasks and init failures, `Spec => ImplementsSwitch` |
| `AwakeNeverPanics` | no step of a settled bridge with an active stack ends in a panic |
| `NoSleepModeAsFarAsItGoes` | with SW2 held at boot no pause begins, and a deep sleep only with deep sleep and both sleeps enabled |
| `NoSleepModeHoldsWithoutDeepSleep` | if no setting enables both, `Spec => []NoSleepModeHolds` |

The arguments:

* *Types.* `idleTicks <= SleepThreshold` is not inductive; `CountingBelow` adds that the main
  loop is strictly below the threshold while it still counts.
* *Mutual exclusion* is inductive with `TypeOK`: a task enters `Locked` only with a free
  mutex, and nobody gives a mutex it does not own.
* *Mutex given back.* The leak must be recognised at the end of the pause: `PauseIsDeaf`
  (events are off during a pause) gives the second half, `BootIsQuiet` excludes a boot
  that would switch them on again.
* *Timers.* The only deletion is `BridgeDeinit`; `SleepIsCommitted` shows that a task that is
  on its way to deep sleep stays so until the device is off.
* *Active flag.* Its invariant follows the stack through every label: up and hearing while
  nobody works, `InitHearsNext` (initialisation leaves events on), and that a failed pause
  keeps the mutex, so that the state after it is never settled.
* *Initialisation.* `DownWhenInactiveNext`: with only reports waking it, an inactive bridge
  has nothing of the stack up, because a failed pause sets the flag again and the main
  loop's teardown only takes parts down.
* *Switch.* `SwitchInv` joins the last two with what the mapping needs where it reads the
  labels: a checked inactivity callback finds the stack active (`CheckedIsActive`), and
  nobody is at work during the boot (`BootIsIdle`). Each step then is the switch's own, or
  leaves `SwitchMode` as it was (`SwitchUnmoved`).
* *Panics.* The four ways into a panic are excluded by four of the properties above, step by
  step: a settled bridge has both timers, a live statistics task, and nobody inside the
  initialisation or `hid_bridge_deinit`. So the panics the model has (`deinit_panic`, a
  button used during the way to deep sleep, an initialisation of a stack that is up) all
  belong to a bridge that is paused, at work on its stack, left with the mutex by a failed
  pause, or leaving.
* *No-sleep mode.* `AwakeAsSet` is inductive with the types. It shows that the violation of
  `never_sleep` has one cause only, the deep sleep timer's callback.

### The mouse path

`MouseAccumulatorProofs` proves for every width of the sums, every set of button states and
every threshold:

| Theorem | States |
|---|---|
| `MouseTypeCorrect` | `Spec => []TypeOK` |
| `SumNeverWraps` | `Spec => []SumBounded` |
| `PendingServed` | `Spec => []PendingIsServed` |
| `MotionIsKeptOtherwise` | `Spec => [][Balanced /\ ~MotionGoesAstray => Balanced']_vars` |
| `SlowMiceLoseNothing` | `Spec => [](~highSpeed => MotionForwarded)` |

`Inv` is their conjunction with `StillCounting` (a device not yet known to be fast is below
the threshold, which the type of the counter needs). The three parts need each other: a sum
keeps its type because it does not wrap, and it is bounded on the plain path because what is
pending always has a timer. The assumption that matters is `BatchAssumption`: a full batch
fits into the sum. For the largest batch, 7, it limits a report to 18 wheel or pan steps
(8-bit sums) and to a movement of 4681 (16-bit); beyond that the sums of the code do wrap.

The last two complete what the run `mouse_motion` begins. `MotionForwarded` is violated; so
`Balanced` says what should always hold (what the host is owed is what waits in the sum,
less what the callback has sent and not yet cleared), and `MotionGoesAstray` lists every
step that can break it: a flush before the batch is full, which keeps the sum it sends, or
one that drops its own report's movement (`FlushesAstray`); a report between two steps of
the timer's callback (`CallbackAstray`); a sum left behind by a host that went
(`HostInherits`). Without any one of the three TLC finds a counterexample. The arithmetic is
modulo the width of the sums (`WrapAgain`), and `OnlyFastWaits` excludes the clean-up in
`PlainReport`, which would drop movement as well.

### The other parts

Every theorem here holds for all values of the constants that the `ASSUME`s of its module
allow (any number of tasks, rows, hosts, sockets, readings); TLC evaluates each `ASSUME`.

| Module | Theorems |
|---|---|
| `SavedDeviceProofs` | `DeviceTypeCorrect`; `AddressHasItsType` (`NeverMixed`); `ImplementsLastHost` (`KnowsLastHost`); `StoreTypeCorrect`; `SavedSettingsLast` (`SavedSettingsSurvive`); `GettersAreRight` (`GettersAnswerRightly`) |
| `ChargingProofs` | `ChargingTypeCorrect`; `UnpluggingClears` (`UnplugClears`); `ChargerAsPhase` (`ChargerFollowsPhase`); `SlowPhaseHasTimer` (`SlowPhaseIsLimited`); `WarningsRemain` (`WarningsStay`) |
| `ParserProofs` | `ParserTypeCorrect`; `AxesRight` (`AxesWhereDeclared`); `FieldTypeCorrect`; `FieldsReadRight` (`FieldReadRightly`); `OneNumberPerBits` |
| `InputProofs` | `ButtonTypeCorrect`; `EveryPressAnswered` (`PressAnswered`); `BootButtonsSilent` (`HeldAtBootIsSilent`); `EncoderTypeCorrect`; `OnlyAHoldRestarts` (`RestartNeedsHold`) |
| `DevicePartsProofs` | `ReportTypeCorrect`; `NoActionSticks` (`NoStuckAction`); `LookupTypeCorrect`; `HandlesAreRight` (`ReportsKeepTheirHandle`); `UsbTypeCorrect`; `NoneIsForgotten` (`NoInterfaceForgotten`); `ReportsReadRight` (`ReadWithOwnMap`); `CacheTypeCorrect`; `CachedActionsAreRight` (`CacheAnswersRightly`); `PartsAreThemselves`; `PartsTypeCorrect` (`PartsTypeOK`) |
| `ServicesProofs` | `WebTypeCorrect`; `FlagLastsOneBoot` (`FlagIsForOneBoot`); `OnlyWorkingCredentials` (`SavedCredentialsWorked`); `ClientTypeCorrect`; `LiveClientsServed` (`LiveClientsAreServed`); `OtaTypeCorrect`; `AlwaysBootable` (`DeviceStaysBootable`); `ServicesAreThemselves`; `ServicesTypeCorrect` (`ServicesTypeOK`) |

The inductive invariants, and what each adds:

* *Saved device.* `MatchInv` says at each step of a save or a load which half of the pair is
  already right (`SavedPart`, `LoadedPart`), that at most one of them runs unless they
  crossed (`OneAtATime`), and that the keys agree unless the last save was torn
  (`FlashMatches`). For the refinement, `OriginInv` says where a cached address came from
  (`CacheComesFrom`), and that without a crossing a load runs only before the first save
  (`FirstSave`); each step then is `HostComes`, `Remember`, `Store`, `Recall`, `Muddle`,
  `Restart` or a stutter of `LastHost`.
* *Settings.* `UpdateOnItsWay` follows the document from the page to NVS and RAM. `GetInv`
  adds that all rows of the cache hold the present document's values, cut to a row
  (`RowsHold`), except for one claimed row, whose owner is alone (`OneFiller`), and what each
  reader holds (`ReaderRight`); both only until a reader goes on in a freed text, the bounds
  of the array beyond that. `CutTwice` says that what fits into a buffer survives the row.
* *Charging.* `PhaseInv`: without an overtaken callback there is no phase without a supply, a
  callback under way keeps the conditions it has tested (`CallbackHolds`), and a slow phase
  has its timer (`PhaseHolds`). It needs only the types besides.
* *Buttons.* `age` is the time the press has lasted up to the threshold (`AgeIsKept`), and a
  press gets its answer when it becomes long and none before (`AnswerWhenLong`).
* *Action cache.* `Unraced`: one task at most is inside; it has room for its row, the
  row it has found or half filled is that of its name, and every filled row means what its
  name says. That
  the first match exists is `LeastExists`, by the well-foundedness of the natural numbers.
* *Encoder.* `EncoderInv`: the queued edges lead from what the task believes to what the
  knob is (`EdgesAlternate`); when none is queued, the press is no older than the knob was held,
  but for one pass (`AgeIsNear`).
* *Reports.* `HeldIsAccounted`: whatever the host takes for pressed has a sender, a timer or
  the USB keyboard that is still to release it, or one of the two named exceptions.
* *Lookup.* `LookupInv`: a row of the direct cache is empty or its own (`DirectTrue`), at most
  one sender writes (`OneWriter`), every complete row maps a
  key to itself (`RowsAreTrue`), and a half-written one has the key of its writer.
* *USB host.* `EventsOfDevice`: queued events of the present handle are for interfaces the
  device has, and what the task has in hand past the opening is open. On that rest
  `NoneForgotten` (each interface is flagged and started, under way or known to be lost) and
  `MapsRight` (as long as every id had an entry, started interfaces, and the one about to be,
  have their own map, and the lookup table leads each id to its own report: `OwnMap`,
  `LeadsTo`). `DeclaredAssumption` says that there are finitely many interfaces and that
  the declared ids are first bytes.
* *Field.* `FieldInv`: the loop stands at the next bit (`AtNextBit`), and `value` is a number
  of as many bits as were taken, each of them at its place (`TakenRightly`). That a byte's share
  lands where it belongs, that it lies in every report that has the field (`ByteInReport`), and
  that the sign extension keeps the bits, are lemmas about
  division by powers of two. `FieldReadRightly` asks for a number of the field's range that
  has its bits; `OneNumberPerBits` proves that there is only one, so it says which.
* *Parser.* `ParserInv`: as long as the descriptor has no odd form, each report has one
  table (`OneTableEach`), the stack of the current one has the usages in force
  (`StackIsLocal`), a range that begins with an axis is known to hold one (`RangesKnown`), every
  table has the bits and controls that its report means
  (`TablesMeant`), and a report without a table means nothing (`OthersEmpty`). The length of
  the descriptor, the sizes, counts and limits are arbitrary.
* *Parts together.* A step of `MCDeviceParts` or `MCServices` leaves the variables of all
  parts but one alone. So each behaviour of the composition is one of every part's
  specification (`PartsAreThemselves`, `ServicesAreThemselves`): every theorem about a part
  holds of what the runs `device_parts` and `services` explore.
* *Web session.* `FlagTaken` extends the property to the start-up. `NvsTrue` follows the two
  entries of the credentials through the save. `RequestApart`: what is configured is what
  the request asked for, and unless it met traces of an older one so is what is tried,
  and a success bit, or an address on its way (`IpUnderWay`), means that those credentials
  have been accepted.
* *Clients.* `CastHasList`: every entry a broadcast may come to holds a socket, whoever filled
  it. `FailuresNoted`: while nothing collided, one task at a time adds to the list,
  what it adds is not there yet and belongs to a client that is gone or about to be closed,
  and no socket is listed twice, so that removing the first match removes it.
* *Update.* `BootInv`: the slot to boot is whole and the other one is only written while the
  running one is verified (`WriterIsVerified`), so that one verified image always remains.

### Only model-checked

* Liveness under fairness, which is beyond this prover: `PausedWakes`, `IdleDeviceSleeps`,
  `MotionComesOut`, `ReleaseIsSeen`, `HoldRestarts`, `HandlerReturns`.
* The violations. Of two of them, `never_sleep` and `mouse_motion`, the proofs say when the
  property does hold; `InitOnlyWhenDown`, violated by `double_init`, is a theorem without
  input tasks.

The provers have no induction over an operator. Where a proof needs one, as for the powers
of two (`TwoTo`, a recursive function) and the bits of a number, it is done over a set:
`AllNumbers` says that a set of naturals with 0 and the successor of each of its members is
all of them, and follows from the well-foundedness of `<`.

## 6. Not modelled

* The captive DNS server (`web/dns_server.c`): a stateless answer to each datagram.
* LED patterns (`utils/rgb_leds.c`): colours and animation frames; nothing relies on them.
* ADC and temperature sensor, task monitor: sampling, scaling and printing.
* The ULP program: it is not loaded. The web pages: read only for what they promise.
* In modelled components: the contents of keyboard and mouse reports beyond the fields
  (`process_keyboard_report`, `process_mouse_report`), advertising parameters and security
  callbacks, the handlers that serve files and redirect to the portal, Wi-Fi scans, parsing
  of WebSocket commands, usage of names in `hid_actions.c` (a name means itself), the
  details of `usb_hid_host_deinit` (one step of `HidBridge`).
* Code nobody calls: `clear_saved_device`, `get_saved_device`,
  `connect_wifi_with_stored_credentials`, `disable_wifi_and_web_stack`.

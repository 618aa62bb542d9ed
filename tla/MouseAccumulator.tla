-------------------------- MODULE MouseAccumulator --------------------------
(***************************************************************************)
(* How mouse reports get to the host: ble_hid_device_send_mouse_report and *)
(* accumulator_timer_callback of main/ble/ble_hid_device.c, with the one   *)
(* buffer that all senders of main/ble/esp_hidd_prf_api.c share.           *)
(*                                                                         *)
(* Five reports less than 6 ms apart make a device "high speed" for good.  *)
(* From then on movement is summed up and sent when a batch is full or the *)
(* accumulator timer fires.  The USB task (priority 16) preempts the timer *)
(* daemon (priority 1, same core) anywhere in the callback, never the other*)
(* way round: a report is one step, the callback is four.                  *)
(*                                                                         *)
(* One axis stands for x, y, wheel and pan, which are treated alike; its   *)
(* sum has the width of the C variable (2 * Half values).                  *)
(***************************************************************************)
EXTENDS Integers

CONSTANTS Half,           \* a sum lies in -Half .. Half - 1
          MaxMove,        \* the longest movement of one report
          Buttons,        \* the states of the buttons; 0 is "none pressed"
          BatchSizes,     \* s_batch_size of the three speed modes
          FastThreshold,  \* HIGH_SPEED_DEVICE_THRESHOLD_EVENTS
          HostEvents      \* which of "link" and "pause" may happen

ASSUME WidthAssumption == Half \in Nat \ {0} /\ MaxMove \in Nat
ASSUME ButtonsAssumption == 0 \in Buttons
ASSUME BatchAssumption ==
  /\ BatchSizes \subseteq Nat \ {0} /\ BatchSizes # {}
  \* A full batch fits into the sum.
  /\ \A n \in BatchSizes : n * MaxMove < Half
ASSUME FastAssumption == FastThreshold \in Nat \ {0}
ASSUME EventsAssumption == HostEvents \subseteq {"link", "pause"}

VARIABLES
  stackUp,      \* the BLE stack is up
  link,         \* a host is connected
  connected,    \* s_connected
  seen,         \* s_last_event_time > 0
  fastEvents,   \* s_fast_events_count
  highSpeed,    \* s_is_high_speed
  batchSize,    \* s_batch_size
  batchCount,   \* s_batch_count
  acc,          \* s_acc_x (_y, _wheel, _pan)
  accButtons,   \* s_acc_buttons
  timer,        \* s_accumulator_timer exists (it runs from its creation on)
  buffer,       \* s_report_buffer
  cb,           \* where accumulator_timer_callback stands
  args,         \* the arguments of its esp_hidd_send_mouse_value
  device,       \* the state of the mouse's buttons
  host,         \* the state of the buttons as the host knows it
  owed          \* movement received from the mouse and not yet sent to the host

speed == << seen, fastEvents, highSpeed >>
sums  == << batchCount, acc, accButtons >>
view  == << device, host, owed >>
vars  == << stackUp, link, connected, speed, batchSize, sums, timer, buffer,
            cb, args, view >>

Moves == -MaxMove..MaxMove
Sum == -Half..(Half - 1)
Frame == [motion : Int, buttons : Buttons]

\* Conversion to a signed integer of 2 * Half values.
Wrap(n) == ((n + Half) % (2 * Half)) - Half

\* Every variable has its type.
TypeOK ==
  /\ stackUp \in BOOLEAN /\ link \in BOOLEAN /\ connected \in BOOLEAN
  /\ seen \in BOOLEAN /\ highSpeed \in BOOLEAN
  /\ fastEvents \in 0..FastThreshold
  /\ batchSize \in BatchSizes /\ batchCount \in Nat
  /\ acc \in Sum /\ accButtons \in Buttons
  /\ timer \in BOOLEAN
  /\ buffer \in Frame /\ args \in Frame
  /\ cb \in {"idle", "loaded", "filled", "sent"}
  /\ device \in Buttons /\ host \in Buttons /\ owed \in Sum

Still == [motion |-> 0, buttons |-> 0]

Init ==
  /\ stackUp = TRUE /\ link = FALSE /\ connected = FALSE
  /\ seen = FALSE /\ fastEvents = 0 /\ highSpeed = FALSE
  /\ batchSize \in BatchSizes /\ batchCount = 0
  /\ acc = 0 /\ accButtons = 0 /\ timer = FALSE
  /\ buffer = Still /\ cb = "idle" /\ args = Still
  /\ device = 0 /\ host = 0 /\ owed = 0

-----------------------------------------------------------------------------
(* Sending.                                                                *)

\* What is in the buffer goes to the host, if there is one; new is the movement
\* that has just come from the mouse.
Deliver(frame, new) ==
  IF stackUp /\ link
  THEN host' = frame.buttons /\ owed' = Wrap(owed + new - frame.motion)
  ELSE host' = host /\ owed' = 0

\* esp_hidd_send_mouse_value, called by the USB task.
SendNow(frame, new) == buffer' = frame /\ Deliver(frame, new)

-----------------------------------------------------------------------------
(* check_high_speed_device, for a report that comes less than 6 ms after   *)
(* the one before (fast) or later.                                         *)

\* Mutant of CheckHighSpeed: no early return for a device known to be fast.
CheckHighSpeedAgain(fast) ==
  /\ seen' = TRUE
  /\ fastEvents' = IF ~seen THEN fastEvents ELSE IF fast THEN fastEvents + 1 ELSE 0
  /\ highSpeed' = (highSpeed \/ (seen /\ fast /\ fastEvents + 1 >= FastThreshold))

CheckHighSpeed(fast) ==
  IF highSpeed THEN UNCHANGED speed
  ELSE /\ seen' = TRUE
       /\ fastEvents' = IF ~seen THEN fastEvents
                        ELSE IF fast THEN fastEvents + 1 ELSE 0
       /\ highSpeed' = (seen /\ fast /\ fastEvents + 1 >= FastThreshold)

-----------------------------------------------------------------------------
(* ble_hid_device_send_mouse_report(dx, b), after its s_connected check.   *)

\* Mutant of Flush: the count restarts with every flush, the sum does not.
FlushRecounts(dx, b) ==
  /\ SendNow([motion |-> acc, buttons |-> b], dx)
  /\ accButtons' = b
  /\ acc' = IF batchCount >= batchSize THEN 0 ELSE acc
  /\ batchCount' = 0

\* The buttons have changed or the batch is full: the sum goes out, with the new
\* buttons and without dx.  It is only cleared if the batch was full.
Flush(dx, b) ==
  /\ SendNow([motion |-> acc, buttons |-> b], dx)
  /\ accButtons' = b
  /\ IF batchCount >= batchSize
     THEN acc' = 0 /\ batchCount' = 0
     ELSE UNCHANGED << acc, batchCount >>

Accumulate(dx, b) ==
  /\ acc' = Wrap(acc + dx)
  /\ batchCount' = batchCount + 1
  /\ accButtons' = b
  /\ owed' = IF link THEN Wrap(owed + dx) ELSE 0
  /\ UNCHANGED << buffer, host >>

\* Mutant of HighSpeedReport: the timer is created with the first flush only.
HighSpeedReportLateTimer(dx, b) ==
  IF accButtons # b \/ batchCount >= batchSize
  THEN timer' = TRUE /\ Flush(dx, b)
  ELSE timer' = timer /\ Accumulate(dx, b)

HighSpeedReport(dx, b) ==
  /\ timer' = TRUE
  /\ IF accButtons # b \/ batchCount >= batchSize
     THEN Flush(dx, b)
     ELSE Accumulate(dx, b)

PlainReport(dx, b) ==
  /\ SendNow([motion |-> dx, buttons |-> b], dx)
  /\ timer' = FALSE
  /\ IF timer THEN acc' = 0 /\ accButtons' = 0 ELSE UNCHANGED << acc, accButtons >>
  /\ UNCHANGED batchCount

Report(dx, b, fast) ==
  /\ stackUp /\ connected
  /\ device' = b
  /\ CheckHighSpeed(fast)
  /\ IF highSpeed' THEN HighSpeedReport(dx, b) ELSE PlainReport(dx, b)
  /\ UNCHANGED << stackUp, link, connected, batchSize, cb, args >>

-----------------------------------------------------------------------------
(* accumulator_timer_callback.                                             *)

CallbackLoads ==
  /\ cb = "idle" /\ timer
  /\ acc # 0 \/ accButtons # 0
  /\ args' = [motion |-> acc, buttons |-> accButtons]
  /\ cb' = "loaded"
  /\ UNCHANGED << stackUp, link, connected, speed, batchSize, sums, timer,
                  buffer, view >>

CallbackFills ==
  /\ cb = "loaded"
  /\ buffer' = args
  /\ cb' = "filled"
  /\ UNCHANGED << stackUp, link, connected, speed, batchSize, sums, timer,
                  args, view >>

CallbackSends ==
  /\ cb = "filled"
  /\ Deliver(buffer, 0)
  /\ cb' = "sent"
  /\ UNCHANGED << stackUp, link, connected, speed, batchSize, sums, timer,
                  buffer, args, device >>

\* Mutant of CallbackClears: the count of the batch is cleared, not the sum.
CallbackClearsCount ==
  /\ cb = "sent"
  /\ batchCount' = 0
  /\ cb' = "idle" /\ args' = Still
  /\ UNCHANGED << stackUp, link, connected, speed, batchSize, acc, accButtons,
                  timer, buffer, view >>

\* The sum is cleared, whatever has been added to it since it was read; the
\* buttons and the count of the batch stay.
CallbackClears ==
  /\ cb = "sent"
  /\ acc' = 0
  /\ cb' = "idle" /\ args' = Still
  /\ UNCHANGED << stackUp, link, connected, speed, batchSize, batchCount,
                  accButtons, timer, buffer, view >>

Callback == CallbackLoads \/ CallbackFills \/ CallbackSends \/ CallbackClears

-----------------------------------------------------------------------------
(* The host and the bridge.                                                *)

\* A host that connects knows of no pressed button.
Connect ==
  /\ stackUp /\ ~link
  /\ link' = TRUE /\ connected' = TRUE
  /\ host' = 0 /\ owed' = 0
  /\ UNCHANGED << stackUp, speed, batchSize, sums, timer, buffer, cb, args, device >>

Disconnect ==
  /\ "link" \in HostEvents /\ link
  /\ link' = FALSE /\ connected' = FALSE
  /\ host' = 0 /\ owed' = 0
  /\ UNCHANGED << stackUp, speed, batchSize, sums, timer, buffer, cb, args, device >>

\* ble_hid_device_deinit for light sleep, called from the timer daemon (so not
\* within the callback) at least 20 s after the last report, when the timer (at
\* most 11 ms) has long cleared the sums.  s_connected stays.
Pause ==
  /\ "pause" \in HostEvents /\ stackUp /\ cb = "idle" /\ acc = 0
  /\ stackUp' = FALSE /\ link' = FALSE /\ timer' = FALSE
  /\ host' = 0 /\ owed' = 0
  /\ UNCHANGED << connected, speed, batchSize, sums, buffer, cb, args, device >>

\* ble_hid_device_init reads the speed mode again.
Resume ==
  /\ ~stackUp
  /\ stackUp' = TRUE
  /\ batchSize' \in BatchSizes
  /\ UNCHANGED << link, connected, speed, sums, timer, buffer, cb, args, view >>

Next ==
  \/ \E dx \in Moves, b \in Buttons, fast \in BOOLEAN : Report(dx, b, fast)
  \/ Callback
  \/ Connect \/ Disconnect \/ Pause \/ Resume

Spec == Init /\ [][Next]_vars

\* The timer is periodic: as long as it exists its callback runs again.
FairSpec == Spec /\ WF_vars(Callback)

-----------------------------------------------------------------------------
\* The sum never wraps round (which would send the pointer back): it holds at
\* most the reports of the current batch.
SumBounded ==
  /\ -(batchCount * MaxMove) <= acc /\ acc <= batchCount * MaxMove
  /\ \E n \in BatchSizes : batchCount <= n

\* Movement that waits has a timer and a stack that will send it.
PendingIsServed == acc # 0 => timer /\ stackUp

\* What was summed up goes out (or, without a host, is dropped).
MotionComesOut == acc # 0 ~> acc = 0

\* With a host connected all the time, the host has got exactly the movement of
\* the mouse whenever nothing is pending.
MotionForwarded == acc = 0 /\ cb = "idle" => owed = 0

\* The host comes to know the buttons as they are: no press or release is lost.
ButtonsArrive == []<>(link => host = device)
=============================================================================

---------------------------- MODULE RotaryEncoder ----------------------------
(***************************************************************************)
(* main/utils/rotary_enc.c: rotary_enc_task, the two interrupt handlers    *)
(* that feed it through queues of two places, and the long press callback  *)
(* of main.c, which restarts the device.                                   *)
(*                                                                         *)
(* The task calls the turn and click callbacks itself.  They may start     *)
(* the BLE stack, so that a pass of the loop takes up to MaxBlock; the     *)
(* interrupts go on meanwhile.  The task reads the clock once, at the top  *)
(* of the pass.  The model begins when app_main has set the callbacks.     *)
(***************************************************************************)
EXTENDS Naturals, Sequences

CONSTANTS HoldTime,   \* s_long_press_threshold
          MaxBlock    \* the longest time from one pass of the loop to the next

ASSUME EncoderTimes == HoldTime \in Nat \ {0} /\ MaxBlock \in Nat \ {0}

VARIABLES
  down,        \* the knob is pressed
  edges,       \* button_state_queue
  dropped,     \* history: that queue was full when an edge came
  turns,       \* how many turns wait in enc_queue
  taskAt,      \* where rotary_enc_task is
  snap,        \* time since it has read current_time
  isPressed,   \* is_pressed
  pressAge,    \* time since press_start_time
  rest,        \* the last click is more than 50 ms old
  knobHeld     \* history: how long the knob was held, this or the last time

encoderVars == << down, edges, dropped, turns, taskAt, snap, isPressed, pressAge, rest,
                  knobHeld >>

\* Times beyond this one are all the same.
LongTime == HoldTime + MaxBlock
Later(t) == IF t < LongTime THEN t + 1 ELSE t

\* Every variable has its type.
EncoderTypeOK ==
  /\ down \in BOOLEAN /\ edges \in Seq(BOOLEAN) /\ Len(edges) <= 2
  /\ dropped \in BOOLEAN /\ turns \in 0..2
  /\ taskAt \in {"waiting", "turning", "button", "clicking", "restarted"}
  /\ snap \in 0..MaxBlock
  /\ isPressed \in BOOLEAN /\ pressAge \in 0..LongTime
  /\ rest \in BOOLEAN /\ knobHeld \in 0..LongTime

EncoderInit ==
  /\ down = FALSE /\ edges = << >> /\ dropped = FALSE /\ turns = 0
  /\ taskAt = "waiting" /\ snap = 0
  /\ isPressed = FALSE /\ pressAge = 0 /\ rest = TRUE /\ knobHeld = 0

-----------------------------------------------------------------------------
(* The interrupts and the time.                                            *)

\* click_isr_handler: xQueueSendFromISR does not wait for a place.
KnobPressedOrReleased ==
  /\ taskAt # "restarted"
  /\ down' = ~down
  /\ edges' = IF Len(edges) < 2 THEN Append(edges, ~down) ELSE edges
  /\ dropped' = (dropped \/ Len(edges) = 2)
  /\ knobHeld' = IF down THEN knobHeld ELSE 0
  /\ UNCHANGED << turns, taskAt, snap, isPressed, pressAge, rest >>

\* pcnt_on_reach.
KnobTurned ==
  /\ taskAt # "restarted"
  /\ turns' = IF turns < 2 THEN turns + 1 ELSE turns
  /\ UNCHANGED << down, edges, dropped, taskAt, snap, isPressed, pressAge, rest,
                  knobHeld >>

TimePasses ==
  /\ taskAt # "restarted" /\ snap < MaxBlock
  /\ snap' = snap + 1 /\ pressAge' = Later(pressAge)
  /\ knobHeld' = IF down THEN Later(knobHeld) ELSE knobHeld
  /\ rest' = TRUE
  /\ UNCHANGED << down, edges, dropped, turns, taskAt, isPressed >>

-----------------------------------------------------------------------------
(* rotary_enc_task.                                                        *)

\* The clock is read, and a turn taken if there is one.
PassStarts ==
  /\ taskAt = "waiting"
  /\ snap' = 0
  /\ IF turns > 0 THEN turns' = turns - 1 /\ taskAt' = "turning"
     ELSE turns' = turns /\ taskAt' = "button"
  /\ UNCHANGED << down, edges, dropped, isPressed, pressAge, rest, knobHeld >>

TurnHandled ==
  /\ taskAt = "turning" /\ taskAt' = "button"
  /\ UNCHANGED << down, edges, dropped, turns, snap, isPressed, pressAge, rest,
                  knobHeld >>

\* Mutant of HeldLong: the threshold is counted twice as fast.
HeldLongEarly(age) == 2 * age >= HoldTime + snap

\* The long press is decided by the clock of this pass.
HeldLong(age) == age >= HoldTime + snap

NextEdge(e) == edges # << >> /\ Head(edges) = e

\* press_start_time is the clock of this pass.
PressTaken ==
  /\ NextEdge(TRUE) /\ ~isPressed
  /\ isPressed' = TRUE /\ pressAge' = snap

ReleaseTaken ==
  /\ NextEdge(FALSE) /\ isPressed
  /\ isPressed' = FALSE /\ UNCHANGED pressAge

\* Mutant of NothingTaken: the press starts anew in every pass.
NothingTakenRestartsPress ==
  /\ ~NextEdge(~isPressed)
  /\ pressAge' = snap /\ UNCHANGED isPressed

NothingTaken == ~NextEdge(~isPressed) /\ UNCHANGED << isPressed, pressAge >>

\* The button's half of a pass.  The long press callback deletes the queues and ends
\* in esp_restart.
ButtonHandled ==
  /\ taskAt = "button"
  /\ edges' = IF edges = << >> THEN edges ELSE Tail(edges)
  /\ PressTaken \/ ReleaseTaken \/ NothingTaken
  /\ taskAt' = IF isPressed' /\ HeldLong(pressAge') THEN "restarted"
           ELSE IF isPressed /\ ~isPressed' /\ rest THEN "clicking"
           ELSE "waiting"
  /\ UNCHANGED << down, dropped, turns, snap, rest, knobHeld >>

\* last_click_time is the clock of this pass.
ClickHandled ==
  /\ taskAt = "clicking" /\ taskAt' = "waiting"
  /\ rest' = (snap > 0)
  /\ UNCHANGED << down, edges, dropped, turns, snap, isPressed, pressAge, knobHeld >>

RotaryTask == PassStarts \/ TurnHandled \/ ButtonHandled \/ ClickHandled

EncoderNext == KnobPressedOrReleased \/ KnobTurned \/ TimePasses \/ RotaryTask

EncoderSpec == EncoderInit /\ [][EncoderNext]_encoderVars

\* The callbacks return and the task is scheduled again; time goes on.
EncoderFairness == WF_encoderVars(RotaryTask) /\ WF_encoderVars(TimePasses)

-----------------------------------------------------------------------------
\* As long as no edge is lost the device restarts only after the knob was held for
\* the threshold, but for the time one pass of the loop may take: an edge that comes
\* during a callback counts from before the callback.
RestartNeedsHold ==
  taskAt = "restarted" /\ ~dropped => knobHeld + MaxBlock >= HoldTime

\* As long as no edge is lost, a knob held down for good restarts the device,
\* whatever was turned and clicked before.
HoldRestarts == <>[](down /\ ~dropped) => <>(taskAt = "restarted")
=============================================================================

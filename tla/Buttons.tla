------------------------------ MODULE Buttons -------------------------------
(***************************************************************************)
(* buttons_task of main/utils/buttons.c: one of the four buttons, polled.  *)
(*                                                                         *)
(* The buttons share nothing but the loop, so one stands for each; the     *)
(* callbacks of the others, which the loop waits for, show as polls that   *)
(* come later than the 10 ms of the loop.  Time is counted in 10 ms.       *)
(***************************************************************************)
EXTENDS Naturals

CONSTANTS Threshold,   \* s_long_press_threshold
          Debounce,    \* the 20 ms a state must last
          MaxGap       \* the longest time between two polls

ASSUME ButtonTimes ==
  /\ Threshold \in Nat \ {0} /\ Debounce \in Nat \ {0} /\ MaxGap \in Nat \ {0}

VARIABLES
  first,        \* this is SW1, whose last_state starts as "released"
  pin,          \* the level of the pin: TRUE is "released"
  lastState,    \* last_state
  quiet,        \* time since last_state_time, up to Debounce
  pressed,      \* is_pressed
  age,          \* time since press_start_time, up to Threshold
  long,         \* long_press_detected
  subscribed,   \* the callbacks are set
  heldAtBoot,   \* history: the button has been held since boot
  answers,      \* history: callbacks for the present or last press
  heldFor,      \* history: how long that press lasted, up to TooLong
  unheard       \* history: a callback was not set when that press needed it

buttonVars == << first, pin, lastState, quiet, pressed, age, long, subscribed,
                 heldAtBoot, answers, heldFor, unheard >>

Least(a, b) == IF a <= b THEN a ELSE b

\* Nobody overlooks a press of this length.
TooLong == Threshold + MaxGap

\* Every variable has its type.
ButtonTypeOK ==
  /\ first \in BOOLEAN /\ pin \in BOOLEAN /\ lastState \in BOOLEAN
  /\ quiet \in 0..Debounce
  /\ pressed \in BOOLEAN /\ age \in 0..Threshold /\ long \in BOOLEAN
  /\ subscribed \in BOOLEAN /\ heldAtBoot \in BOOLEAN
  /\ answers \in 0..2 /\ heldFor \in 0..TooLong /\ unheard \in BOOLEAN

\* Mutant of LastStateAtBoot: the initialiser fills the whole array.
AllReleased == TRUE

\* last_state[4] = {true} sets the first element only.
LastStateAtBoot == first

ButtonInit ==
  /\ first \in BOOLEAN /\ pin \in BOOLEAN
  /\ lastState = LastStateAtBoot
  /\ quiet = Debounce
  /\ pressed = FALSE /\ age = 0 /\ long = FALSE
  /\ subscribed = FALSE
  /\ heldAtBoot = ~pin /\ answers = 0 /\ heldFor = 0 /\ unheard = FALSE

-----------------------------------------------------------------------------
\* The pin, bouncing or not.
PinChanges ==
  /\ pin' = ~pin
  /\ heldAtBoot' = FALSE
  /\ UNCHANGED << first, lastState, quiet, pressed, age, long, subscribed, answers,
                  heldFor, unheard >>

\* hid_bridge_init sets the callbacks; buttons_deinit clears them.
Subscribe ==
  /\ subscribed' = ~subscribed
  /\ UNCHANGED << first, pin, lastState, quiet, pressed, age, long, heldAtBoot,
                  answers, heldFor, unheard >>

\* A callback is called if there is one.
Answer == IF subscribed THEN Least(answers + 1, 2) ELSE answers

PressSeen(gap) ==
  /\ pressed' = TRUE /\ age' = 0 /\ long' = FALSE
  /\ answers' = 0 /\ heldFor' = 0 /\ unheard' = FALSE

\* Mutant of ReleaseSeen: the release of a long press is not taken note of.
ReleaseSeenUnlessLong(gap) ==
  LET now == Least(age + gap, Threshold)
      click == ~long /\ now < Threshold
  IN /\ pressed' = long /\ age' = 0 /\ long' = long
     /\ answers' = IF click THEN Answer ELSE answers
     /\ heldFor' = Least(heldFor + gap, TooLong)
     /\ unheard' = (unheard \/ (click /\ ~subscribed))

\* Mutant of ReleaseSeen: the age of the press goes on.
ReleaseSeenKeepsAge(gap) ==
  LET now == Least(age + gap, Threshold)
      click == ~long /\ now < Threshold
  IN /\ pressed' = FALSE /\ age' = age + gap /\ long' = FALSE
     /\ answers' = IF click THEN Answer ELSE answers
     /\ heldFor' = Least(heldFor + gap, TooLong)
     /\ unheard' = (unheard \/ (click /\ ~subscribed))

\* A release is a click if it is seen before the threshold.
ReleaseSeen(gap) ==
  LET now == Least(age + gap, Threshold)
      click == ~long /\ now < Threshold
  IN /\ pressed' = FALSE /\ age' = 0 /\ long' = FALSE
     /\ answers' = IF click THEN Answer ELSE answers
     /\ heldFor' = Least(heldFor + gap, TooLong)
     /\ unheard' = (unheard \/ (click /\ ~subscribed))

\* Mutant of StillPressed: the long press is not remembered.
StillPressedForgets(gap) ==
  LET now == Least(age + gap, Threshold)
      fires == ~long /\ now >= Threshold
  IN /\ pressed' = TRUE /\ age' = now /\ long' = FALSE
     /\ answers' = IF fires THEN Answer ELSE answers
     /\ heldFor' = Least(heldFor + gap, TooLong)
     /\ unheard' = (unheard \/ (fires /\ ~subscribed))

StillPressed(gap) ==
  LET now == Least(age + gap, Threshold)
      fires == ~long /\ now >= Threshold
  IN /\ pressed' = TRUE /\ age' = now /\ long' = (long \/ fires)
     /\ answers' = IF fires THEN Answer ELSE answers
     /\ heldFor' = Least(heldFor + gap, TooLong)
     /\ unheard' = (unheard \/ (fires /\ ~subscribed))

Edge(gap) == quiet + gap >= Debounce /\ pin # lastState

\* One pass of the loop, gap after the last one.
Poll(gap) ==
  /\ IF Edge(gap) THEN lastState' = pin /\ quiet' = 0
     ELSE lastState' = lastState /\ quiet' = Least(quiet + gap, Debounce)
  /\ IF Edge(gap) /\ ~pin /\ ~pressed THEN PressSeen(gap)
     ELSE IF Edge(gap) /\ pin /\ pressed THEN ReleaseSeen(gap)
     ELSE IF pressed THEN StillPressed(gap)
     ELSE UNCHANGED << pressed, age, long, answers, heldFor, unheard >>
  /\ UNCHANGED << first, pin, subscribed, heldAtBoot >>

ButtonPolls == \E gap \in 1..MaxGap : Poll(gap)

ButtonNext == PinChanges \/ Subscribe \/ ButtonPolls

ButtonSpec == ButtonInit /\ [][ButtonNext]_buttonVars

ButtonFairSpec == ButtonSpec /\ WF_buttonVars(ButtonPolls)

-----------------------------------------------------------------------------
\* Every press is answered once, as a click or as a long press, when a callback is
\* set; but one whose release is the first thing the task sees after the threshold
\* gets no answer.
PressAnswered ==
  /\ answers <= 1
  /\ ~pressed /\ answers = 0 =>
       unheard \/ heldFor = 0 \/ heldFor \in Threshold..(TooLong - 1)

\* SW2, SW3 and SW4, which choose a mode while they are held at boot, do nothing
\* else as long as they stay held.
HeldAtBootIsSilent == heldAtBoot /\ ~first => ~pressed /\ answers = 0

\* A button let go is not taken for a pressed one for ever.
ReleaseIsSeen == []<>(pin => ~pressed)
=============================================================================

---------------------------- MODULE ActionReports ----------------------------
(***************************************************************************)
(* What the host sees of an action: execute_*_action and the release timer *)
(* of main/ble/hid_actions.c, and the senders of                           *)
(* main/ble/esp_hidd_prf_api.c, which fill one static buffer and send it.  *)
(*                                                                         *)
(* All run on core 1.  buttons_task and rotary_enc_task (priority 8) may   *)
(* be cut between filling and sending: by each other at a tick, by the USB *)
(* task (16), and by esp_timer (22), which is never cut.  The contents of  *)
(* the buffer are "up" (all zero), "keys" (from the USB keyboard) or       *)
(* "action".  The USB mouse's own reports carry its buttons every time and *)
(* are left out.                                                           *)
(***************************************************************************)
EXTENDS Naturals

CONSTANTS ActionTasks,   \* the tasks that execute actions
          Kinds,         \* the kinds of reports; "keyboard" and "mouse" among them
          MaxTimers      \* the most release timers of a kind (a bound of the model)

ASSUME ReportAssumption ==
  {"keyboard", "mouse"} \subseteq Kinds /\ MaxTimers \in Nat \ {0}

VARIABLES
  buffer,      \* s_report_buffer
  stage,       \* where each task is
  kind,        \* the report it sends
  usbStage,    \* where the USB task is
  usbKeys,     \* the USB keyboard has keys down
  timers,      \* how many release timers of each kind run
  held,        \* what the host takes for pressed, by kind
  lost,        \* history: there was no memory for a release timer
  smeared      \* history: a report that needs no release carried foreign bytes

reportVars == << buffer, stage, kind, usbStage, usbKeys, timers, held, lost, smeared >>

Contents == {"up", "keys", "action"}

\* Every variable has its type.
ReportTypeOK ==
  /\ buffer \in Contents /\ held \in [Kinds -> Contents]
  /\ stage \in [ActionTasks -> {"idle", "press", "sent", "special"}]
  /\ kind \in [ActionTasks -> Kinds]
  /\ usbStage \in {"idle", "filled"} /\ usbKeys \in BOOLEAN
  /\ timers \in [Kinds -> 0..MaxTimers]
  /\ lost \in BOOLEAN /\ smeared \in BOOLEAN

ReportInit ==
  /\ buffer = "up" /\ held = [k \in Kinds |-> "up"]
  /\ stage = [t \in ActionTasks |-> "idle"]
  /\ kind = [t \in ActionTasks |-> "keyboard"]
  /\ usbStage = "idle" /\ usbKeys = FALSE
  /\ timers = [k \in Kinds |-> 0] /\ lost = FALSE /\ smeared = FALSE

-----------------------------------------------------------------------------
\* A task of priority 8 runs while the USB task does not.
TaskGoes(t, from, to) ==
  /\ usbStage = "idle"
  /\ stage[t] = from /\ stage' = [stage EXCEPT ![t] = to]

\* execute_keyboard_action and its siblings: the buffer is filled.
FillPress(t) ==
  /\ TaskGoes(t, "idle", "press")
  /\ \E k \in Kinds : kind' = [kind EXCEPT ![t] = k]
  /\ buffer' = "action"
  /\ UNCHANGED << usbStage, usbKeys, timers, held, lost, smeared >>

SendPress(t) ==
  /\ TaskGoes(t, "press", "sent")
  /\ held' = [held EXCEPT ![kind[t]] = buffer]
  /\ UNCHANGED << buffer, kind, usbStage, usbKeys, timers, lost, smeared >>

\* schedule_release, which may fail for want of memory.
ScheduleRelease(t) ==
  /\ TaskGoes(t, "sent", "idle")
  /\ \/ /\ timers[kind[t]] < MaxTimers
        /\ timers' = [timers EXCEPT ![kind[t]] = @ + 1] /\ UNCHANGED lost
     \/ lost' = TRUE /\ UNCHANGED timers
  /\ UNCHANGED << buffer, kind, usbStage, usbKeys, held, smeared >>

\* execute_special_action: a mouse report without buttons, without a release.  The
\* two switches of the axes send nothing.
FillSpecial(t) ==
  /\ TaskGoes(t, "idle", "special")
  /\ buffer' = "up"
  /\ UNCHANGED << kind, usbStage, usbKeys, timers, held, lost, smeared >>

SendSpecial(t) ==
  /\ TaskGoes(t, "special", "idle")
  /\ held' = [held EXCEPT !["mouse"] = buffer]
  /\ smeared' = (smeared \/ buffer # "up")
  /\ UNCHANGED << buffer, kind, usbStage, usbKeys, timers, lost >>

\* process_keyboard_report: what the USB keyboard reports is passed on.
UsbFills ==
  /\ usbStage = "idle" /\ usbStage' = "filled"
  /\ usbKeys' \in BOOLEAN
  /\ buffer' = IF usbKeys' THEN "keys" ELSE "up"
  /\ UNCHANGED << stage, kind, timers, held, lost, smeared >>

UsbSends ==
  /\ usbStage = "filled" /\ usbStage' = "idle"
  /\ held' = [held EXCEPT !["keyboard"] = buffer]
  /\ UNCHANGED << buffer, stage, kind, usbKeys, timers, lost, smeared >>

\* Mutant of Release: it is always the keyboard that is released.
ReleaseKeyboard(k) ==
  /\ timers[k] > 0
  /\ timers' = [timers EXCEPT ![k] = @ - 1]
  /\ buffer' = "up" /\ held' = [held EXCEPT !["keyboard"] = "up"]
  /\ UNCHANGED << stage, kind, usbStage, usbKeys, lost, smeared >>

\* release_timer_callback, on esp_timer.
Release(k) ==
  /\ timers[k] > 0
  /\ timers' = [timers EXCEPT ![k] = @ - 1]
  /\ buffer' = "up" /\ held' = [held EXCEPT ![k] = "up"]
  /\ UNCHANGED << stage, kind, usbStage, usbKeys, lost, smeared >>

ReportNext ==
  \/ \E t \in ActionTasks :
       \/ FillPress(t) \/ SendPress(t) \/ ScheduleRelease(t)
       \/ FillSpecial(t) \/ SendSpecial(t)
  \/ UsbFills \/ UsbSends
  \/ \E k \in Kinds : Release(k)

ReportSpec == ReportInit /\ [][ReportNext]_reportVars

-----------------------------------------------------------------------------
\* However the senders cut each other's reports, once everything is quiet and the
\* keys of the USB keyboard are up, the host takes nothing for pressed: a report that
\* went wrong is released like any other.  Two cases excepted: there was no memory
\* for the release, or a cursor or wheel action, which has none, was cut.
NoStuckAction ==
  /\ ~lost /\ ~smeared
  /\ \A t \in ActionTasks : stage[t] = "idle"
  /\ usbStage = "idle" /\ ~usbKeys
  /\ \A k \in Kinds : timers[k] = 0
  => \A k \in Kinds : held[k] = "up"
=============================================================================

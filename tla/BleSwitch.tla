------------------------------ MODULE BleSwitch -----------------------------
(***************************************************************************)
(* What hid_bridge.c promises about light sleep, with none of its tasks,   *)
(* timers and locks: the Bluetooth stack is a switch that one change at a  *)
(* time moves between "on" and "paused".                                   *)
(*                                                                         *)
(* A pause starts only from "on" and a wake-up only from "paused" or, to   *)
(* try again, from "stuck"; a change that fails ends in "stuck".  Leaving  *)
(* (deep sleep or a reset) is possible at any time and cannot be undone.   *)
(***************************************************************************)
VARIABLE mode

Modes == {"off", "failed", "on", "pausing", "paused", "waking", "stuck", "leaving"}

SwitchInit == mode = "off"

Moves ==
  {<<"off", "on">>, <<"off", "failed">>,
   <<"on", "pausing">>, <<"pausing", "paused">>, <<"pausing", "stuck">>,
   <<"paused", "waking">>, <<"stuck", "waking">>,
   <<"waking", "on">>, <<"waking", "stuck">>,
   <<"leaving", "off">>}

SwitchNext ==
  \/ <<mode, mode'>> \in Moves
  \/ mode # "off" /\ mode' = "leaving"

SwitchSpec == SwitchInit /\ [][SwitchNext]_mode
=============================================================================

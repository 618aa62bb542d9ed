------------------------------ MODULE BleStack ------------------------------
(***************************************************************************)
(* ble_hid_device_init and ble_hid_device_deinit (main/ble/ble_hid_device.c)*)
(* as functions on the set of parts of the Bluetooth stack that are up.    *)
(*                                                                         *)
(* Each call of the two functions brings one part up or takes one part     *)
(* down, in the order of the source; an error returns at once and leaves   *)
(* what was done so far (there is no roll-back).  The ESP-IDF calls are    *)
(* external: a call fails when the part is already in the requested state, *)
(* and may fail for a reason of its own if it is in FailingInit or         *)
(* FailingDeinit.                                                          *)
(***************************************************************************)
EXTENDS Naturals

CONSTANTS FailingInit,    \* parts whose init call may fail by itself
          FailingDeinit   \* parts whose deinit call may fail by itself

\* The order of ble_hid_device_init; "profile" is esp_hidd_profile_init.
InitOrder == << "controller_init", "controller_enable",
                "bluedroid_init", "bluedroid_enable", "profile" >>

\* The order of ble_hid_device_deinit: not the reverse, the controller is
\* released before bluedroid.
DeinitOrder == << "profile", "bluedroid_enable", "controller_enable",
                  "controller_init", "bluedroid_init" >>

Parts == {"controller_init", "controller_enable",
          "bluedroid_init", "bluedroid_enable", "profile"}

ASSUME FailingAssumption ==
  /\ FailingInit \subseteq Parts \ {"profile"}
  /\ FailingDeinit \subseteq Parts \ {"profile"}

Outcome == [ret : {"ok", "fail", "abort"}, up : SUBSET Parts]

\* The parts handled by the calls that precede the i-th of an order.
Before(order, i) == {order[j] : j \in 1..(i - 1)}

InitFails(up, i) ==
  /\ InitOrder[i] \in FailingInit \cup up
  /\ Before(InitOrder, i) \cap up = {}

(***************************************************************************)
(* What ble_hid_device_init may do when the parts in up are up.  On a      *)
(* controller that is not idle, esp_bt_controller_mem_release is an error  *)
(* and ESP_ERROR_CHECK aborts; should it be accepted, the next call,       *)
(* esp_bt_controller_init, is refused.                                     *)
(***************************************************************************)
InitOutcomes(up) ==
  {[ret |-> "fail", up |-> up \cup Before(InitOrder, i)] :
       i \in {k \in 1..5 : InitFails(up, k)}}
  \cup (IF up = {} THEN {[ret |-> "ok", up |-> Parts]} ELSE {})
  \cup (IF "controller_init" \in up THEN {[ret |-> "abort", up |-> up]} ELSE {})

\* esp_hidd_profile_deinit fails when the profile is enabled and its service
\* has no handle yet, and succeeds when the profile is not enabled.
ProfileStuck(up, service) == "profile" \in up /\ ~service

DeinitFails(up, service, i) ==
  IF i = 1 THEN ProfileStuck(up, service)
  ELSE /\ ~ProfileStuck(up, service)
       /\ Before(DeinitOrder, i) \subseteq up \cup {"profile"}
       /\ DeinitOrder[i] \in FailingDeinit \cup (Parts \ up)

\* What ble_hid_device_deinit may do.
DeinitOutcomes(up, service) ==
  {[ret |-> "fail", up |-> up \ Before(DeinitOrder, i)] :
       i \in {k \in 1..5 : DeinitFails(up, service, k)}}
  \cup (IF Parts \ {"profile"} \subseteq up /\ ~ProfileStuck(up, service)
        THEN {[ret |-> "ok", up |-> {}]} ELSE {})
=============================================================================

---------------------------- MODULE MCHidBridge ----------------------------
(***************************************************************************)
(* Instances of HidBridge for TLC.  The settings are those a user meets:   *)
(* the factory ones, one sleep only, sleep switched off, and a boot with   *)
(* SW2 held.                                                               *)
(***************************************************************************)
EXTENDS HidBridge

Factory  == [enableSleep |-> TRUE, deepSleep |-> TRUE, twoSleeps |-> TRUE,
             neverSleep |-> FALSE]
OneSleep == [Factory EXCEPT !.twoSleeps = FALSE]
SleepOff == [Factory EXCEPT !.enableSleep = FALSE]
HeldSW2  == [Factory EXCEPT !.neverSleep = TRUE]
NoDeep   == [Factory EXCEPT !.deepSleep = FALSE]

FactoryOnly == {Factory}
LightOrDeep == {Factory, OneSleep}
AllSettings == {Factory, OneSleep, SleepOff, HeldSW2, NoDeep}
HeldOnly    == {HeldSW2}
LightOnly   == {NoDeep}
=============================================================================

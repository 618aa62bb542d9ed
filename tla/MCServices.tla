----------------------------- MODULE MCServices -----------------------------
(***************************************************************************)
(* The parts of the device that answer the user and keep state: buttons,   *)
(* the knob, the saved host, the settings, the web interface and firmware  *)
(* updates, one at a time.  Init chooses a part, and that part alone takes *)
(* steps, under its own fairness.                                          *)
(***************************************************************************)
EXTENDS Buttons, RotaryEncoder, SavedDevice, SettingsStore, WebSession, WsClients,
        OtaUpdate

VARIABLE part

servicesVars == << part, buttonVars, encoderVars, deviceVars, storeVars, webVars,
                   clientVars, otaVars >>

MCKindOf == [h \in Hosts |-> IF h = "a" THEN "public" ELSE "random"]

\* A value that fits into a buffer, one that fits into a row only, and two that fit into
\* neither.
MCLength ==
  [v \in (Docs \union {Default}) \X Paths |->
     IF v[2] = "q" THEN 5 ELSE IF v[1] = Default THEN 1 ELSE 2]

ServicesInit ==
  /\ part \in {"buttons", "encoder", "host", "settings", "web", "clients", "ota"}
  /\ ButtonInit
  /\ part # "buttons" => first /\ pin
  /\ DeviceInit
  /\ part # "host" => nvsAddr = NoHost
  /\ EncoderInit /\ StoreInit /\ WebInit /\ ClientInit /\ OtaInit

\* Only part p moves.
Parked(p) ==
  /\ part = p /\ UNCHANGED part
  /\ p # "buttons" => UNCHANGED buttonVars
  /\ p # "encoder" => UNCHANGED encoderVars
  /\ p # "host" => UNCHANGED deviceVars
  /\ p # "settings" => UNCHANGED storeVars
  /\ p # "web" => UNCHANGED webVars
  /\ p # "clients" => UNCHANGED clientVars
  /\ p # "ota" => UNCHANGED otaVars

ServicesNext ==
  \/ Parked("buttons") /\ ButtonNext
  \/ Parked("encoder") /\ EncoderNext
  \/ Parked("host") /\ DeviceNext
  \/ Parked("settings") /\ StoreNext
  \/ Parked("web") /\ WebNext
  \/ Parked("clients") /\ ClientNext
  \/ Parked("ota") /\ OtaNext

\* The fairness of the part that moves.
ServicesFairness ==
  /\ WF_servicesVars(Parked("buttons") /\ ButtonPolls)
  /\ WF_servicesVars(Parked("encoder") /\ RotaryTask)
  /\ WF_servicesVars(Parked("encoder") /\ TimePasses)
  /\ WF_servicesVars(Parked("web") /\ WebTask)
  /\ WF_servicesVars(Parked("web") /\ EventHandler)
  /\ WF_servicesVars(Parked("web") /\ ConnectToWifi)

ServicesSpec == ServicesInit /\ [][ServicesNext]_servicesVars /\ ServicesFairness

\* Every variable of every part has its type.
ServicesTypeOK ==
  /\ ButtonTypeOK /\ EncoderTypeOK /\ DeviceTypeOK /\ StoreTypeOK
  /\ WebTypeOK /\ ClientTypeOK /\ OtaTypeOK
=============================================================================

----------------------------- MODULE WebSession -----------------------------
(***************************************************************************)
(* The web stack: init_web_stack of main.c, http_server.c, and the WiFi    *)
(* half of wifi_manager.c.                                                 *)
(*                                                                         *)
(* web_services_task starts WiFi, and then the server.  The server's one   *)
(* task runs each request to its end, connect_to_wifi with its wait        *)
(* included.  The event task runs event_handler, and talks to the others   *)
(* through an event group.  The WiFi driver is external: it tries to       *)
(* connect with the configuration it keeps in flash, posts an event when   *)
(* the link comes or goes, and may return an error while it is trying.     *)
(***************************************************************************)
EXTENDS Naturals, Sequences

CONSTANTS Nets,      \* credentials the page may send
          Works,     \* those that some access point accepts
          NoNet,
          MaxRetry,  \* MAX_RETRY
          MaxEvents  \* bound on the events under way

ASSUME WebAssumption ==
  /\ Works \subseteq Nets /\ NoNet \notin Nets
  /\ MaxRetry \in Nat \ {0} /\ MaxEvents \in Nat \ {0}

VARIABLES
  session,      \* where web_services_task, or what became of the session
  bootFlag,     \* NVS_KEY_BOOT_WITH_WIFI
  saved,        \* the credentials whose SSID is in NVS
  password,     \* those whose password is
  config,       \* the driver's configuration in flash
  mode,         \* "sta" or "apsta"
  link,         \* of the station
  trial,        \* the credentials the link is tried or up with
  events,       \* on their way to event_handler
  retries,      \* s_retry_num
  bits,         \* wifi_event_group
  isConnected,  \* is_connected
  connecting,   \* connecting
  http,         \* where connect_to_wifi is
  asked,        \* its argument
  stale,        \* history: it began to wait while an older request could answer it
  reached,      \* history: credentials that once got an address
  doubtful,     \* history: it was such a request that saved the SSID
  halfSaved,    \* history: no password was saved after the SSID
  passed        \* history: the boot left the flag set

credentials == << saved, password >>
flash == << bootFlag, credentials, config >>
driver == << link, trial, events >>
status == << retries, bits, isConnected, connecting >>
handler == << http, asked, stale >>
past == << reached, doubtful, halfSaved, passed >>
webVars == << session, flash, mode, driver, status, handler, past >>

Running == session \in {"waiting", "serving", "stopping", "stopped"}
Asking == {"asked", "disconnected", "configured", "waiting", "saving", "half", "flagging"}

\* Every variable has its type.
WebTypeOK ==
  /\ session \in {"down", "off", "starting", "waiting", "serving", "stopping",
                  "stopped", "restarting", "asleep"}
  /\ bootFlag \in BOOLEAN
  /\ saved \in Nets \union {NoNet} /\ password \in Nets \union {NoNet}
  /\ config \in Nets \union {NoNet} /\ mode \in {"sta", "apsta"}
  /\ link \in {"down", "trying", "up"} /\ trial \in Nets \union {NoNet}
  /\ events \in Seq({"lost", "ip"}) /\ Len(events) <= MaxEvents
  /\ retries \in 0..MaxRetry /\ bits \subseteq {"connected", "failed"}
  /\ isConnected \in BOOLEAN /\ connecting \in BOOLEAN
  /\ http \in Asking \union {"idle"} /\ asked \in Nets \union {NoNet}
  /\ reached \subseteq Nets
  /\ stale \in BOOLEAN /\ doubtful \in BOOLEAN /\ halfSaved \in BOOLEAN
  /\ passed \in BOOLEAN

\* What is not in flash, after a reset.
Volatile(mo, li, tr, ev, re, bi, ic, co, ht, as) ==
  /\ mo = "sta" /\ li = "down" /\ tr = NoNet /\ ev = << >>
  /\ re = 0 /\ bi = {} /\ ic = FALSE /\ co = FALSE
  /\ ht = "idle" /\ as = NoNet

WebInit ==
  /\ session = "down"
  /\ bootFlag = FALSE /\ saved = NoNet /\ password = NoNet /\ config = NoNet
  /\ Volatile(mode, link, trial, events, retries, bits, isConnected, connecting,
              http, asked)
  /\ reached = {} /\ stale = FALSE /\ doubtful = FALSE /\ halfSaved = FALSE /\ passed = FALSE

-----------------------------------------------------------------------------
(* The boot, init_web_stack and web_services_task.                         *)

\* What does not survive is lost.
WebReset(to) ==
  /\ session' = to
  /\ Volatile(mode', link', trial', events', retries', bits', isConnected',
              connecting', http', asked')
  /\ stale' = FALSE /\ passed' = FALSE
  /\ UNCHANGED << reached, doubtful, halfSaved >>

PowerCycle ==
  /\ session # "down"
  /\ WebReset("down") /\ UNCHANGED flash

\* The main loop looks at the power supply, the USB device and the host only.
FallsAsleep ==
  /\ session \notin {"down", "asleep"}
  /\ WebReset("asleep") /\ UNCHANGED flash

\* rot_long_press_cb: with SW4 held the next boot is one with WiFi.
KnobRestarts ==
  /\ session \notin {"down", "asleep"}
  /\ bootFlag' \in BOOLEAN
  /\ WebReset("down") /\ UNCHANGED << credentials, config >>

\* After deep sleep init_web_stack is not called.
WakesUp ==
  /\ session = "asleep" /\ session' = "off"
  /\ UNCHANGED << flash, mode, driver, status, handler, past >>

Restarts ==
  /\ session = "restarting"
  /\ WebReset("down") /\ UNCHANGED flash

\* SW4 held: the flag is not looked at.
BootWithButton ==
  /\ session = "down" /\ session' = "starting"
  /\ passed' = bootFlag
  /\ UNCHANGED << flash, mode, driver, status, handler, reached, doubtful, halfSaved >>

\* Mutant of BootByFlag: the flag is left for the next boot.
BootByFlagStays ==
  /\ session = "down" /\ bootFlag /\ session' = "starting"
  /\ passed' = FALSE
  /\ UNCHANGED << flash, mode, driver, status, handler, reached, doubtful, halfSaved >>

\* The flag is cleared, or the write fails, which nobody looks at.
BootByFlag ==
  /\ session = "down" /\ bootFlag /\ session' = "starting"
  /\ bootFlag' \in BOOLEAN /\ passed' = bootFlag'
  /\ UNCHANGED << credentials, config, mode, driver, status, handler >>
  /\ UNCHANGED << reached, doubtful, halfSaved >>

BootWithoutWeb ==
  /\ session = "down" /\ ~bootFlag /\ session' = "off"
  /\ UNCHANGED << flash, mode, driver, status, handler, past >>

\* esp_wifi_connect: the driver begins with its configuration.  What it returns
\* while it is trying is its own affair.
ConnectAccepted ==
  /\ link' = "trying"
  /\ \/ trial' = config
     \/ link = "trying" /\ trial' = trial

ConnectRefused == link = "trying" /\ UNCHANGED << link, trial >>

\* init_wifi_apsta, with STA_START: credentials in NVS make the driver connect, but
\* with its own configuration.
StartWifi ==
  /\ session = "starting" /\ session' = "waiting"
  /\ mode' = IF saved # NoNet THEN "sta" ELSE "apsta"
  /\ IF saved # NoNet THEN ConnectAccepted ELSE UNCHANGED << link, trial >>
  /\ UNCHANGED << flash, events, status, handler, past >>

\* The wait for the link has ended, by a bit or after 10 seconds, or there was none;
\* or NVS could not be opened.
StartServer ==
  /\ session = "waiting" /\ session' = "serving"
  /\ UNCHANGED << flash, mode, driver, status, handler, past >>

\* Setting the flag may fail as well, unnoticed.
FlagsNextBoot == bootFlag' \in {bootFlag, TRUE}

\* The saved network cannot be reached: again, with the web stack.
GiveUpLink ==
  /\ session = "waiting" /\ mode = "sta" /\ "failed" \in bits
  /\ session' = "restarting" /\ FlagsNextBoot
  /\ UNCHANGED << credentials, config, mode, driver, status, handler, past >>

-----------------------------------------------------------------------------
(* The driver and event_handler.                                           *)

Post(e) == Len(events) < MaxEvents /\ events' = Append(events, e)

AttemptFails ==
  /\ Running /\ link = "trying" /\ link' = "down" /\ Post("lost")
  /\ UNCHANGED << session, flash, mode, trial, status, handler, past >>

AttemptSucceeds ==
  /\ Running /\ link = "trying" /\ trial \in Works
  /\ link' = "up" /\ Post("ip")
  /\ reached' = reached \union {trial}
  /\ UNCHANGED << session, flash, mode, trial, status, handler, doubtful, halfSaved, passed >>

LinkDrops ==
  /\ Running /\ link = "up" /\ link' = "down" /\ Post("lost")
  /\ UNCHANGED << session, flash, mode, trial, status, handler, past >>

\* Some retries, then WIFI_FAIL_BIT, which nobody ever clears.
OnDisconnected ==
  /\ Running /\ events # << >> /\ Head(events) = "lost" /\ events' = Tail(events)
  /\ isConnected' = FALSE
  /\ IF retries + 1 < MaxRetry
     THEN /\ retries' = retries + 1 /\ bits' = bits \ {"connected"}
          /\ ConnectAccepted \/ ConnectRefused
     ELSE /\ retries' = MaxRetry /\ bits' = {"failed"}
          /\ UNCHANGED << link, trial >>
  /\ UNCHANGED << session, flash, mode, connecting, handler, past >>

OnGotIp ==
  /\ Running /\ events # << >> /\ Head(events) = "ip" /\ events' = Tail(events)
  /\ isConnected' = TRUE /\ retries' = 0 /\ bits' = bits \union {"connected"}
  /\ UNCHANGED << session, flash, mode, link, trial, connecting, handler, past >>

EventHandler == OnDisconnected \/ OnGotIp

-----------------------------------------------------------------------------
(* connect_to_wifi, in the server's task.                                  *)

\* The page reaches the server over the access point or over the link.
PageThere == session = "serving" /\ http = "idle" /\ (mode = "apsta" \/ link = "up")

\* While "connecting" is set a request is ignored, which changes nothing.
PageConnects ==
  /\ PageThere /\ ~connecting
  /\ asked' \in Nets
  /\ http' = "asked" /\ connecting' = TRUE /\ retries' = 0 /\ UNCHANGED stale
  /\ UNCHANGED << session, flash, mode, driver, bits, isConnected, past >>

HttpGoes(from, to) ==
  /\ http = from /\ http' = to /\ UNCHANGED mode
  /\ asked' = IF to = "idle" THEN NoNet ELSE asked
  /\ stale' = (stale /\ to # "idle")

HttpDisconnects ==
  /\ HttpGoes("asked", "disconnected")
  /\ IF isConnected /\ link # "down" THEN link' = "down" /\ Post("lost")
     ELSE UNCHANGED << link, events >>
  /\ UNCHANGED << session, flash, trial, status, past >>

\* The driver keeps the configuration, whatever becomes of it.
HttpConfigures ==
  /\ HttpGoes("disconnected", "configured")
  /\ config' = asked
  /\ UNCHANGED << session, bootFlag, credentials, driver, status, past >>

\* Refused while the driver is trying: ESP_ERROR_CHECK aborts.
HttpPanics ==
  /\ http = "disconnected" /\ link = "trying"
  /\ WebReset("down") /\ UNCHANGED flash

HttpConnects ==
  /\ http = "configured" /\ http' = "waiting"
  /\ ConnectAccepted
  /\ stale' = (\/ "connected" \in bits \/ trial' # asked
               \/ \E i \in DOMAIN events : events[i] = "ip")
  /\ UNCHANGED << session, flash, mode, events, status, asked, past >>

\* An early return leaves "connecting" set, and the page without an answer.
HttpRefused ==
  /\ HttpGoes("configured", "idle")
  /\ ConnectRefused
  /\ UNCHANGED << session, flash, events, status, past >>

\* Mutant of HttpConnected: any bit will do.
HttpConnectedByAnyBit ==
  /\ HttpGoes("waiting", "saving")
  /\ bits # {}
  /\ connecting' = FALSE
  /\ UNCHANGED << session, flash, driver, retries, bits, isConnected, past >>

\* "connected" wins over "failed".
HttpConnected ==
  /\ HttpGoes("waiting", "saving")
  /\ "connected" \in bits
  /\ connecting' = FALSE
  /\ UNCHANGED << session, flash, driver, retries, bits, isConnected, past >>

\* save_wifi_credentials writes two entries, SSID first.  A failure ends it and is
\* ignored: the page is told of a success.
HttpSavesSsid ==
  /\ HttpGoes("saving", "half")
  /\ saved' = asked /\ doubtful' = stale /\ halfSaved' = (password # asked)
  /\ UNCHANGED << session, bootFlag, password, config, driver, status, reached, passed >>

HttpSavesPassword ==
  /\ HttpGoes("half", "flagging")
  /\ password' = asked /\ halfSaved' = FALSE
  /\ UNCHANGED << session, bootFlag, saved, config, driver, status, reached, doubtful,
                  passed >>

HttpSaveFails ==
  /\ HttpGoes("saving", "flagging") \/ HttpGoes("half", "flagging")
  /\ UNCHANGED << session, flash, driver, status, past >>

HttpRestarts ==
  /\ HttpGoes("flagging", "idle")
  /\ session' = "restarting" /\ FlagsNextBoot
  /\ UNCHANGED << credentials, config, driver, status, past >>

\* Mutant of HttpGivesUp: the wait has no timeout.
HttpGivesUpOnFailure ==
  /\ HttpGoes("waiting", "idle")
  /\ bits = {"failed"}
  /\ connecting' = FALSE
  /\ UNCHANGED << session, flash, driver, retries, bits, isConnected, past >>

\* A failure, or 40 seconds without any bit; the driver goes on.
HttpGivesUp ==
  /\ HttpGoes("waiting", "idle")
  /\ "connected" \notin bits
  /\ connecting' = FALSE
  /\ UNCHANGED << session, flash, driver, retries, bits, isConnected, past >>

ConnectToWifi ==
  \/ HttpDisconnects \/ HttpConfigures \/ HttpPanics \/ HttpConnects \/ HttpRefused
  \/ HttpConnected \/ HttpSavesSsid \/ HttpSavesPassword \/ HttpSaveFails
  \/ HttpRestarts \/ HttpGivesUp

-----------------------------------------------------------------------------
(* The other commands of the page, and the end of a session.               *)

\* reboot_device, a settings update or a firmware upload.
PageReboots ==
  /\ PageThere /\ session' = "restarting"
  /\ bootFlag' \in BOOLEAN
  /\ UNCHANGED << credentials, config, mode, driver, status, handler, past >>

\* "disable_web_stack" only restarts.
PageDisables ==
  /\ PageThere /\ session' = "restarting"
  /\ UNCHANGED << flash, mode, driver, status, handler, past >>

\* "clear": the NVS partition is erased, the driver's configuration with it.
PageClears ==
  /\ PageThere /\ session' = "restarting"
  /\ bootFlag' = FALSE /\ saved' = NoNet /\ password' = NoNet /\ config' = NoNet
  /\ doubtful' = FALSE /\ halfSaved' = FALSE
  /\ UNCHANGED << mode, driver, status, handler, reached, passed >>

\* inactivity_timer_task calls stop_webserver after ten minutes.
InactivityExpires ==
  /\ session = "serving" /\ session' = "stopping"
  /\ UNCHANGED << flash, mode, driver, status, handler, past >>

\* httpd_stop waits for the request being handled.  Then stop_webserver deletes the
\* task that called it: esp_wifi_stop and esp_wifi_deinit are never reached.
ServerStops ==
  /\ session = "stopping" /\ http = "idle"
  /\ session' = "stopped"
  /\ UNCHANGED << flash, mode, driver, status, handler, past >>

WebTask ==
  \/ BootByFlag \/ BootWithoutWeb
  \/ StartWifi \/ StartServer \/ GiveUpLink \/ Restarts \/ ServerStops

WebNext ==
  \/ PowerCycle \/ FallsAsleep \/ WakesUp \/ KnobRestarts \/ BootWithButton \/ WebTask
  \/ AttemptFails \/ AttemptSucceeds \/ LinkDrops \/ EventHandler
  \/ PageConnects \/ ConnectToWifi
  \/ PageReboots \/ PageDisables \/ PageClears \/ InactivityExpires

WebSpec == WebInit /\ [][WebNext]_webVars

\* The tasks of the firmware are scheduled and their waits end; nothing is assumed of
\* the driver, the page or the user.
WebFairness ==
  WF_webVars(WebTask) /\ WF_webVars(EventHandler) /\ WF_webVars(ConnectToWifi)

WebFairSpec == WebSpec /\ WebFairness

-----------------------------------------------------------------------------
\* An SSID in NVS belongs to credentials that an access point once accepted, unless the
\* request that saved it had found a bit, an event or an attempt of an earlier one; and
\* the password beside it is its own, unless the save that wrote it got no further.
\* Whatever went wrong before, the next complete request puts it right.
SavedCredentialsWorked ==
  saved # NoNet => /\ saved \in reached \/ doubtful
                   /\ password = saved \/ halfSaved

\* A session leaves no trace: while it runs and is not about to restart, the next boot
\* is one without WiFi, unless this boot left the flag set: it did not look at it
\* because of the button, or clearing it failed.
FlagIsForOneBoot ==
  Running /\ bootFlag => passed

\* A connect request comes to its end, whatever the driver does.
HandlerReturns == http = "asked" ~> http = "idle"

\* "Web server hadn't been accessed, shutting down web stack and WiFi…"
\* (main/web/http_server.c:42): the radio is then off, or the device was restarted.
InactivityStopsWifi == session = "stopping" ~> ~Running
=============================================================================

--------------------------- MODULE ServicesProofs ---------------------------
(***************************************************************************)
(* Proofs about WebSession, for any networks and any number of retries:    *)
(* its types, that only credentials that worked are saved, and that a      *)
(* session leaves no boot flag behind; about WsClients, for any number of  *)
(* sockets, tasks and entries in the list of failed clients: its types,    *)
(* and that a live client is on that list at no time; and about OtaUpdate: *)
(* its types, and that there is always a whole image to boot and a         *)
(* verified one to fall back on, for any number of pieces an image may     *)
(* come in.  At the end, that all this holds of the parts together.        *)
(***************************************************************************)
EXTENDS MCServices, SavedDeviceProofs, InputProofs, SequenceTheorems, FiniteSetTheorems

Event == {"lost", "ip"}

-----------------------------------------------------------------------------
(* The web interface: types.                                               *)

LEMMA WebTypeInit == WebInit => WebTypeOK
<1>1. << >> \in Seq({"lost", "ip"}) /\ Len(<< >>) <= MaxEvents /\ 0 \in 0..MaxRetry
  BY WebAssumption
<1> QED
  BY <1>1 DEF WebInit, Volatile, WebTypeOK, Asking

\* The steps of save_wifi_credentials.
HttpSaves == HttpSavesSsid \/ HttpSavesPassword \/ HttpSaveFails

LEMMA ResetTyped == ASSUME WebTypeOK, NEW s, WebReset(s)
  PROVE /\ mode' = "sta" /\ link' = "down" /\ trial' = NoNet /\ events' = << >>
        /\ retries' = 0 /\ bits' = {} /\ isConnected' = FALSE /\ connecting' = FALSE
        /\ http' = "idle" /\ asked' = NoNet
        /\ stale' = FALSE /\ passed' = FALSE /\ UNCHANGED << reached, doubtful, halfSaved >>
        /\ session' = s
BY DEF WebReset, Volatile

LEMMA PostTyped ==
  ASSUME WebTypeOK, NEW e \in Event, Post(e)
  PROVE  events' \in Seq(Event) /\ Len(events') <= MaxEvents
<1>1. events \in Seq(Event) /\ Len(events) < MaxEvents /\ events' = Append(events, e)
  BY DEF WebTypeOK, Post, Event
<1> QED
  BY <1>1, WebAssumption

LEMMA TakenTyped ==
  ASSUME WebTypeOK, events # << >>, events' = Tail(events)
  PROVE  events' \in Seq(Event) /\ Len(events') <= MaxEvents
<1>1. events \in Seq(Event) /\ Len(events) <= MaxEvents
  BY DEF WebTypeOK, Event
<1> QED
  BY <1>1, WebAssumption

LEMMA ConnectTyped ==
  ASSUME WebTypeOK, ConnectAccepted \/ ConnectRefused
  PROVE  link' \in {"down", "trying", "up"} /\ trial' \in Nets \union {NoNet}
BY DEF WebTypeOK, ConnectAccepted, ConnectRefused

LEMMA GoesTyped ==
  ASSUME WebTypeOK, NEW from, NEW to, HttpGoes(from, to)
  PROVE  stale' \in BOOLEAN /\ asked' \in Nets \union {NoNet}
<1>1. stale' \in BOOLEAN
  BY DEF HttpGoes
<1> QED
  BY <1>1 DEF HttpGoes, WebTypeOK

LEMMA WebTypeNext == WebTypeOK /\ [WebNext]_webVars => WebTypeOK'
<1> SUFFICES ASSUME WebTypeOK, [WebNext]_webVars PROVE WebTypeOK'
  OBVIOUS
<1>0. << >> \in Seq(Event) /\ Len(<< >>) <= MaxEvents /\ 0 \in 0..MaxRetry
      /\ MaxRetry \in 0..MaxRetry
  BY WebAssumption
<1> USE DEF flash, credentials, driver, status, handler, past
<1>1. CASE PowerCycle \/ FallsAsleep \/ KnobRestarts \/ Restarts \/ HttpPanics
  <2>1. WebReset("down") \/ WebReset("asleep")
    BY <1>1 DEF PowerCycle, FallsAsleep, KnobRestarts, Restarts, HttpPanics
  <2>2. /\ mode' = "sta" /\ link' = "down" /\ trial' = NoNet /\ events' = << >>
        /\ retries' = 0 /\ bits' = {} /\ isConnected' = FALSE /\ connecting' = FALSE
        /\ http' = "idle" /\ asked' = NoNet
        /\ stale' = FALSE /\ passed' = FALSE /\ UNCHANGED << reached, doubtful, halfSaved >>
        /\ session' \in {"down", "asleep"}
    BY <2>1, ResetTyped
  <2>3. bootFlag' \in BOOLEAN /\ UNCHANGED << credentials, config >>
    BY <1>1 DEF PowerCycle, FallsAsleep, KnobRestarts, Restarts, HttpPanics, WebTypeOK
  <2> QED
    BY <1>0, <2>2, <2>3 DEF WebTypeOK, Event, Asking
<1>2. CASE WakesUp \/ BootWithButton \/ BootByFlag \/ BootWithoutWeb \/ StartServer
           \/ GiveUpLink
  <2>1. CASE BootWithButton
    BY <2>1 DEF BootWithButton, WebTypeOK
  <2>2. CASE BootByFlag \/ GiveUpLink
    <3>1. bootFlag' \in BOOLEAN /\ passed' \in BOOLEAN
      BY <2>2 DEF BootByFlag, GiveUpLink, FlagsNextBoot, WebTypeOK
    <3>2. session' \in {"starting", "restarting"}
          /\ UNCHANGED << credentials, config, mode, driver, status, handler, reached,
                          doubtful, halfSaved >>
      BY <2>2 DEF BootByFlag, GiveUpLink
    <3> QED
      BY <3>1, <3>2 DEF WebTypeOK
  <2>3. CASE WakesUp \/ BootWithoutWeb \/ StartServer
    <3>1. session' \in {"off", "serving"}
          /\ UNCHANGED << flash, mode, driver, status, handler, past >>
      BY <2>3 DEF WakesUp, BootWithoutWeb, StartServer
    <3> QED
      BY <3>1 DEF WebTypeOK
  <2> QED
    BY <1>2, <2>1, <2>2, <2>3
<1>3. CASE StartWifi
  <2>1. link' \in {"down", "trying", "up"} /\ trial' \in Nets \union {NoNet}
    BY <1>3, ConnectTyped DEF StartWifi, WebTypeOK
  <2> QED
    BY <1>3, <2>1 DEF StartWifi, WebTypeOK
<1>4. CASE AttemptFails \/ LinkDrops
  <2>1. events' \in Seq(Event) /\ Len(events') <= MaxEvents
    BY <1>4, PostTyped DEF AttemptFails, LinkDrops, Event
  <2>2. link' = "down" /\ UNCHANGED << session, flash, mode, trial, status, handler, past >>
    BY <1>4 DEF AttemptFails, LinkDrops
  <2> QED
    BY <2>1, <2>2 DEF WebTypeOK, Event
<1>5. CASE AttemptSucceeds
  <2>1. events' \in Seq(Event) /\ Len(events') <= MaxEvents
    BY <1>5, PostTyped DEF AttemptSucceeds, Event
  <2> QED
    BY <1>5, <2>1, WebAssumption DEF AttemptSucceeds, WebTypeOK, Event
<1>6. CASE OnDisconnected
  <2>1. events' \in Seq(Event) /\ Len(events') <= MaxEvents
    BY <1>6, TakenTyped DEF OnDisconnected
  <2>2. /\ retries' \in 0..MaxRetry /\ bits' \subseteq {"connected", "failed"}
        /\ link' \in {"down", "trying", "up"} /\ trial' \in Nets \union {NoNet}
    <3>1. CASE retries + 1 < MaxRetry
      <4>1. retries' \in 0..MaxRetry /\ bits' = bits \ {"connected"}
        BY <1>6, <3>1, WebAssumption DEF OnDisconnected, WebTypeOK
      <4> QED
        BY <1>6, <3>1, <4>1, ConnectTyped DEF OnDisconnected, WebTypeOK
    <3>2. CASE ~(retries + 1 < MaxRetry)
      BY <1>0, <1>6, <3>2 DEF OnDisconnected, WebTypeOK
    <3> QED
      BY <3>1, <3>2
  <2>3. isConnected' = FALSE
        /\ UNCHANGED << session, flash, mode, connecting, handler, past >>
    BY <1>6 DEF OnDisconnected
  <2>4. isConnected' \in BOOLEAN
    BY <2>3
  <2>5. /\ session' \in {"down", "off", "starting", "waiting", "serving", "stopping",
                         "stopped", "restarting", "asleep"}
        /\ bootFlag' \in BOOLEAN /\ saved' \in Nets \union {NoNet}
        /\ password' \in Nets \union {NoNet}
        /\ config' \in Nets \union {NoNet} /\ mode' \in {"sta", "apsta"}
        /\ connecting' \in BOOLEAN
        /\ http' \in Asking \union {"idle"} /\ asked' \in Nets \union {NoNet}
        /\ reached' \subseteq Nets /\ stale' \in BOOLEAN /\ passed' \in BOOLEAN
        /\ doubtful' \in BOOLEAN /\ halfSaved' \in BOOLEAN
    BY <2>3 DEF WebTypeOK
  <2> QED
    BY <2>1, <2>2, <2>4, <2>5 DEF WebTypeOK, Event
<1>7. CASE OnGotIp
  <2>1. events' \in Seq(Event) /\ Len(events') <= MaxEvents
    BY <1>7, TakenTyped DEF OnGotIp
  <2> QED
    BY <1>0, <1>7, <2>1 DEF OnGotIp, WebTypeOK, Event
<1>8. CASE PageConnects
  BY <1>0, <1>8 DEF PageConnects, PageThere, WebTypeOK, Asking
<1>9. CASE HttpDisconnects
  <2>1. events' \in Seq(Event) /\ Len(events') <= MaxEvents /\ link' \in {"down", "trying", "up"}
    BY <1>9, PostTyped DEF HttpDisconnects, WebTypeOK, Event
  <2> QED
    <3>1. stale' \in BOOLEAN /\ asked' \in Nets \union {NoNet}
      BY <1>9, GoesTyped DEF HttpDisconnects
    <3>2. http' = "disconnected" /\ UNCHANGED << session, flash, mode, trial, status, past >>
      BY <1>9 DEF HttpDisconnects, HttpGoes
    <3> QED
      BY <2>1, <3>1, <3>2 DEF WebTypeOK, Event, Asking
<1>10. CASE HttpConfigures \/ HttpConnected \/ HttpSaves \/ HttpGivesUp \/ HttpRestarts
  <2>0. stale' \in BOOLEAN /\ asked' \in Nets \union {NoNet}
    BY <1>10, GoesTyped DEF HttpConfigures, HttpConnected, HttpSaves, HttpSavesSsid,
       HttpSavesPassword, HttpSaveFails, HttpGivesUp, HttpRestarts
  <2>1. CASE HttpConfigures
    <3>1. /\ http' = "configured" /\ config' = asked
          /\ UNCHANGED << session, bootFlag, credentials, mode, driver, status, past >>
      BY <2>1 DEF HttpConfigures, HttpGoes
    <3> QED
      BY <2>0, <3>1 DEF WebTypeOK, Asking
  <2>2. CASE HttpConnected \/ HttpGivesUp
    <3>1. connecting' \in BOOLEAN /\ http' \in {"saving", "idle"}
      BY <2>2 DEF HttpConnected, HttpGivesUp, HttpGoes
    <3>2. UNCHANGED << mode, session, flash, driver, retries, bits, isConnected, past >>
      BY <2>2 DEF HttpConnected, HttpGivesUp, HttpGoes
    <3> QED
      BY <2>0, <3>1, <3>2 DEF WebTypeOK, Asking
  <2>3. CASE HttpSaves
    <3>1. doubtful' \in BOOLEAN /\ halfSaved' \in BOOLEAN
      BY <2>3 DEF HttpSaves, HttpSavesSsid, HttpSavesPassword, HttpSaveFails, WebTypeOK
    <3>2. /\ http' \in {"half", "flagging"}
          /\ saved' \in {saved, asked} /\ password' \in {password, asked}
          /\ UNCHANGED << session, bootFlag, config, mode, driver, status, reached, passed >>
      BY <2>3 DEF HttpSaves, HttpSavesSsid, HttpSavesPassword, HttpSaveFails, HttpGoes
    <3> QED
      BY <2>0, <3>1, <3>2 DEF WebTypeOK, Asking
  <2>4. CASE HttpRestarts
    <3>1. bootFlag' \in BOOLEAN
      BY <2>4 DEF HttpRestarts, FlagsNextBoot, WebTypeOK
    <3>2. /\ http' = "idle" /\ session' = "restarting"
          /\ UNCHANGED << credentials, config, mode, driver, status, past >>
      BY <2>4 DEF HttpRestarts, HttpGoes
    <3> QED
      BY <2>0, <3>1, <3>2 DEF WebTypeOK
  <2> QED
    BY <1>10, <2>1, <2>2, <2>3, <2>4
<1>11. CASE HttpConnects
  <2>1. link' \in {"down", "trying", "up"} /\ trial' \in Nets \union {NoNet}
    BY <1>11, ConnectTyped DEF HttpConnects
  <2>2. stale' \in BOOLEAN
    BY <1>11 DEF HttpConnects
  <2>3. http' = "waiting" /\ UNCHANGED << asked, mode, session, flash, events, status, past >>
    BY <1>11 DEF HttpConnects
  <2> QED
    BY <2>1, <2>2, <2>3 DEF WebTypeOK, Asking
<1>12. CASE HttpRefused
  <2>1. link' \in {"down", "trying", "up"} /\ trial' \in Nets \union {NoNet}
    BY <1>12, ConnectTyped DEF HttpRefused
  <2> QED
    <3>1. stale' \in BOOLEAN /\ asked' \in Nets \union {NoNet}
      BY <1>12, GoesTyped DEF HttpRefused
    <3>2. http' = "idle" /\ UNCHANGED << session, flash, mode, events, status, past >>
      BY <1>12 DEF HttpRefused, HttpGoes
    <3> QED
      BY <2>1, <3>1, <3>2 DEF WebTypeOK
<1>13. CASE PageReboots \/ PageDisables \/ PageClears \/ InactivityExpires \/ ServerStops
  <2>1. bootFlag' \in BOOLEAN /\ doubtful' \in BOOLEAN /\ halfSaved' \in BOOLEAN
    BY <1>13 DEF PageReboots, PageDisables, PageClears, InactivityExpires, ServerStops, WebTypeOK
  <2>2. /\ session' \in {"restarting", "stopping", "stopped"}
        /\ saved' \in {saved, NoNet} /\ password' \in {password, NoNet}
        /\ config' \in {config, NoNet}
        /\ UNCHANGED << mode, driver, status, handler, reached, passed >>
    BY <1>13 DEF PageReboots, PageDisables, PageClears, InactivityExpires, ServerStops
  <2> QED
    BY <2>1, <2>2 DEF WebTypeOK
<1>14. CASE UNCHANGED webVars
  BY <1>14 DEF webVars, WebTypeOK
<1> QED
  BY <1>1, <1>2, <1>3, <1>4, <1>5, <1>6, <1>7, <1>8, <1>9, <1>10, <1>11, <1>12, <1>13, <1>14
     DEF WebNext, WebTask, EventHandler, ConnectToWifi, HttpSaves

\* Every variable of the web stack keeps its type.
THEOREM WebTypeCorrect == WebSpec => []WebTypeOK
BY WebTypeInit, WebTypeNext, PTL DEF WebSpec

-----------------------------------------------------------------------------
(* The boot flag.                                                          *)

FlagTaken == (Running \/ session = "starting") /\ bootFlag => passed

LEMMA FlagNext == FlagTaken /\ [WebNext]_webVars => FlagTaken'
<1> SUFFICES ASSUME FlagTaken, [WebNext]_webVars PROVE FlagTaken'
  OBVIOUS
<1> USE DEF FlagTaken, Running, flash, credentials, driver, status, handler, past
<1>1. CASE PowerCycle \/ FallsAsleep \/ KnobRestarts \/ Restarts \/ HttpPanics
  BY <1>1 DEF PowerCycle, FallsAsleep, KnobRestarts, Restarts, HttpPanics, WebReset
<1>2. CASE WakesUp \/ BootWithButton \/ BootByFlag \/ BootWithoutWeb \/ StartServer
           \/ GiveUpLink \/ StartWifi
  <2>1. CASE BootWithButton
    BY <2>1 DEF BootWithButton
  <2>2. CASE BootByFlag \/ BootWithoutWeb \/ GiveUpLink
    BY <2>2 DEF BootByFlag, BootWithoutWeb, GiveUpLink
  <2>3. CASE WakesUp \/ StartServer \/ StartWifi
    BY <2>3 DEF WakesUp, StartServer, StartWifi
  <2> QED
    BY <1>2, <2>1, <2>2, <2>3
<1>3. CASE AttemptFails \/ LinkDrops \/ AttemptSucceeds \/ EventHandler
  BY <1>3 DEF AttemptFails, LinkDrops, AttemptSucceeds, EventHandler, OnDisconnected, OnGotIp
<1>4. CASE PageConnects \/ HttpDisconnects \/ HttpConfigures \/ HttpConnects \/ HttpRefused
           \/ HttpConnected \/ HttpSaves \/ HttpGivesUp \/ HttpRestarts
  BY <1>4 DEF PageConnects, HttpDisconnects, HttpConfigures, HttpConnects, HttpRefused,
              HttpConnected, HttpSaves, HttpSavesSsid, HttpSavesPassword, HttpSaveFails, HttpGoes,
              HttpGivesUp, HttpRestarts
<1>5. CASE PageReboots \/ PageDisables \/ PageClears \/ InactivityExpires \/ ServerStops
  BY <1>5 DEF PageReboots, PageDisables, PageClears, InactivityExpires, ServerStops
<1>6. CASE UNCHANGED webVars
  BY <1>6 DEF webVars
<1> QED
  BY <1>1, <1>2, <1>3, <1>4, <1>5, <1>6 DEF WebNext, WebTask, ConnectToWifi, HttpSaves

\* A session leaves no trace: the next boot is one without Wi-Fi, unless this boot left
\* the flag set, because of the button or because clearing it failed.
THEOREM FlagLastsOneBoot == WebSpec => []FlagIsForOneBoot
<1>1. WebInit => FlagTaken
  BY DEF WebInit, FlagTaken
<1>2. FlagTaken => FlagIsForOneBoot
  BY DEF FlagTaken, FlagIsForOneBoot
<1> QED
  BY <1>1, <1>2, FlagNext, PTL DEF WebSpec

-----------------------------------------------------------------------------
(* The credentials.                                                        *)

IpUnderWay == \E i \in DOMAIN events : events[i] = "ip"

\* What is in NVS, and what of it the request that is saving has yet to write.
NvsTrue ==
  /\ saved = NoNet \/ saved \in reached \/ doubtful
  /\ saved = NoNet \/ password = saved \/ halfSaved
  /\ http = "half" => saved = asked

\* As long as the request met no traces of an older one, the wait ends with the address
\* of an attempt of its own.
RequestApart ==
  /\ http \in {"configured", "waiting"} => config = asked
  /\ ~stale => /\ http = "saving" => asked \in reached
               /\ http = "waiting" =>
                    trial = asked /\ ("connected" \in bits \/ IpUnderWay => asked \in reached)

LEMMA LostIsNoIp ==
  ASSUME WebTypeOK, Post("lost"), IpUnderWay' PROVE IpUnderWay
<1>1. events \in Seq(Event) /\ events' = Append(events, "lost")
  BY DEF WebTypeOK, Post, Event
<1> QED
  BY <1>1 DEF IpUnderWay

LEMMA TailHasNoNewIp ==
  ASSUME WebTypeOK, events # << >>, events' = Tail(events), IpUnderWay' PROVE IpUnderWay
<1>1. events \in Seq(Event)
  BY DEF WebTypeOK, Event
<1>2. PICK i \in DOMAIN events' : events'[i] = "ip"
  BY DEF IpUnderWay
<1>3. i + 1 \in DOMAIN events /\ events[i + 1] = "ip"
  BY <1>1, <1>2
<1> QED
  BY <1>3 DEF IpUnderWay

LEMMA NvsNext == NvsTrue /\ RequestApart /\ [WebNext]_webVars => NvsTrue'
<1> SUFFICES ASSUME NvsTrue, RequestApart, [WebNext]_webVars PROVE NvsTrue'
  OBVIOUS
<1> USE DEF NvsTrue, flash, credentials, past
<1>1. CASE PowerCycle \/ FallsAsleep \/ KnobRestarts \/ Restarts \/ HttpPanics
  BY <1>1 DEF PowerCycle, FallsAsleep, KnobRestarts, Restarts, HttpPanics, WebReset, Volatile
<1>2. CASE HttpSavesSsid
  BY <1>2 DEF HttpSavesSsid, HttpGoes, RequestApart
<1>3. CASE HttpSavesPassword \/ HttpSaveFails \/ HttpRestarts
  BY <1>3 DEF HttpSavesPassword, HttpSaveFails, HttpRestarts, HttpGoes
<1>4. CASE \/ WakesUp \/ BootWithButton \/ BootByFlag \/ BootWithoutWeb \/ StartServer
           \/ GiveUpLink \/ StartWifi
  BY <1>4 DEF WakesUp, BootWithButton, BootByFlag, BootWithoutWeb, StartServer, GiveUpLink,
              StartWifi, handler
<1>5. CASE AttemptFails \/ LinkDrops \/ AttemptSucceeds \/ EventHandler
  BY <1>5 DEF AttemptFails, LinkDrops, AttemptSucceeds, EventHandler, OnDisconnected, OnGotIp,
              handler
<1>6. CASE \/ HttpDisconnects \/ HttpConfigures \/ HttpConnects \/ HttpRefused
           \/ HttpConnected \/ HttpGivesUp
  BY <1>6 DEF HttpDisconnects, HttpConfigures, HttpConnects, HttpRefused, HttpConnected,
              HttpGivesUp, HttpGoes
<1>7. CASE \/ PageConnects \/ PageReboots \/ PageDisables \/ PageClears \/ InactivityExpires
           \/ ServerStops
  BY <1>7 DEF PageConnects, PageReboots, PageDisables, PageClears, InactivityExpires,
              ServerStops, PageThere, handler
<1>8. CASE UNCHANGED webVars
  BY <1>8 DEF webVars, handler
<1> QED
  BY <1>1, <1>2, <1>3, <1>4, <1>5, <1>6, <1>7, <1>8 DEF WebNext, WebTask, ConnectToWifi

LEMMA ApartNext == WebTypeOK /\ RequestApart /\ [WebNext]_webVars => RequestApart'
<1> SUFFICES ASSUME WebTypeOK, RequestApart, [WebNext]_webVars PROVE RequestApart'
  OBVIOUS
<1> USE DEF RequestApart, flash, credentials, driver, status, handler, past
<1>0. UNCHANGED events => (IpUnderWay' <=> IpUnderWay)
  BY DEF IpUnderWay
<1>1. CASE PowerCycle \/ FallsAsleep \/ KnobRestarts \/ Restarts \/ HttpPanics
  BY <1>1 DEF PowerCycle, FallsAsleep, KnobRestarts, Restarts, HttpPanics, WebReset, Volatile
<1>2. CASE WakesUp \/ BootWithButton \/ BootByFlag \/ BootWithoutWeb \/ StartServer
           \/ GiveUpLink
  BY <1>0, <1>2 DEF WakesUp, BootWithButton, BootByFlag, BootWithoutWeb, StartServer, GiveUpLink
<1>3. CASE StartWifi
  BY <1>0, <1>3 DEF StartWifi, ConnectAccepted
<1>4. CASE AttemptFails \/ LinkDrops
  BY <1>4, LostIsNoIp DEF AttemptFails, LinkDrops
<1>5. CASE AttemptSucceeds
  BY <1>5 DEF AttemptSucceeds
<1>6. CASE OnDisconnected
  <2>1. events # << >> /\ events' = Tail(events)
    BY <1>6 DEF OnDisconnected
  <2>2. IpUnderWay' => IpUnderWay
    BY <2>1, TailHasNoNewIp
  <2>3. "connected" \notin bits'
    BY <1>6 DEF OnDisconnected
  <2>4. http = "waiting" /\ ~stale => trial' = asked
    BY <1>6 DEF OnDisconnected, ConnectAccepted, ConnectRefused
  <2> QED
    BY <1>6, <2>2, <2>3, <2>4 DEF OnDisconnected
<1>7. CASE OnGotIp
  <2>1. events # << >> /\ events' = Tail(events) /\ Head(events) = "ip"
    BY <1>7 DEF OnGotIp
  <2>2. IpUnderWay
    <3>1. events \in Seq(Event)
      BY DEF WebTypeOK, Event
    <3>2. 1 \in DOMAIN events /\ events[1] = "ip"
      BY <2>1, <3>1
    <3> QED
      BY <3>2 DEF IpUnderWay
  <2> QED
    BY <1>7, <2>2 DEF OnGotIp
<1>8. CASE PageConnects
  BY <1>8 DEF PageConnects, PageThere
<1>9. CASE HttpDisconnects \/ HttpRefused \/ HttpConfigures
  BY <1>9 DEF HttpDisconnects, HttpRefused, HttpConfigures, HttpGoes
<1>10. CASE HttpConnects
  <2>1. ~stale' => "connected" \notin bits /\ trial' = asked /\ ~IpUnderWay
    BY <1>10 DEF HttpConnects, IpUnderWay
  <2> QED
    BY <1>0, <1>10, <2>1 DEF HttpConnects, HttpGoes
<1>11. CASE HttpConnected \/ HttpSaves \/ HttpGivesUp \/ HttpRestarts
  BY <1>0, <1>11 DEF HttpConnected, HttpSaves, HttpSavesSsid, HttpSavesPassword, HttpSaveFails,
     HttpGivesUp, HttpRestarts, HttpGoes
<1>12. CASE PageReboots \/ PageDisables \/ PageClears
  BY <1>12 DEF PageReboots, PageDisables, PageClears, PageThere
<1>13. CASE InactivityExpires \/ ServerStops
  BY <1>0, <1>13 DEF InactivityExpires, ServerStops
<1>14. CASE UNCHANGED webVars
  BY <1>0, <1>14 DEF webVars
<1> QED
  BY <1>1, <1>2, <1>3, <1>4, <1>5, <1>6, <1>7, <1>8, <1>9, <1>10, <1>11, <1>12, <1>13, <1>14
     DEF WebNext, WebTask, EventHandler, ConnectToWifi, HttpSaves

\* An SSID in NVS once worked, and the password beside it is its own, unless the request
\* that saved it met a bit, an event or an attempt of an earlier one, or got no further.
THEOREM OnlyWorkingCredentials == WebSpec => []SavedCredentialsWorked
<1>1. WebInit => WebTypeOK /\ RequestApart /\ NvsTrue
  BY WebTypeInit DEF WebInit, Volatile, RequestApart, NvsTrue
<1>2. WebTypeOK /\ RequestApart /\ NvsTrue /\ [WebNext]_webVars
        => (WebTypeOK /\ RequestApart /\ NvsTrue)'
  BY WebTypeNext, ApartNext, NvsNext
<1>3. NvsTrue => SavedCredentialsWorked
  BY DEF NvsTrue, SavedCredentialsWorked
<1> QED
  BY <1>1, <1>2, <1>3, PTL DEF WebSpec

-----------------------------------------------------------------------------
(* The WebSocket clients.                                                  *)

\* A list without its last entry, which took the place of entry i.
LEMMA EntryReplaced ==
  ASSUME NEW S, NEW s \in Seq(S), NEW i \in 1..Len(s)
  PROVE  LET t == Front([s EXCEPT ![i] = Last(s)])
         IN /\ t \in Seq(S) /\ Len(t) = Len(s) - 1
            /\ \A k \in 1..Len(t) : t[k] = IF k = i THEN s[Len(s)] ELSE s[k]
<1> DEFINE u == [s EXCEPT ![i] = Last(s)]
           n == Len(s)
           t == Front(u)
<1>0. n \in Nat /\ s \in [1..n -> S] /\ DOMAIN s = 1..n /\ n \in 1..n
  BY LenProperties
<1>1. u \in [1..n -> S] /\ \A k \in 1..n : u[k] = IF k = i THEN s[n] ELSE s[k]
  BY <1>0 DEF Last
<1>2. u \in Seq(S) /\ Len(u) = n
  BY <1>0, <1>1, LenProperties, SeqDef
<1> HIDE DEF u
<1>3. t = SubSeq(u, 1, n - 1)
  BY <1>2 DEF Front
<1>4. t \in Seq(S) /\ Len(t) = n - 1 /\ \A k \in 1..(n - 1) : t[k] = u[k]
  <2>1. 1 \in 1..(n + 1) /\ n - 1 \in 0..n
    BY <1>0
  <2> HIDE DEF t, n
  <2> QED
    BY <1>2, <1>3, <2>1, <1>0, SubSeqProperties
<1>5. t \in Seq(S) /\ Len(t) = n - 1
      /\ \A k \in 1..Len(t) : t[k] = IF k = i THEN s[n] ELSE s[k]
  BY <1>0, <1>1, <1>4
<1> QED
  BY <1>5 DEF t, u, n

\* remove_failed_client takes one entry of the client out, if there is one.
LEMMA FailedRemoved ==
  ASSUME failedList \in Seq(Sockets), NEW c \in Sockets, IsFailed(c)
  PROVE  \E i \in 1..Len(failedList) :
           /\ failedList[i] = c
           /\ WithoutFailed(c) \in Seq(Sockets)
           /\ Len(WithoutFailed(c)) = Len(failedList) - 1
           /\ \A k \in 1..Len(WithoutFailed(c)) :
                WithoutFailed(c)[k] = IF k = i THEN failedList[Len(failedList)] ELSE failedList[k]
<1> DEFINE s == failedList
           P(k) == s[k] = c /\ \A j \in 1..(k - 1) : s[j] # c
           i == CHOOSE k \in DOMAIN s : P(k)
<1>1. DOMAIN s = 1..Len(s) /\ Len(s) \in Nat
  BY LenProperties
<1>2. \E k \in DOMAIN s : P(k)
  <2> DEFINE H == {k \in 1..Len(s) : s[k] = c}
  <2>1. H \in SUBSET Nat /\ H # {}
    BY <1>1 DEF IsFailed
  <2>2. PICK k \in H : \A j \in H : k <= j
    BY <2>1, LeastExists
  <2>3. \A j \in 1..(k - 1) : j \in 1..Len(s) /\ ~(k <= j)
    BY <1>1, <2>2
  <2> QED
    BY <1>1, <2>2, <2>3
<1>3. i \in 1..Len(s) /\ s[i] = c
  <2>1. i \in DOMAIN s /\ P(i)
    BY <1>2
  <2> QED
    BY <1>1, <2>1
<1>4. WithoutFailed(c) = Front([s EXCEPT ![i] = Last(s)])
  BY DEF WithoutFailed
<1> HIDE DEF i, s
<1>5. s \in Seq(Sockets)
  BY DEF s
<1>6. LET t == Front([s EXCEPT ![i] = Last(s)])
      IN /\ t \in Seq(Sockets) /\ Len(t) = Len(s) - 1
         /\ \A k \in 1..Len(t) : t[k] = IF k = i THEN s[Len(s)] ELSE s[k]
  BY <1>3, <1>5, EntryReplaced
<1>7. /\ WithoutFailed(c) \in Seq(Sockets) /\ Len(WithoutFailed(c)) = Len(s) - 1
      /\ \A k \in 1..Len(WithoutFailed(c)) :
           WithoutFailed(c)[k] = IF k = i THEN s[Len(s)] ELSE s[k]
  BY <1>4, <1>6, Zenon
<1>8. s = failedList
  BY DEF s
<1> QED
  BY <1>3, <1>7, <1>8

ListTyped == failedList \in Seq(Sockets) /\ Len(failedList) <= MaxFailed + 1

LEMMA WithFailedTyped ==
  ASSUME ListTyped, NEW c \in Sockets
  PROVE  WithFailed(c) \in Seq(Sockets) /\ Len(WithFailed(c)) <= MaxFailed + 1
<1>1. Len(failedList) \in Nat /\ MaxFailed \in Nat
  BY ClientAssumption, LenProperties DEF ListTyped
<1>2. CASE IsFailed(c) \/ Len(failedList) >= MaxFailed
  BY <1>2 DEF WithFailed, ListTyped
<1>3. CASE ~(IsFailed(c) \/ Len(failedList) >= MaxFailed)
  <2>1. WithFailed(c) = Append(failedList, c)
    BY <1>3 DEF WithFailed
  <2>2. Append(failedList, c) \in Seq(Sockets)
        /\ Len(Append(failedList, c)) = Len(failedList) + 1
    BY AppendProperties DEF ListTyped
  <2> QED
    BY <1>1, <1>3, <2>1, <2>2
<1> QED
  BY <1>2, <1>3

CastHasTarget == \A b \in Broadcasters : Noting(b) => target[b] \in Sockets
CastHasList == \A b \in Broadcasters : \A i \in 1..count[b] : fds[i] \in Sockets

ClientTyped == ClientTypeOK /\ CastHasTarget /\ CastHasList

\* The part of the types that is not about the list.
SessionsTyped ==
  client \in [Sockets -> {"none", "http", "websocket"}] /\ closing \subseteq Sockets

CastsTyped ==
  /\ fds \in [1..MaxFailed -> Sockets \union {NoSocket}]
  /\ cast \in [Broadcasters -> Stages]
  /\ count \in [Broadcasters -> 0..MaxFailed]
  /\ index \in [Broadcasters -> 1..(MaxFailed + 1)]
  /\ target \in [Broadcasters -> Sockets \union {NoSocket}]
  /\ CastHasTarget /\ CastHasList

\* The entry a broadcast has come to is a socket.
LEMMA FdIsSocket ==
  ASSUME CastsTyped, NEW b \in Broadcasters, index[b] <= count[b]
  PROVE  Fd(b) \in Sockets
<1>1. index[b] \in 1..count[b]
  BY ClientAssumption DEF CastsTyped
<1> QED
  BY <1>1 DEF CastsTyped, CastHasList, Fd

\* What httpd_get_client_list fills in.
LEMMA ListsOpen ==
  ASSUME NEW S, S \subseteq Sockets, NEW open \in SetToSeqs(S)
  PROVE  Len(open) \in Nat /\ \A i \in 1..Len(open) : open[i] \in Sockets
<1> DEFINE n == Cardinality(S)
<1>1. n \in Nat
  BY ClientAssumption, FS_Subset, FS_CardinalityType
<1>2. open \in [1..n -> S]
  BY DEF SetToSeqs
<1>3. open \in Seq(S) /\ Len(open) = n
  BY <1>1, <1>2, SeqDef
<1> HIDE DEF n
<1> QED
  BY <1>1, <1>2, <1>3

LEMMA ListTypedNext ==
  ASSUME ClientTyped, [ClientNext]_clientVars
  PROVE  ListTyped'
<1>0. ListTyped /\ Len(failedList) \in Nat /\ MaxFailed \in Nat /\ failedList \in Seq(Sockets)
      /\ Len(failedList) <= MaxFailed + 1
  BY ClientAssumption, LenProperties DEF ClientTyped, ClientTypeOK, ListTyped
<1>1. ASSUME NEW c \in Sockets, Handshake(c) PROVE ListTyped'
  <2>1. failedList' = WithoutFailed(c)
    BY <1>1 DEF Handshake
  <2>2. CASE IsFailed(c)
    <3>1. WithoutFailed(c) \in Seq(Sockets) /\ Len(WithoutFailed(c)) = Len(failedList) - 1
      BY <1>0, <2>2, FailedRemoved
    <3> QED
      BY <1>0, <2>1, <3>1 DEF ListTyped
  <2>3. CASE ~IsFailed(c)
    BY <1>0, <2>1, <2>3 DEF ListTyped, WithoutFailed
  <2> QED
    BY <2>2, <2>3
<1>2. ASSUME NEW c \in Sockets, HandlerFails(c) PROVE ListTyped'
  BY <1>0, <1>2, WithFailedTyped DEF HandlerFails, ListTyped
<1>3. ASSUME NEW b \in Broadcasters, CastAdds(b) PROVE ListTyped'
  <2>1. target[b] \in Sockets /\ failedList' = Append(failedList, target[b])
        /\ Len(failedList) <= MaxFailed
    BY <1>3 DEF CastAdds, CastGoes, ClientTyped, CastHasTarget, Noting
  <2>2. failedList' \in Seq(Sockets) /\ Len(failedList') = Len(failedList) + 1
    BY <1>0, <2>1, AppendProperties
  <2> QED
    BY <1>0, <2>1, <2>2 DEF ListTyped
<1>4. CASE UNCHANGED failedList
  BY <1>0, <1>4 DEF ListTyped
<1> QED
  BY <1>1, <1>2, <1>3, <1>4 DEF ClientNext, clientVars, AcceptClient, CloseSession, CastLists,
     CastEnds, CastLooks, CastAsks, CastSucceeds, CastFails, CastTriggersClose, CastChecks

\* A step of a broadcast with the entry it has come to.
LEMMA CastGoesTyped ==
  ASSUME CastsTyped, NEW b \in Broadcasters, NEW from, NEW to \in Stages, CastGoes(b, from, to)
  PROVE  /\ cast' \in [Broadcasters -> Stages] /\ index' \in [Broadcasters -> 1..(MaxFailed + 1)]
         /\ UNCHANGED << fds, count >> /\ CastHasList' /\ Fd(b) \in Sockets
         /\ cast[b] = from /\ cast'[b] = to
         /\ \A a \in Broadcasters : a # b => cast'[a] = cast[a]
<1>1. /\ cast[b] = from /\ index[b] <= count[b] /\ UNCHANGED << fds, count >>
      /\ cast' = [cast EXCEPT ![b] = to]
      /\ index' = [index EXCEPT ![b] = IF to = "looking" THEN index[b] + 1 ELSE index[b]]
  BY DEF CastGoes
<1>2. Fd(b) \in Sockets
  BY <1>1, FdIsSocket
<1>3. (IF to = "looking" THEN index[b] + 1 ELSE index[b]) \in 1..(MaxFailed + 1)
  BY <1>1, ClientAssumption DEF CastsTyped
<1>4. index' \in [Broadcasters -> 1..(MaxFailed + 1)]
  BY <1>1, <1>3 DEF CastsTyped
<1>5. cast' \in [Broadcasters -> Stages] /\ cast'[b] = to
      /\ \A a \in Broadcasters : a # b => cast'[a] = cast[a]
  BY <1>1 DEF CastsTyped
<1> QED
  BY <1>1, <1>2, <1>4, <1>5 DEF CastsTyped, CastHasList

LEMMA CastListsTyped ==
  ASSUME CastsTyped, NEW b \in Broadcasters, CastLists(b)
  PROVE  CastsTyped'
<1>1. PICK open \in SetToSeqs({c \in Sockets : client[c] # "none"}) :
        /\ fds' = [i \in 1..MaxFailed |-> IF i <= Len(open) THEN open[i] ELSE fds[i]]
        /\ \/ /\ Len(open) <= MaxFailed
              /\ cast' = [cast EXCEPT ![b] = "looking"]
              /\ count' = [count EXCEPT ![b] = Len(open)]
           \/ UNCHANGED << cast, count >>
  BY DEF CastLists
<1>2. Len(open) \in Nat /\ \A i \in 1..Len(open) : open[i] \in Sockets
  BY ListsOpen
<1>3. MaxFailed \in Nat
  BY ClientAssumption
<1>4. \A i \in 1..MaxFailed :
        /\ fds'[i] = IF i <= Len(open) THEN open[i] ELSE fds[i]
        /\ i <= Len(open) => i \in 1..Len(open)
  BY <1>1, <1>2, <1>3
<1>5. fds' \in [1..MaxFailed -> Sockets \union {NoSocket}]
  BY <1>1, <1>2, <1>4 DEF CastsTyped
<1>6. /\ cast' \in [Broadcasters -> Stages] /\ count' \in [Broadcasters -> 0..MaxFailed]
      /\ \A a \in Broadcasters : Noting(a)' => Noting(a)
  <2>1. CASE UNCHANGED << cast, count >>
    BY <2>1 DEF CastsTyped, Noting
  <2>2. CASE /\ Len(open) <= MaxFailed /\ cast' = [cast EXCEPT ![b] = "looking"]
             /\ count' = [count EXCEPT ![b] = Len(open)]
    <3>1. Len(open) \in 0..MaxFailed /\ "looking" \in Stages
      BY <1>2, <1>3, <2>2 DEF Stages
    <3>2. cast' \in [Broadcasters -> Stages] /\ count' \in [Broadcasters -> 0..MaxFailed]
      BY <2>2, <3>1 DEF CastsTyped
    <3> QED
      BY <2>2, <3>2 DEF CastsTyped, Noting
  <2> QED
    BY <1>1, <2>1, <2>2
<1>7. UNCHANGED << index, target >>
  BY DEF CastLists
<1>8. CastHasTarget'
  BY <1>6, <1>7 DEF CastsTyped, CastHasTarget
<1>9. CastHasList'
  <2> SUFFICES ASSUME NEW a \in Broadcasters, NEW i \in 1..count'[a] PROVE fds'[i] \in Sockets
    BY DEF CastHasList
  <2>1. i \in 1..MaxFailed
    BY <1>3, <1>6
  <2>2. CASE i <= Len(open)
    BY <1>2, <1>4, <2>1, <2>2
  <2>3. CASE ~(i <= Len(open))
    <3>1. fds'[i] = fds[i]
      BY <1>4, <2>1, <2>3
    <3>2. i \in 1..count[a]
      BY <1>1, <1>2, <1>3, <2>1, <2>3 DEF CastsTyped
    <3> QED
      BY <3>1, <3>2 DEF CastsTyped, CastHasList
  <2> QED
    BY <2>2, <2>3
<1> QED
  BY <1>5, <1>6, <1>7, <1>8, <1>9 DEF CastsTyped

LEMMA CastStepTyped ==
  ASSUME CastsTyped, SessionsTyped, NEW b \in Broadcasters,
         \/ CastEnds(b) \/ CastLooks(b) \/ CastAsks(b) \/ CastSucceeds(b) \/ CastFails(b)
         \/ CastTriggersClose(b) \/ CastChecks(b) \/ CastAdds(b)
  PROVE  CastsTyped' /\ SessionsTyped'
<1>1. CASE CastEnds(b)
  <2>1. /\ index' = [index EXCEPT ![b] = 1] /\ count' = [count EXCEPT ![b] = 0]
        /\ cast' = [cast EXCEPT ![b] = "idle"] /\ UNCHANGED << client, closing, fds, target >>
    BY <1>1 DEF CastEnds
  <2>2. /\ cast' \in [Broadcasters -> Stages] /\ count' \in [Broadcasters -> 0..MaxFailed]
        /\ index' \in [Broadcasters -> 1..(MaxFailed + 1)]
        /\ \A a \in Broadcasters : Noting(a)' => Noting(a)
    BY <2>1, ClientAssumption DEF CastsTyped, Stages, Noting
  <2>3. \A a \in Broadcasters : \A i \in 1..count'[a] : i \in 1..count[a]
    BY <2>1 DEF CastsTyped
  <2>4. CastHasTarget' /\ CastHasList'
    BY <2>1, <2>2, <2>3 DEF CastsTyped, CastHasTarget, CastHasList
  <2> QED
    BY <2>1, <2>2, <2>4 DEF CastsTyped, SessionsTyped
<1>2. CASE CastLooks(b) \/ CastAsks(b) \/ CastSucceeds(b) \/ CastFails(b)
  <2>1. PICK from \in {"looking", "asking", "sending"},
             to \in {"looking", "asking", "sending", "failing"} : CastGoes(b, from, to)
    BY <1>2 DEF CastLooks, CastAsks, CastSucceeds, CastFails
  <2>2. UNCHANGED << client, closing, target >>
    BY <1>2 DEF CastLooks, CastAsks, CastSucceeds, CastFails, CastGoes
  <2>3. to \in Stages
    BY DEF Stages
  <2>4. /\ cast' \in [Broadcasters -> Stages] /\ index' \in [Broadcasters -> 1..(MaxFailed + 1)]
        /\ UNCHANGED << fds, count >> /\ CastHasList' /\ cast'[b] = to
        /\ \A a \in Broadcasters : a # b => cast'[a] = cast[a]
    BY <2>1, <2>3, CastGoesTyped
  <2>5. \A a \in Broadcasters : Noting(a)' => Noting(a)
    BY <2>4 DEF Noting
  <2>6. CastHasTarget'
    BY <2>2, <2>5 DEF CastsTyped, CastHasTarget
  <2> QED
    BY <2>2, <2>4, <2>6 DEF CastsTyped, SessionsTyped
<1>3. CASE CastTriggersClose(b) \/ CastChecks(b) \/ CastAdds(b)
  <2>1. PICK from \in {"failing", "checking", "adding"}, to \in {"looking", "checking", "adding"} :
          CastGoes(b, from, to)
    BY <1>3 DEF CastTriggersClose, CastChecks, CastAdds
  <2>2. to \in Stages
    BY DEF Stages
  <2>3. /\ cast' \in [Broadcasters -> Stages] /\ index' \in [Broadcasters -> 1..(MaxFailed + 1)]
        /\ UNCHANGED << fds, count >> /\ CastHasList' /\ Fd(b) \in Sockets /\ cast'[b] = to
        /\ \A a \in Broadcasters : a # b => cast'[a] = cast[a]
    BY <2>1, <2>2, CastGoesTyped
  <2>4. PICK new \in Sockets \union {NoSocket} :
          /\ target' = [target EXCEPT ![b] = new]
          /\ to \in {"checking", "adding"} => new \in Sockets
    <3>1. CASE CastTriggersClose(b)
      BY <2>3, <3>1 DEF CastTriggersClose
    <3>2. CASE CastChecks(b)
      <4>1. target' = [target EXCEPT ![b] = IF cast'[b] = "adding" THEN Fd(b) ELSE NoSocket]
        BY <3>2 DEF CastChecks
      <4>2. to \in {"looking", "adding"}
        <5>1. PICK t \in {"looking", "adding"} : CastGoes(b, "checking", t)
          BY <3>2 DEF CastChecks
        <5>2. t \in Stages
          BY DEF Stages
        <5> QED
          BY <2>3, <5>1, <5>2, CastGoesTyped
      <4> QED
        BY <2>3, <4>1, <4>2
    <3>3. CASE CastAdds(b)
      <4>1. to = "looking"
        <5>1. CastGoes(b, "adding", "looking") /\ "looking" \in Stages
          BY <3>3 DEF CastAdds, Stages
        <5> QED
          BY <2>3, <5>1, CastGoesTyped
      <4> QED
        BY <3>3, <4>1 DEF CastAdds
    <3> QED
      BY <1>3, <3>1, <3>2, <3>3
  <2>5. target' \in [Broadcasters -> Sockets \union {NoSocket}]
    BY <2>4 DEF CastsTyped
  <2>6. CastHasTarget'
    <3> SUFFICES ASSUME NEW a \in Broadcasters, Noting(a)' PROVE target'[a] \in Sockets
      BY DEF CastHasTarget
    <3>1. CASE a = b
      <4>1. to \in {"checking", "adding"} /\ target'[a] = new
        BY <2>3, <2>4, <3>1 DEF Noting, CastsTyped
      <4> QED
        BY <2>4, <4>1
    <3>2. CASE a # b
      BY <2>3, <2>4, <3>2 DEF CastsTyped, CastHasTarget, Noting
    <3> QED
      BY <3>1, <3>2
  <2>7. SessionsTyped'
    <3>1. client' = client
      BY <2>1 DEF CastGoes
    <3>2. closing' \subseteq Sockets
      BY <1>3, <2>3 DEF CastTriggersClose, CastChecks, CastAdds, SessionsTyped
    <3> QED
      BY <3>1, <3>2 DEF SessionsTyped
  <2> QED
    BY <2>3, <2>5, <2>6, <2>7 DEF CastsTyped
<1> QED
  BY <1>1, <1>2, <1>3

LEMMA ClientTypedNext ==
  ASSUME ClientTyped, [ClientNext]_clientVars
  PROVE  ClientTyped'
<1>l. failedList' \in Seq(Sockets) /\ Len(failedList') <= MaxFailed + 1
  BY ListTypedNext DEF ListTyped
<1>c. collided' \in BOOLEAN
  <2>1. collided \in BOOLEAN
    BY DEF ClientTyped, ClientTypeOK
  <2>2. ASSUME NEW c \in Sockets,
               AcceptClient(c) \/ Handshake(c) \/ HandlerFails(c) \/ CloseSession(c)
        PROVE  collided' \in BOOLEAN
    BY <2>1, <2>2, Zenon DEF AcceptClient, Handshake, HandlerFails, CloseSession, NotingOn
  <2>3. ASSUME NEW b \in Broadcasters, CastTriggersClose(b) \/ CastChecks(b)
        PROVE  collided' \in BOOLEAN
    BY <2>3, Zenon DEF CastTriggersClose, CastChecks
  <2> QED
    BY <2>1, <2>2, <2>3, Zenon DEF ClientNext, clientVars, CastLists, CastEnds, CastLooks, CastAsks,
       CastSucceeds, CastFails, CastAdds
<1>0. CastsTyped /\ SessionsTyped
  BY DEF ClientTyped, ClientTypeOK, CastsTyped, SessionsTyped
<1>1. CastsTyped' /\ SessionsTyped'
  <2>1. ASSUME NEW c \in Sockets,
               AcceptClient(c) \/ Handshake(c) \/ HandlerFails(c) \/ CloseSession(c)
        PROVE  CastsTyped' /\ SessionsTyped'
    <3>1. UNCHANGED castVars
      BY <2>1 DEF AcceptClient, Handshake, HandlerFails, CloseSession
    <3>2. SessionsTyped'
      BY <1>0, <2>1 DEF AcceptClient, Handshake, HandlerFails, CloseSession, SessionsTyped
    <3> QED
      BY <1>0, <3>1, <3>2 DEF CastsTyped, castVars, CastHasTarget, CastHasList, Noting
  <2>2. ASSUME NEW b \in Broadcasters, CastLists(b)
        PROVE  CastsTyped' /\ SessionsTyped'
    <3>1. UNCHANGED << client, closing >>
      BY <2>2 DEF CastLists
    <3> QED
      BY <1>0, <2>2, <3>1, CastListsTyped DEF SessionsTyped
  <2>3. CASE UNCHANGED clientVars
    BY <1>0, <2>3 DEF clientVars, castVars, CastsTyped, SessionsTyped, CastHasTarget, CastHasList,
       Noting
  <2> QED
    BY <1>0, <2>1, <2>2, <2>3, CastStepTyped DEF ClientNext
<1> QED
  BY <1>1, <1>l, <1>c DEF ClientTyped, ClientTypeOK, CastsTyped, SessionsTyped

LEMMA ClientTypedInit == ClientInit => ClientTyped
<1> SUFFICES ASSUME ClientInit PROVE ClientTyped
  OBVIOUS
<1>1. failedList = << >> /\ 0 <= MaxFailed + 1 /\ Len(<< >>) = 0
      /\ 0 \in 0..MaxFailed /\ 1 \in 1..(MaxFailed + 1)
  BY ClientAssumption DEF ClientInit
<1>2. failedList \in Seq(Sockets) /\ Len(failedList) <= MaxFailed + 1
  BY <1>1
<1>3. CastHasTarget /\ CastHasList
  BY DEF ClientInit, CastHasTarget, CastHasList, Noting
<1> QED
  BY <1>1, <1>2, <1>3 DEF ClientInit, ClientTyped, ClientTypeOK, Stages

\* Every variable of the clients has its type.
THEOREM ClientTypeCorrect == ClientSpec => []ClientTypeOK
<1>1. ClientTyped => ClientTypeOK
  BY DEF ClientTyped
<1> QED
  BY <1>1, ClientTypedInit, ClientTypedNext, PTL DEF ClientSpec

\* No client is twice in the list.
Once(s) == \A i, j \in 1..Len(s) : s[i] = s[j] => i = j
Among(s, c) == \E i \in 1..Len(s) : s[i] = c

LEMMA FailedIsAmong == failedList \in Seq(Sockets) => \A c : IsFailed(c) <=> Among(failedList, c)
  BY LenProperties DEF IsFailed, Among

LEMMA RemovedOnce ==
  ASSUME failedList \in Seq(Sockets), NEW c \in Sockets, Once(failedList)
  PROVE  /\ Once(WithoutFailed(c)) /\ ~Among(WithoutFailed(c), c)
         /\ \A d : Among(WithoutFailed(c), d) => Among(failedList, d)
<1>0. Len(failedList) \in Nat
  BY LenProperties
<1>1. CASE ~IsFailed(c)
  BY <1>1, FailedIsAmong DEF WithoutFailed
<1>2. CASE IsFailed(c)
  <2> DEFINE t == WithoutFailed(c)
             n == Len(failedList)
  <2>1. PICK i \in 1..n :
           /\ failedList[i] = c /\ t \in Seq(Sockets) /\ Len(t) = n - 1
           /\ \A k \in 1..Len(t) : t[k] = IF k = i THEN failedList[n] ELSE failedList[k]
    BY <1>2, FailedRemoved
  <2> HIDE DEF t
  <2>2. \A k \in 1..Len(t) : k \in 1..n /\ k # n /\ n \in 1..n
    BY <1>0, <2>1
  <2>3. \A k, l \in 1..Len(t) : t[k] = t[l] => k = l
    <3> SUFFICES ASSUME NEW k \in 1..Len(t), NEW l \in 1..Len(t), t[k] = t[l] PROVE k = l
      OBVIOUS
    <3>1. CASE k = i
      BY <2>1, <2>2, <3>1 DEF Once
    <3>2. CASE k # i /\ l = i
      BY <2>1, <2>2, <3>2 DEF Once
    <3>3. CASE k # i /\ l # i
      BY <2>1, <2>2, <3>3 DEF Once
    <3> QED
      BY <3>1, <3>2, <3>3
  <2>4. \A k \in 1..Len(t) : t[k] # c
    <3> TAKE k \in 1..Len(t)
    <3>1. CASE k = i
      BY <2>1, <2>2, <3>1 DEF Once
    <3>2. CASE k # i
      BY <2>1, <2>2, <3>2 DEF Once
    <3> QED
      BY <3>1, <3>2
  <2>5. \A k \in 1..Len(t) : \E j \in 1..n : t[k] = failedList[j]
    BY <2>1, <2>2
  <2>6. Once(t) /\ ~Among(t, c) /\ \A d : Among(t, d) => Among(failedList, d)
    BY <2>3, <2>4, <2>5 DEF Once, Among
  <2> QED
    BY <2>6 DEF t
<1> QED
  BY <1>1, <1>2

LEMMA AddedOnce ==
  ASSUME failedList \in Seq(Sockets), NEW c \in Sockets, Once(failedList), ~Among(failedList, c)
  PROVE  /\ Once(Append(failedList, c))
         /\ \A d : Among(Append(failedList, c), d) => d = c \/ Among(failedList, d)
<1> DEFINE t == Append(failedList, c)
           n == Len(failedList)
<1>1. /\ n \in Nat /\ Len(t) = n + 1 /\ t[n + 1] = c
      /\ \A i \in 1..n : t[i] = failedList[i]
  <2>1. n \in Nat
    BY LenProperties
  <2>2. Len(t) = n + 1
    OBVIOUS
  <2>3. t[n + 1] = c
    BY AppendProperties
  <2>4. \A i \in 1..n : t[i] = failedList[i]
    OBVIOUS
  <2> QED
    BY <2>1, <2>2, <2>3, <2>4
<1> HIDE DEF t
<1>2. \A k \in 1..Len(t) : (k = n + 1 /\ t[k] = c) \/ (k \in 1..n /\ t[k] = failedList[k])
  BY <1>1
<1>3. \A k \in 1..n : failedList[k] # c
  BY DEF Among
<1>4. Once(t)
  BY <1>2, <1>3 DEF Once
<1>5. \A d : Among(t, d) => d = c \/ Among(failedList, d)
  BY <1>2 DEF Among
<1> QED
  BY <1>4, <1>5 DEF t

\* One task adds at a time, what it adds is not in the list, and a failure that is being
\* noted is one of a client that is gone or about to be closed.
FailuresNoted ==
  /\ Once(failedList)
  /\ \A a, b \in Broadcasters : cast[a] = "adding" /\ cast[b] = "adding" => a = b
  /\ \A b \in Broadcasters : cast[b] = "adding" => ~Among(failedList, target[b])
  /\ \A b \in Broadcasters :
       Noting(b) => client[target[b]] = "none" \/ target[b] \in closing

LiveServed ==
  \A c \in Sockets : client[c] = "websocket" /\ c \notin closing => ~Among(failedList, c)

ClientInv == ClientTyped /\ (~collided => FailuresNoted /\ LiveServed)

LEMMA ClientInvNext ==
  ASSUME ClientInv, [ClientNext]_clientVars
  PROVE  ClientInv'
<1>0. ClientTyped /\ ClientTyped' /\ failedList \in Seq(Sockets) /\ CastsTyped /\ SessionsTyped
      /\ CastHasTarget
  BY ClientTypedNext DEF ClientInv, ClientTyped, ClientTypeOK, CastsTyped, SessionsTyped
<1> SUFFICES ASSUME ~collided' PROVE FailuresNoted' /\ LiveServed'
  BY <1>0 DEF ClientInv
<1>a. ~collided
  BY DEF ClientNext, clientVars, AcceptClient, Handshake, HandlerFails, CloseSession, CastLists,
     CastEnds, CastLooks, CastAsks, CastSucceeds, CastFails, CastTriggersClose, CastChecks, CastAdds
<1>b. FailuresNoted /\ LiveServed
  BY <1>a DEF ClientInv
<1> USE DEF FailuresNoted, LiveServed, SessionsTyped
<1>1. ASSUME NEW c \in Sockets, AcceptClient(c) PROVE FailuresNoted' /\ LiveServed'
  <2>1. ~NotingOn(c)
    BY <1>1 DEF AcceptClient
  <2>2. \A b \in Broadcasters : Noting(b) => target[b] # c
    BY <2>1 DEF NotingOn
  <2>3. client' = [client EXCEPT ![c] = "http"] /\ UNCHANGED << closing, failedList, castVars >>
    BY <1>1 DEF AcceptClient
  <2> QED
    BY <1>0, <1>b, <2>2, <2>3 DEF castVars, Noting
<1>2. ASSUME NEW c \in Sockets, Handshake(c) PROVE FailuresNoted' /\ LiveServed'
  <2>1. client' = [client EXCEPT ![c] = "websocket"] /\ failedList' = WithoutFailed(c)
        /\ UNCHANGED << closing, castVars >>
    BY <1>2 DEF Handshake
  <2>2. \A b \in Broadcasters : ~Noting(b)
    BY <1>2 DEF Handshake
  <2>3. /\ Once(failedList') /\ ~Among(failedList', c)
        /\ \A d : Among(failedList', d) => Among(failedList, d)
    BY <1>0, <1>b, <2>1, RemovedOnce
  <2> QED
    BY <1>0, <1>b, <2>1, <2>2, <2>3 DEF castVars, Noting
<1>3. ASSUME NEW c \in Sockets, HandlerFails(c) PROVE FailuresNoted' /\ LiveServed'
  <2>1. failedList' = WithFailed(c) /\ closing' = closing \union {c}
        /\ UNCHANGED << client, castVars >>
    BY <1>3 DEF HandlerFails
  <2>2. \A b \in Broadcasters : ~Noting(b)
    BY <1>3 DEF HandlerFails
  <2>3. Once(failedList') /\ \A d : Among(failedList', d) => d = c \/ Among(failedList, d)
    <3>1. CASE failedList' = failedList
      BY <1>b, <3>1
    <3>2. CASE ~IsFailed(c) /\ failedList' = Append(failedList, c)
      BY <1>0, <1>b, <3>2, AddedOnce, FailedIsAmong
    <3> QED
      BY <2>1, <3>1, <3>2 DEF WithFailed
  <2> QED
    BY <1>0, <1>b, <2>1, <2>2, <2>3 DEF castVars, Noting
<1>4. ASSUME NEW c \in Sockets, CloseSession(c) PROVE FailuresNoted' /\ LiveServed'
  BY <1>0, <1>b, <1>4 DEF CloseSession, castVars, Noting, CastHasTarget
<1>5. ASSUME NEW b \in Broadcasters, CastLists(b) \/ CastEnds(b)
      PROVE  FailuresNoted' /\ LiveServed'
  <2>1. UNCHANGED << client, closing, failedList, target >>
    BY <1>5 DEF CastLists, CastEnds
  <2>2. \A a \in Broadcasters : (Noting(a)' => Noting(a)) /\ (cast'[a] = "adding" => cast[a] = "adding")
    BY <1>0, <1>5 DEF CastLists, CastEnds, CastsTyped, Noting
  <2> QED
    BY <1>b, <2>1, <2>2
<1>6. ASSUME NEW b \in Broadcasters,
             CastLooks(b) \/ CastAsks(b) \/ CastSucceeds(b) \/ CastFails(b)
      PROVE  FailuresNoted' /\ LiveServed'
  <2>1. UNCHANGED << client, closing, failedList, target >>
    BY <1>6 DEF CastLooks, CastAsks, CastSucceeds, CastFails, CastGoes
  <2>2. PICK to \in {"looking", "asking", "sending", "failing"} : cast' = [cast EXCEPT ![b] = to]
    BY <1>6 DEF CastLooks, CastAsks, CastSucceeds, CastFails, CastGoes
  <2>3. \A a \in Broadcasters : (Noting(a)' => Noting(a)) /\ (cast'[a] = "adding" => cast[a] = "adding")
    BY <1>0, <2>2 DEF CastsTyped, Noting
  <2> QED
    BY <1>b, <2>1, <2>3
<1>7. ASSUME NEW b \in Broadcasters, CastTriggersClose(b) PROVE FailuresNoted' /\ LiveServed'
  <2>1. /\ Fd(b) \in Sockets /\ cast'[b] = "checking"
        /\ \A a \in Broadcasters : a # b => cast'[a] = cast[a]
    <3>1. CastGoes(b, "failing", "checking") /\ "checking" \in Stages
      BY <1>7 DEF CastTriggersClose, Stages
    <3> QED
      BY <1>0, <3>1, CastGoesTyped
  <2>2. /\ target'[b] = Fd(b) /\ \A a \in Broadcasters : a # b => target'[a] = target[a]
    BY <1>0, <1>7 DEF CastTriggersClose, CastsTyped
  <2>3. /\ closing \subseteq closing' /\ UNCHANGED << client, failedList >>
        /\ client[Fd(b)] = "none" \/ Fd(b) \in closing'
    BY <1>7 DEF CastTriggersClose, CastGoes
  <2>4. \A a \in Broadcasters : a # b => (Noting(a)' <=> Noting(a))
    BY <2>1 DEF Noting
  <2> QED
    BY <1>0, <1>b, <2>1, <2>2, <2>3, <2>4
<1>8. ASSUME NEW b \in Broadcasters, CastChecks(b) PROVE FailuresNoted' /\ LiveServed'
  <2>1. /\ \A a \in Broadcasters : a # b => ~Noting(a)
        /\ Fd(b) = target[b]
    BY <1>8 DEF CastChecks
  <2>2. UNCHANGED << client, closing, failedList >>
    BY <1>8 DEF CastChecks, CastGoes
  <2>3. PICK to \in {"looking", "adding"} :
          CastGoes(b, "checking", to) /\ (to = "adding" => ~IsFailed(target[b]))
    BY <1>8, <2>1 DEF CastChecks
  <2>4. to \in Stages
    BY DEF Stages
  <2>5. /\ Fd(b) \in Sockets /\ cast[b] = "checking" /\ cast'[b] = to
        /\ \A a \in Broadcasters : a # b => cast'[a] = cast[a]
    BY <1>0, <2>3, <2>4, CastGoesTyped
  <2>6. \A a \in Broadcasters : Noting(a)' => a = b /\ to = "adding"
    BY <2>1, <2>5 DEF Noting
  <2>7. to = "adding" => target'[b] = target[b]
    BY <1>0, <1>8, <2>1, <2>5 DEF CastChecks, CastsTyped
  <2>8. to = "adding" => ~Among(failedList, target[b])
    BY <1>0, <2>3, FailedIsAmong
  <2>9. client[target[b]] = "none" \/ target[b] \in closing
    BY <1>b, <2>5 DEF Noting
  <2>10. \A a \in Broadcasters : cast'[a] = "adding" => Noting(a)'
    BY DEF Noting
  <2> QED
    BY <1>b, <2>2, <2>6, <2>7, <2>8, <2>9, <2>10
<1>9. ASSUME NEW b \in Broadcasters, CastAdds(b) PROVE FailuresNoted' /\ LiveServed'
  <2>1. /\ cast[b] = "adding" /\ cast'[b] = "looking" /\ failedList' = Append(failedList, target[b])
        /\ \A a \in Broadcasters : a # b => cast'[a] = cast[a] /\ target'[a] = target[a]
        /\ UNCHANGED << client, closing >>
    <3>1. CastGoes(b, "adding", "looking") /\ "looking" \in Stages
      BY <1>9 DEF CastAdds, Stages
    <3>2. /\ cast[b] = "adding" /\ cast'[b] = "looking"
          /\ \A a \in Broadcasters : a # b => cast'[a] = cast[a]
      BY <1>0, <3>1, CastGoesTyped
    <3>3. UNCHANGED client
      BY <3>1 DEF CastGoes
    <3> QED
      BY <1>0, <1>9, <3>2, <3>3 DEF CastAdds, CastsTyped
  <2>2. target[b] \in Sockets /\ ~Among(failedList, target[b])
        /\ (client[target[b]] = "none" \/ target[b] \in closing)
    BY <1>0, <1>b, <2>1 DEF CastHasTarget, Noting
  <2>3. /\ Once(failedList')
        /\ \A d : Among(failedList', d) => d = target[b] \/ Among(failedList, d)
    BY <1>0, <1>b, <2>1, <2>2, AddedOnce
  <2>4. \A a \in Broadcasters : cast'[a] # "adding"
    BY <1>b, <2>1
  <2>5. \A a \in Broadcasters : Noting(a)' => a # b /\ Noting(a)
    BY <2>1 DEF Noting
  <2> QED
    BY <1>b, <2>1, <2>2, <2>3, <2>4, <2>5
<1>10. CASE UNCHANGED clientVars
  BY <1>b, <1>10 DEF clientVars, castVars, Noting
<1> QED
  BY <1>1, <1>2, <1>3, <1>4, <1>5, <1>6, <1>7, <1>8, <1>9, <1>10 DEF ClientNext

\* A live client is never taken for a failed one, for any number of sockets and tasks and
\* however they fill the array of clients, while no two tasks meet in the list of failed
\* ones and only clients that were closed are noted in it.
THEOREM LiveClientsServed == ClientSpec => []LiveClientsAreServed
<1>1. ClientInit => ClientInv
  <2> SUFFICES ASSUME ClientInit PROVE ClientInv
    OBVIOUS
  <2>1. failedList = << >> /\ Len(failedList) = 0 /\ \A b \in Broadcasters : cast[b] = "idle"
    BY DEF ClientInit
  <2>2. FailuresNoted /\ LiveServed
    BY <2>1 DEF FailuresNoted, LiveServed, Noting, Once, Among
  <2> QED
    BY <2>2, ClientTypedInit DEF ClientInv
<1>2. ClientInv => LiveClientsAreServed
  BY FailedIsAmong DEF ClientInv, LiveServed, LiveClientsAreServed, ClientTyped, ClientTypeOK
<1> QED
  BY <1>1, <1>2, ClientInvNext, PTL DEF ClientSpec

-----------------------------------------------------------------------------
(* Firmware updates.                                                       *)

LEMMA OtherSlot ==
  ASSUME NEW s \in Slots
  PROVE  /\ Other(s) \in Slots /\ Other(s) # s /\ Other(Other(s)) = s
         /\ \A t \in Slots : t = s \/ t = Other(s)
<1>1. \A r \in Slots : Other(r) \in Slots /\ Other(r) # r
  <2> TAKE r \in Slots
  <2>1. \E t \in Slots : t # r
    BY OtaAssumption
  <2> QED
    BY <2>1 DEF Other
<1> QED
  BY <1>1, OtaAssumption

-----------------------------------------------------------------------------
(* Types.  That no more pieces are written than received is needed for the *)
(* type of the second counter.                                             *)

WrittenWasReceived == written <= received

LEMMA OtaTypeInit == OtaInit => OtaTypeOK /\ WrittenWasReceived
<1>1. 0 \in 0..Chunks
  BY OtaAssumption
<1>2. /\ image = [s \in Slots |-> IF s = "a" THEN "whole" ELSE "partial"]
        => image \in [Slots -> {"whole", "partial"}]
      /\ otaState = [s \in Slots |-> IF s = "a" THEN "valid" ELSE "aborted"]
        => otaState \in [Slots -> {"new", "pending", "valid", "aborted"}]
      /\ "a" \in Slots
  BY OtaAssumption
<1>3. OtaInit => received = 0 /\ written = 0 /\ received \in 0..Chunks /\ written \in 0..Chunks
  BY <1>1 DEF OtaInit
<1>4. OtaInit => WrittenWasReceived
  BY <1>3 DEF WrittenWasReceived
<1>5. OtaInit => OtaTypeOK
  BY <1>2, <1>3 DEF OtaInit, OtaTypeOK
<1> QED
  BY <1>4, <1>5

LEMMA OtaTypeNext ==
  OtaTypeOK /\ WrittenWasReceived /\ [OtaNext]_otaVars =>
    OtaTypeOK' /\ WrittenWasReceived'
<1> SUFFICES ASSUME OtaTypeOK, WrittenWasReceived, [OtaNext]_otaVars
             PROVE  OtaTypeOK' /\ WrittenWasReceived'
  OBVIOUS
<1>0. Chunks \in Nat /\ 0 \in 0..Chunks /\ 1 \in 0..Chunks
  BY OtaAssumption
<1> USE <1>0 DEF OtaTypeOK, WrittenWasReceived, UploadGoes, On
<1>1. CASE UploadStarts
  <2>1. received' = 0 /\ written' = 0
    BY <1>1 DEF UploadStarts
  <2>2. received' \in 0..Chunks /\ written' \in 0..Chunks /\ written' <= received'
    BY <2>1
  <2> QED
    BY <1>1, <2>2 DEF UploadStarts
<1>2. CASE ReceiveTooLittle
  BY <1>2 DEF ReceiveTooLittle
<1>3. CASE ReceiveFirst
  <2>1. received' \in 0..Chunks /\ written' <= received'
    BY <1>3 DEF ReceiveFirst
  <2> QED
    BY <1>3, <2>1 DEF ReceiveFirst
<1>4. CASE ReceiveMore
  BY <1>4 DEF ReceiveMore
<1>5. CASE AllReceived
  BY <1>5 DEF AllReceived
<1>6. CASE UploadFails
  BY <1>6 DEF UploadFails
<1>7. CASE EndUpload
  BY <1>7 DEF EndUpload
<1>8. CASE SetBootPartition
  BY <1>8, OtherSlot DEF SetBootPartition
<1>9. CASE BootNotSet
  BY <1>9 DEF BootNotSet
<1>10. CASE SetUpdated
  BY <1>10 DEF SetUpdated
<1>11. CASE SetWifiFlag
  BY <1>11 DEF SetWifiFlag
<1>12. CASE OtaRestarts
  <2>1. received' = 0 /\ written' = 0
    BY <1>12 DEF OtaRestarts, OtaReset
  <2>2. received' \in 0..Chunks /\ written' \in 0..Chunks /\ written' <= received'
    BY <2>1
  <2> QED
    BY <1>12, <2>2 DEF OtaRestarts, OtaReset
<1>13. CASE OtaConfirm
  BY <1>13 DEF OtaConfirm, request
<1>14. CASE OtaBoots
  BY <1>14, OtherSlot DEF OtaBoots, BootSlotTaken, request
<1>15. CASE UNCHANGED otaVars
  BY <1>15 DEF otaVars, request
<1> QED
  BY <1>1, <1>2, <1>3, <1>4, <1>5, <1>6, <1>7, <1>8, <1>9, <1>10, <1>11, <1>12, <1>13,
     <1>14, <1>15 DEF OtaNext

\* Every variable of the update keeps its type.
THEOREM OtaTypeCorrect == OtaSpec => []OtaTypeOK
<1> QED
  BY OtaTypeInit, OtaTypeNext, PTL DEF OtaSpec

-----------------------------------------------------------------------------
(* There is always something to boot.                                      *)

Verified(s) == image[s] = "whole" /\ otaState[s] = "valid"

\* The slot to boot may be booted, and if it is not verified the other one is.
BootSlotGood ==
  /\ image[bootSlot] = "whole" /\ otaState[bootSlot] \in {"new", "pending", "valid"}
  /\ otaState[bootSlot] # "valid" => Verified(Other(bootSlot))

\* The running firmware is the one to boot, except at the end of an upload.
RunningIsBooted ==
  On => \/ bootSlot = running /\ otaState[running] # "new"
        \/ /\ bootSlot = Other(running) /\ otaState[bootSlot] = "new"
           /\ upload \in {"answering", "flagging", "restarting"}

\* Only a verified firmware writes into the other slot, and what it chooses to boot
\* was checked.
WriterIsVerified ==
  On =>
    /\ upload \in {"ending", "booting"} \/ (upload = "receiving" /\ begun)
         => otaState[running] = "valid"
    /\ upload = "booting" => image[Other(running)] = "whole"

OffIsIdle == ~On => upload = "idle"

BootInv == OtaTypeOK /\ BootSlotGood /\ RunningIsBooted /\ WriterIsVerified /\ OffIsIdle

LEMMA BootInit == OtaInit => BootSlotGood /\ RunningIsBooted /\ WriterIsVerified /\ OffIsIdle
BY OtaAssumption
   DEF OtaInit, BootSlotGood, RunningIsBooted, WriterIsVerified, OffIsIdle, On

LEMMA BootNext ==
  BootInv /\ [OtaNext]_otaVars =>
    BootSlotGood' /\ RunningIsBooted' /\ WriterIsVerified' /\ OffIsIdle'
<1> SUFFICES ASSUME BootInv, [OtaNext]_otaVars
             PROVE  BootSlotGood' /\ RunningIsBooted' /\ WriterIsVerified' /\ OffIsIdle'
  OBVIOUS
<1>1. On => /\ running \in Slots
            /\ Other(running) \in Slots /\ Other(running) # running
            /\ Other(Other(running)) = running
  BY OtherSlot, OtaAssumption DEF BootInv, OtaTypeOK, On
<1>2. /\ bootSlot \in Slots /\ Other(bootSlot) \in Slots /\ Other(bootSlot) # bootSlot
      /\ Other(Other(bootSlot)) = bootSlot
  BY OtherSlot DEF BootInv, OtaTypeOK
<1> USE DEF BootInv, OtaTypeOK, BootSlotGood, RunningIsBooted, WriterIsVerified, OffIsIdle,
            Verified, UploadGoes, On
<1>3. CASE UploadStarts \/ ReceiveTooLittle
  <2>1. /\ UNCHANGED << running, bootSlot, image, otaState >> /\ On
        /\ upload' = "receiving" /\ ~begun'
        /\ upload \in {"idle", "receiving"}
    BY <1>3 DEF UploadStarts, ReceiveTooLittle
  <2> QED
    BY <2>1 DEF Other
<1>4. CASE ReceiveFirst
  <2>1. bootSlot = running /\ otaState[running] = "valid"
    BY <1>4 DEF ReceiveFirst
  <2>2. image'[running] = image[running]
    BY <1>1, <1>4 DEF ReceiveFirst
  <2> QED
    BY <1>1, <1>4, <2>1, <2>2 DEF ReceiveFirst
<1>5. CASE ReceiveMore \/ AllReceived \/ UploadFails \/ BootNotSet
  BY <1>5, <1>1 DEF ReceiveMore, AllReceived, UploadFails, BootNotSet, Other
<1>6. CASE EndUpload
  <2>1. bootSlot = running /\ otaState[running] = "valid"
    BY <1>6 DEF EndUpload
  <2>2. /\ image'[running] = image[running]
        /\ image'[Other(running)] = IF written = Chunks THEN "whole" ELSE "partial"
    BY <1>1, <1>6 DEF EndUpload
  <2> QED
    BY <1>1, <1>6, <2>1, <2>2 DEF EndUpload, Other
<1>7. CASE SetBootPartition
  <2>1. Verified(running) /\ image[Other(running)] = "whole"
    BY <1>7 DEF SetBootPartition
  <2>2. /\ bootSlot' = Other(running) /\ otaState'[Other(running)] = "new"
        /\ otaState'[running] = "valid"
    BY <1>1, <1>7, <2>1 DEF SetBootPartition
  <2>3. Other(bootSlot') = running
    BY <1>1, <1>7, <2>2 DEF SetBootPartition
  <2> QED
    BY <1>1, <1>7, <2>1, <2>2, <2>3 DEF SetBootPartition, Other
<1>8. CASE SetUpdated \/ SetWifiFlag
  BY <1>8 DEF SetUpdated, SetWifiFlag, Other
<1>9. CASE OtaRestarts
  BY <1>9 DEF OtaRestarts, OtaReset, Other
<1>10. CASE OtaConfirm
  <2>1. bootSlot = running /\ otaState'[running] = "valid"
    BY <1>1, <1>10 DEF OtaConfirm
  <2> QED
    BY <1>10, <2>1 DEF OtaConfirm, request
<1>11. CASE OtaBoots
  <2>1. CASE otaState[bootSlot] = "pending"
    <3>1. bootSlot' = Other(bootSlot) /\ running' = Other(bootSlot)
      BY <1>11, <2>1 DEF OtaBoots, BootSlotTaken
    <3>2. otaState'[Other(bootSlot)] = "valid"
      BY <1>2, <1>11, <2>1, <3>1 DEF OtaBoots
    <3> QED
      BY <1>2, <1>11, <2>1, <3>1, <3>2 DEF OtaBoots, request
  <2>2. CASE otaState[bootSlot] # "pending"
    <3>1. bootSlot' = bootSlot /\ running' = bootSlot
      BY <1>11, <2>2 DEF OtaBoots, BootSlotTaken
    <3>2. /\ otaState'[bootSlot] = IF otaState[bootSlot] = "new" THEN "pending"
                                   ELSE otaState[bootSlot]
          /\ otaState[Other(bootSlot)] = "valid" => otaState'[Other(bootSlot)] = "valid"
      BY <1>2, <1>11, <2>2, <3>1 DEF OtaBoots, BootSlotTaken
    <3> QED
      BY <1>2, <1>11, <2>2, <3>1, <3>2 DEF OtaBoots, request
  <2> QED
    BY <2>1, <2>2
<1>12. CASE UNCHANGED otaVars
  BY <1>12 DEF otaVars, request, Other
<1> QED
  BY <1>3, <1>4, <1>5, <1>6, <1>7, <1>8, <1>9, <1>10, <1>11, <1>12 DEF OtaNext

LEMMA GoodMeansBootable == BootInv => DeviceStaysBootable
<1> SUFFICES ASSUME BootInv PROVE DeviceStaysBootable
  OBVIOUS
<1>1. bootSlot \in Slots /\ Other(bootSlot) \in Slots
  BY OtherSlot DEF BootInv, OtaTypeOK
<1> QED
  BY <1>1 DEF BootInv, BootSlotGood, Verified, DeviceStaysBootable

\* Wherever an upload stops, and whatever is restarted, verified or rolled back, there
\* is a whole image to boot and a verified one.
THEOREM AlwaysBootable == OtaSpec => []DeviceStaysBootable
<1>1. OtaInit => BootInv /\ WrittenWasReceived
  BY OtaTypeInit, BootInit DEF BootInv
<1>2. BootInv /\ WrittenWasReceived /\ [OtaNext]_otaVars => BootInv' /\ WrittenWasReceived'
  BY OtaTypeNext, BootNext DEF BootInv
<1> QED
  BY <1>1, <1>2, GoodMeansBootable, PTL DEF OtaSpec

-----------------------------------------------------------------------------
(* The parts together.                                                     *)

LEMMA ServicesInitSplit ==
  ServicesInit => /\ ButtonInit /\ EncoderInit /\ DeviceInit /\ StoreInit /\ WebInit
                  /\ ClientInit /\ OtaInit
BY DEF ServicesInit

LEMMA ServicesNextSplit ==
  ASSUME [ServicesNext]_servicesVars
  PROVE  /\ [ButtonNext]_buttonVars /\ [EncoderNext]_encoderVars /\ [DeviceNext]_deviceVars
         /\ [StoreNext]_storeVars /\ [WebNext]_webVars /\ [ClientNext]_clientVars
         /\ [OtaNext]_otaVars
<1>1. CASE UNCHANGED servicesVars
  BY <1>1, Zenon DEF servicesVars
<1>2. CASE Parked("buttons") /\ ButtonNext
  BY <1>2 DEF Parked
<1>3. CASE Parked("encoder") /\ EncoderNext
  BY <1>3 DEF Parked
<1>4. CASE Parked("host") /\ DeviceNext
  BY <1>4 DEF Parked
<1>5. CASE Parked("settings") /\ StoreNext
  BY <1>5 DEF Parked
<1>6. CASE Parked("web") /\ WebNext
  BY <1>6 DEF Parked
<1>7. CASE Parked("clients") /\ ClientNext
  BY <1>7 DEF Parked
<1>8. CASE Parked("ota") /\ OtaNext
  BY <1>8 DEF Parked
<1> QED
  BY <1>1, <1>2, <1>3, <1>4, <1>5, <1>6, <1>7, <1>8, Zenon DEF ServicesNext

\* Putting the parts side by side adds no behaviour to any of them: what is true of a
\* part alone is true of it here.
THEOREM ServicesAreThemselves ==
  ServicesSpec => /\ ButtonSpec /\ EncoderSpec /\ DeviceSpec /\ StoreSpec /\ WebSpec
                  /\ ClientSpec /\ OtaSpec
BY ServicesInitSplit, ServicesNextSplit, PTL
DEF ServicesSpec, ButtonSpec, EncoderSpec, DeviceSpec, StoreSpec, WebSpec, ClientSpec, OtaSpec

\* Every variable of every part has its type.
THEOREM ServicesTypeCorrect == ServicesSpec => []ServicesTypeOK
<1>1. /\ ButtonTypeOK /\ EncoderTypeOK /\ DeviceTypeOK /\ StoreTypeOK
      /\ WebTypeOK /\ ClientTypeOK /\ OtaTypeOK
      => ServicesTypeOK
  BY DEF ServicesTypeOK
<1> QED
  BY <1>1, ServicesAreThemselves, ButtonTypeCorrect, EncoderTypeCorrect, DeviceTypeCorrect,
     StoreTypeCorrect, WebTypeCorrect, ClientTypeCorrect, OtaTypeCorrect, PTL
=============================================================================

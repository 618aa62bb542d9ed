------------------------------ MODULE LastHost ------------------------------
(***************************************************************************)
(* What main/ble/connection.c promises: the device knows one host.  After  *)
(* a boot it is the one in flash, from the first save on it is the one     *)
(* saved last; what is in flash is one that connected.  Only where the     *)
(* reading of the flash runs into a save may the older host come back.     *)
(***************************************************************************)
CONSTANTS Hosts, NoHost

VARIABLES peer,    \* the host being saved, or saved last since boot
          known,   \* the host the device connects to
          flash,   \* the host that outlives a restart
          muddled  \* the last save and a reading of the flash overlap

lastHostVars == << peer, known, flash, muddled >>

LastHostInit ==
  /\ peer = NoHost /\ known = NoHost /\ flash \in Hosts \union {NoHost}
  /\ muddled = FALSE

HostComes ==
  /\ peer' \in Hosts /\ muddled' \in BOOLEAN /\ UNCHANGED << known, flash >>

Remember ==
  /\ peer # NoHost /\ known' = peer /\ UNCHANGED << peer, flash, muddled >>

\* A write to flash may fail or be cut off: nothing says when it comes.
Store ==
  /\ peer # NoHost /\ flash' = peer /\ UNCHANGED << peer, known, muddled >>

\* Only before the first save, unless a reading was under way then.
Recall ==
  /\ flash # NoHost /\ (muddled \/ (peer = NoHost /\ known = NoHost))
  /\ known' = flash
  /\ UNCHANGED << peer, flash, muddled >>

Muddle ==
  /\ peer # NoHost /\ muddled' = TRUE /\ UNCHANGED << peer, known, flash >>

Restart ==
  /\ peer' = NoHost /\ known' = NoHost /\ muddled' = FALSE /\ UNCHANGED flash

LastHostNext == HostComes \/ Remember \/ Store \/ Recall \/ Muddle \/ Restart

LastHostSpec == LastHostInit /\ [][LastHostNext]_lastHostVars
=============================================================================

------------------------------ MODULE OtaUpdate ------------------------------
(***************************************************************************)
(* main/web/ota_server.c: the firmware upload, and the verification of the *)
(* new firmware by "ota_confirm" in wifi_manager.c.                        *)
(*                                                                         *)
(* The library that writes partitions and the bootloader are external: an  *)
(* upload is refused while the running firmware is not verified, an image  *)
(* is checked before it may be booted, and a firmware that was booted once *)
(* and not verified is given up for the other one.  The power may go at    *)
(* any time; the page may lose its connection.                             *)
(***************************************************************************)
EXTENDS Naturals

CONSTANTS Slots,     \* the OTA partitions
          Chunks     \* how many pieces an image comes in

ASSUME OtaAssumption == Slots = {"a", "b"} /\ Chunks \in Nat \ {0}

VARIABLES
  running,     \* the slot of the running firmware, or "none" during a reset
  bootSlot,    \* the slot the bootloader is to take
  image,       \* what each slot holds
  otaState,    \* what the bootloader knows of each slot
  upload,      \* where handle_ota_upload is
  received,    \* pieces received
  written,     \* pieces written since esp_ota_begin
  begun,       \* update_handle is set
  fwUpdated,   \* "fw_updated"
  wifiFlag     \* NVS_KEY_BOOT_WITH_WIFI

request == << upload, received, written, begun >>
otaVars == << running, bootSlot, image, otaState, request, fwUpdated, wifiFlag >>

Other(s) == CHOOSE t \in Slots : t # s

\* Every variable has its type.
OtaTypeOK ==
  /\ running \in Slots \union {"none"} /\ bootSlot \in Slots
  /\ image \in [Slots -> {"whole", "partial"}]
  /\ otaState \in [Slots -> {"new", "pending", "valid", "aborted"}]
  /\ upload \in {"idle", "receiving", "ending", "booting", "answering", "flagging",
                 "restarting"}
  /\ received \in 0..Chunks /\ written \in 0..Chunks
  /\ begun \in BOOLEAN /\ fwUpdated \in BOOLEAN /\ wifiFlag \in BOOLEAN

OtaInit ==
  /\ running = "a" /\ bootSlot = "a"
  /\ image = [s \in Slots |-> IF s = "a" THEN "whole" ELSE "partial"]
  /\ otaState = [s \in Slots |-> IF s = "a" THEN "valid" ELSE "aborted"]
  /\ upload = "idle" /\ received = 0 /\ written = 0 /\ begun = FALSE
  /\ fwUpdated = FALSE /\ wifiFlag = FALSE

On == running # "none"

-----------------------------------------------------------------------------
(* handle_ota_upload, in the server's task.                                *)

UploadGoes(from, to) ==
  On /\ upload = from /\ upload' = to /\ UNCHANGED << running, otaState >>

UploadStarts ==
  /\ UploadGoes("idle", "receiving")
  /\ received' = 0 /\ written' = 0 /\ begun' = FALSE
  /\ UNCHANGED << bootSlot, image, fwUpdated, wifiFlag >>

\* httpd_req_recv gives too little for the header: it counts as received, but is not
\* written.
ReceiveTooLittle ==
  /\ UploadGoes("receiving", "receiving")
  /\ received < Chunks /\ ~begun
  /\ received' = received + 1
  /\ UNCHANGED << bootSlot, image, written, begun, fwUpdated, wifiFlag >>

\* esp_ota_begin erases the slot.
ReceiveFirst ==
  /\ UploadGoes("receiving", "receiving")
  /\ received < Chunks /\ ~begun /\ otaState[running] # "pending"
  /\ received' = received + 1 /\ written' = 1 /\ begun' = TRUE
  /\ image' = [image EXCEPT ![Other(running)] = "partial"]
  /\ UNCHANGED << bootSlot, fwUpdated, wifiFlag >>

ReceiveMore ==
  /\ UploadGoes("receiving", "receiving")
  /\ received < Chunks /\ begun
  /\ received' = received + 1 /\ written' = written + 1
  /\ UNCHANGED << bootSlot, image, begun, fwUpdated, wifiFlag >>

AllReceived ==
  /\ UploadGoes("receiving", IF begun THEN "ending" ELSE "idle")
  /\ received = Chunks
  /\ UNCHANGED << bootSlot, image, received, written, begun, fwUpdated, wifiFlag >>

\* The connection is lost, or a write or esp_ota_begin fails: an error is answered.
UploadFails ==
  /\ UploadGoes("receiving", "idle")
  /\ UNCHANGED << bootSlot, image, received, written, begun, fwUpdated, wifiFlag >>

\* Mutant of EndUpload: the result of esp_ota_end is not looked at.
EndUploadAnyway ==
  /\ UploadGoes("ending", "booting")
  /\ image' = [image EXCEPT ![Other(running)] =
                 IF written = Chunks THEN "whole" ELSE "partial"]
  /\ UNCHANGED << bootSlot, received, written, begun, fwUpdated, wifiFlag >>

\* esp_ota_end checks the image: its length and its hash.
EndUpload ==
  /\ UploadGoes("ending", IF written = Chunks THEN "booting" ELSE "idle")
  /\ image' = [image EXCEPT ![Other(running)] =
                 IF written = Chunks THEN "whole" ELSE "partial"]
  /\ UNCHANGED << bootSlot, received, written, begun, fwUpdated, wifiFlag >>

SetBootPartition ==
  /\ On /\ upload = "booting" /\ upload' = "answering"
  /\ bootSlot' = Other(running)
  /\ otaState' = [otaState EXCEPT ![Other(running)] = "new"]
  /\ UNCHANGED << running, image, received, written, begun, fwUpdated, wifiFlag >>

BootNotSet ==
  /\ UploadGoes("booting", "idle")
  /\ UNCHANGED << bootSlot, image, received, written, begun, fwUpdated, wifiFlag >>

\* Either flag may fail to be set; the device restarts all the same.
SetUpdated ==
  /\ UploadGoes("answering", "flagging")
  /\ fwUpdated' \in {fwUpdated, TRUE}
  /\ UNCHANGED << bootSlot, image, received, written, begun, wifiFlag >>

SetWifiFlag ==
  /\ UploadGoes("flagging", "restarting")
  /\ wifiFlag' \in {wifiFlag, TRUE}
  /\ UNCHANGED << bootSlot, image, received, written, begun, fwUpdated >>

-----------------------------------------------------------------------------
(* Restarts, the bootloader and the verification.                          *)

OtaReset ==
  /\ running' = "none"
  /\ upload' = "idle" /\ received' = 0 /\ written' = 0 /\ begun' = FALSE
  /\ UNCHANGED << bootSlot, image, otaState, fwUpdated >>

\* esp_restart after the upload, a loss of power or a wake-up from deep sleep.
OtaRestarts == On /\ OtaReset /\ UNCHANGED wifiFlag

\* "ota_confirm": the firmware is marked valid, and the device restarts.
OtaConfirm ==
  /\ On /\ upload = "idle"
  /\ running' = "none"
  /\ otaState' = [otaState EXCEPT ![running] = "valid"]
  /\ fwUpdated' \in {fwUpdated, FALSE}
  /\ UNCHANGED << bootSlot, image, request, wifiFlag >>

\* The bootloader; then init_web_stack takes the flag, unless the button is held.
BootSlotTaken ==
  IF otaState[bootSlot] = "pending" \/ image[bootSlot] = "partial"
  THEN Other(bootSlot) ELSE bootSlot

OtaBoots ==
  /\ ~On
  /\ running' = BootSlotTaken /\ bootSlot' = BootSlotTaken
  /\ otaState' = [s \in Slots |->
       IF otaState[s] = "pending" THEN "aborted"
       ELSE IF s = BootSlotTaken /\ otaState[s] = "new" THEN "pending"
       ELSE otaState[s]]
  /\ wifiFlag' \in {wifiFlag, FALSE}
  /\ UNCHANGED << image, request, fwUpdated >>

OtaNext ==
  \/ UploadStarts \/ ReceiveTooLittle \/ ReceiveFirst \/ ReceiveMore \/ AllReceived
  \/ UploadFails \/ EndUpload \/ SetBootPartition \/ BootNotSet
  \/ SetUpdated \/ SetWifiFlag \/ OtaRestarts \/ OtaConfirm \/ OtaBoots

OtaSpec == OtaInit /\ [][OtaNext]_otaVars

-----------------------------------------------------------------------------
\* Wherever an upload stops, and whatever is restarted, verified or rolled back, the
\* slot to boot holds a whole image, and some whole image has been verified.
DeviceStaysBootable ==
  /\ image[bootSlot] = "whole"
  /\ \E s \in Slots : image[s] = "whole" /\ otaState[s] = "valid"
=============================================================================

---------------------------- MODULE SavedDevice -----------------------------
(***************************************************************************)
(* main/ble/connection.c: the last host, in a cache and in two NVS keys.   *)
(*                                                                         *)
(* The Bluetooth task (core 0) saves a host when it connects, with the     *)
(* address type of the host that was authenticated last, and again, with   *)
(* its own, when it is authenticated; both events are dropped while the    *)
(* bridge is paused.  The bridge (core 1) loads the host, if the cache has *)
(* none, before it connects.  There is no lock.  NVS keeps each key as it  *)
(* is set; a write may fail, and the device may restart, between any two   *)
(* steps.  The web page's "clear" command, which erases the flash and      *)
(* restarts, leads to a new DeviceInit.  clear_saved_device and            *)
(* get_saved_device are not called by the program.                         *)
(***************************************************************************)
CONSTANTS Hosts,      \* Bluetooth addresses other than zero
          NoHost,     \* the zero address, and no value at all
          KindOf,     \* the address type of each host
          PublicKind, \* BLE_ADDR_TYPE_PUBLIC
          NoKind

ASSUME DeviceAssumption ==
  /\ NoHost \notin Hosts
  /\ NoKind # PublicKind /\ NoKind \notin {KindOf[h] : h \in Hosts}

VARIABLES
  peer,        \* the host being saved, or saved last since boot
  kind,        \* the address type it is saved with
  linkKind,    \* s_connected_device_addr_type
  cacheAddr,   \* saved_device_cache.bda
  cacheKind,   \* saved_device_cache.addr_type
  valid,       \* saved_device_cache.is_valid
  nvsAddr,     \* ADDR_KEY
  nvsKind,     \* ADDR_TYPE_KEY
  save,        \* where save_connected_device is
  load,        \* where load_saved_device_to_cache is
  torn,        \* history: the last save of an address was not followed by that of
               \* its own type
  crossed      \* history: the last save and a load ran at the same time

deviceVars == << peer, kind, linkKind, cacheAddr, cacheKind, valid, nvsAddr, nvsKind, save,
                 load, torn, crossed >>

Kinds == {PublicKind} \union {KindOf[h] : h \in Hosts}

\* Every variable has its type.
DeviceTypeOK ==
  /\ peer \in Hosts \union {NoHost} /\ kind \in Kinds \union {NoKind} /\ linkKind \in Kinds
  /\ cacheAddr \in Hosts \union {NoHost} /\ cacheKind \in Kinds \union {NoKind}
  /\ valid \in BOOLEAN
  /\ nvsAddr \in Hosts \union {NoHost} /\ nvsKind \in Kinds \union {NoKind}
  /\ save \in {"idle", "addr", "kind", "valid", "keyAddr", "keyKind", "commit"}
  /\ load \in {"idle", "addr", "kind", "valid"}
  /\ torn \in BOOLEAN /\ crossed \in BOOLEAN

DeviceInit ==
  /\ peer = NoHost /\ kind = NoKind /\ linkKind = PublicKind
  /\ cacheAddr = NoHost /\ cacheKind = NoKind /\ valid = FALSE
  /\ \/ nvsAddr = NoHost /\ nvsKind = NoKind
     \/ \E h \in Hosts : nvsAddr = h /\ nvsKind = KindOf[h]
  /\ save = "idle" /\ load = "idle" /\ torn = FALSE /\ crossed = FALSE

host == << peer, kind, linkKind >>
cache == << cacheAddr, cacheKind, valid >>
nvs == << nvsAddr, nvsKind >>

-----------------------------------------------------------------------------
(* save_connected_device.                                                  *)

SaveGoes(from, to) == save = from /\ save' = to

\* save_connected_device(h, k) is called.
SaveStarts(h, k) ==
  /\ SaveGoes("idle", "addr")
  /\ peer' = h /\ kind' = k
  /\ crossed' = (load # "idle")

\* ESP_HIDD_EVENT_BLE_CONNECT, which does not know the type of the new host.
HostConnects ==
  /\ \E h \in Hosts : SaveStarts(h, linkKind)
  /\ UNCHANGED << linkKind, cache, nvs, load, torn >>

\* ESP_GAP_BLE_AUTH_CMPL_EVT; the connect event may have been dropped.
AuthCompletes ==
  /\ \E h \in Hosts : SaveStarts(h, KindOf[h]) /\ linkKind' = KindOf[h]
  /\ UNCHANGED << cache, nvs, load, torn >>

AuthFails ==
  /\ save = "idle"
  /\ \E h \in Hosts : linkKind' = KindOf[h]
  /\ UNCHANGED << peer, kind, cache, nvs, save, load, torn, crossed >>

SaveCachesAddr ==
  /\ SaveGoes("addr", "kind")
  /\ cacheAddr' = peer
  /\ UNCHANGED << host, cacheKind, valid, nvs, load, torn, crossed >>

SaveCachesKind ==
  /\ SaveGoes("kind", "valid")
  /\ cacheKind' = kind
  /\ UNCHANGED << host, cacheAddr, valid, nvs, load, torn, crossed >>

SaveValidates ==
  /\ SaveGoes("valid", "keyAddr")
  /\ valid' = TRUE
  /\ UNCHANGED << host, cacheAddr, cacheKind, nvs, load, torn, crossed >>

SaveSetsAddr ==
  /\ SaveGoes("keyAddr", "keyKind")
  /\ nvsAddr' = peer
  /\ UNCHANGED << host, cache, nvsKind, load, torn, crossed >>

\* Mutant of SaveSetsKind: the address type is not saved.
SaveSetsNoKind ==
  /\ SaveGoes("keyKind", "commit")
  /\ UNCHANGED << host, cache, nvs, load, torn, crossed >>

SaveSetsKind ==
  /\ SaveGoes("keyKind", "commit")
  /\ nvsKind' = kind
  /\ torn' = (kind # KindOf[peer])
  /\ UNCHANGED << host, cache, nvsAddr, load, crossed >>

\* nvs_open, nvs_set_blob, nvs_set_u8 or nvs_commit fails, or all is done; the cache
\* stays as it is.
SaveEnds ==
  /\ save \in {"keyAddr", "keyKind", "commit"} /\ save' = "idle"
  /\ torn' = (torn \/ save = "keyKind")
  /\ UNCHANGED << host, cache, nvs, load, crossed >>

-----------------------------------------------------------------------------
(* load_saved_device_to_cache, called by has_saved_device and              *)
(* connect_to_saved_device.                                                *)

LoadGoes(from, to) == load = from /\ load' = to

\* Mutant of LoadStarts: the flash is read although the cache is valid.
LoadStartsAlways ==
  /\ LoadGoes("idle", "addr")
  /\ crossed' = (crossed \/ save # "idle")
  /\ UNCHANGED << host, cache, nvs, save, torn >>

LoadStarts ==
  /\ LoadGoes("idle", "addr") /\ ~valid
  /\ crossed' = (crossed \/ save # "idle")
  /\ UNCHANGED << host, cache, nvs, save, torn >>

\* The address goes straight into the cache.
LoadGetsAddr ==
  /\ LoadGoes("addr", "kind") /\ nvsAddr # NoHost
  /\ cacheAddr' = nvsAddr
  /\ UNCHANGED << host, cacheKind, valid, nvs, save, torn, crossed >>

LoadGetsKind ==
  /\ LoadGoes("kind", "valid") /\ nvsKind # NoKind
  /\ cacheKind' = nvsKind
  /\ UNCHANGED << host, cacheAddr, valid, nvs, save, torn, crossed >>

\* A key is missing or cannot be read.
LoadFails ==
  /\ load \in {"addr", "kind"} /\ load' = "idle"
  /\ UNCHANGED << host, cache, nvs, save, torn, crossed >>

\* An address of zeros is not valid.
LoadValidates ==
  /\ LoadGoes("valid", "idle")
  /\ valid' = (cacheAddr # NoHost)
  /\ UNCHANGED << host, cacheAddr, cacheKind, nvs, save, torn, crossed >>

-----------------------------------------------------------------------------
\* A restart, at any time.
DeviceRestarts ==
  /\ peer' = NoHost /\ kind' = NoKind /\ linkKind' = PublicKind
  /\ cacheAddr' = NoHost /\ cacheKind' = NoKind /\ valid' = FALSE
  /\ save' = "idle" /\ load' = "idle" /\ crossed' = FALSE
  /\ torn' = (torn \/ save = "keyKind")
  /\ UNCHANGED nvs

DeviceNext ==
  \/ HostConnects \/ AuthCompletes \/ AuthFails
  \/ SaveCachesAddr \/ SaveCachesKind \/ SaveValidates
  \/ SaveSetsAddr \/ SaveSetsKind \/ SaveEnds
  \/ LoadStarts \/ LoadGetsAddr \/ LoadGetsKind \/ LoadFails \/ LoadValidates
  \/ DeviceRestarts

DeviceSpec == DeviceInit /\ [][DeviceNext]_deviceVars

-----------------------------------------------------------------------------
\* The host that esp_ble_gatts_open is given, if any.
KnownHost == IF valid THEN cacheAddr ELSE NoHost

LH == INSTANCE LastHost WITH known <- KnownHost, flash <- nvsAddr, muddled <- crossed

\* Whatever fails and whenever it restarts, the device connects to the host that was
\* saved last, or to the one in flash until the first; flash holds nothing but hosts that
\* connected.  Where the reading of the flash runs into a save, the device may end up
\* with the older host, until the next save.
KnowsLastHost == LH!LastHostSpec

\* A host that was saved with its own type is in the cache with it, whatever became of
\* the flash; and one that was loaded after a restart has its own type, if the last save
\* got as far as writing that.
NeverMixed ==
  save = "idle" /\ ~crossed =>
    /\ peer # NoHost /\ kind = KindOf[peer] =>
         valid /\ cacheAddr = peer /\ cacheKind = KindOf[peer]
    /\ peer = NoHost /\ valid /\ ~torn => cacheKind = KindOf[cacheAddr]
=============================================================================

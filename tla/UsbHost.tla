------------------------------- MODULE UsbHost -------------------------------
(***************************************************************************)
(* main/usb/usb_hid_host.c: how a USB device that is plugged in comes to   *)
(* be read with the report maps of its own descriptors.                    *)
(*                                                                         *)
(* The USB libraries are external: they announce the interfaces of a new   *)
(* device, refuse the handles of one that is gone, and deliver reports of  *)
(* a started interface.  Their tasks run above device_event_task, which    *)
(* may be overtaken by an unplugging between any two of its calls.  A      *)
(* report map is the kind of device it was parsed from and its report ids; *)
(* ReportParser says what else is in it.                                   *)
(***************************************************************************)
EXTENDS Naturals, Sequences, SequencesExt

CONSTANTS DeviceKinds, \* kinds of devices
          Ifaces,      \* numbers of interfaces
          Declared,    \* the report ids that a kind declares on an interface;
                       \* << >> is an interface without ids
          NoKind,
          FirstBytes,  \* what a report id, or the first byte of a report, may be
          TableSize,   \* MAX_REPORTS_PER_INTERFACE, the entries of a lookup table
          QueueSize,   \* DEVICE_EVENT_QUEUE_SIZE
          MaxPlugs     \* bound on the number of times a device is plugged in

ASSUME UsbAssumption ==
  /\ NoKind \notin DeviceKinds /\ FirstBytes \subseteq Nat /\ 0 \in FirstBytes
  /\ TableSize \in Nat \ {0}
  /\ QueueSize \in Nat \ {0} /\ MaxPlugs \in Nat \ {0}

\* A device declares ids on the interfaces it has; there are finitely many.
ASSUME DeclaredAssumption ==
  /\ IsFiniteSet(Ifaces) /\ Ifaces # {}
  /\ \A k \in DeviceKinds :
       /\ DOMAIN Declared[k] \subseteq Ifaces
       /\ \A i \in DOMAIN Declared[k] : Declared[k][i] \in Seq(FirstBytes)

VARIABLES
  plugs,       \* how many devices were plugged in; the last is this one's handle
  plugged,     \* the kind that is plugged in now
  queue,       \* g_device_event_queue: handles and interfaces
  evt,         \* the event in hand
  dev,         \* where device_event_task is
  opened,      \* interfaces the driver has open
  started,     \* interfaces whose reports are delivered
  map,         \* g_interface_report_maps
  lookup,      \* report_lookup_table: pointers to the reports of a map
  isUp,        \* g_device_connected
  clientSeen,  \* usb_host_dev_connected
  strayed,     \* history: a store went outside of a lookup table
  given        \* history of this device: interfaces whose event was dropped, whose
               \* setup failed, or whose descriptor could not be had

usbVars == << plugs, plugged, queue, evt, dev, opened, started, map, lookup, isUp,
              clientSeen, strayed, given >>

tables == << map, lookup, strayed >>

NoEvent == << 0, CHOOSE i \in Ifaces : TRUE >>
NoMap == [kind |-> NoKind, ids |-> << >>]
Has(kind) == DOMAIN Declared[kind]

\* A pointer is an interface and the number of a report in its map, 0 for NULL.  The
\* table has no entry for the ids from TableSize on.
Pointers == Ifaces \X Nat
Indexes == {r \in FirstBytes : r < TableSize}

\* Every variable has its type.
UsbTypeOK ==
  /\ plugs \in 0..MaxPlugs /\ plugged \in DeviceKinds \union {NoKind}
  /\ queue \in Seq((1..MaxPlugs) \X Ifaces) /\ Len(queue) <= QueueSize
  /\ evt \in (0..MaxPlugs) \X Ifaces
  /\ dev \in {"idle", "waiting", "opening", "setup", "parsing", "starting", "flagging"}
  /\ opened \subseteq Ifaces /\ started \subseteq opened
  /\ \A i \in Ifaces :
       map[i].kind \in DeviceKinds \union {NoKind} /\ map[i].ids \in Seq(FirstBytes)
  /\ lookup \in [Ifaces -> [Indexes -> Pointers]]
  /\ isUp \in [Ifaces -> BOOLEAN] /\ clientSeen \in BOOLEAN /\ strayed \in BOOLEAN
  /\ given \subseteq Ifaces \X {"dropped", "failed", "unread"}

UsbInit ==
  /\ plugs = 0 /\ plugged = NoKind /\ queue = << >> /\ evt = NoEvent /\ dev = "idle"
  /\ opened = {} /\ started = {}
  /\ map = [i \in Ifaces |-> NoMap]
  /\ lookup = [i \in Ifaces |-> [r \in Indexes |-> << i, 0 >>]]
  /\ isUp = [i \in Ifaces |-> FALSE] /\ clientSeen = FALSE
  /\ strayed = FALSE /\ given = {}

-----------------------------------------------------------------------------
(* The libraries.                                                          *)

\* The driver calls hid_host_device_callback for one interface after the other; what
\* the queue has no place for is lost.  The order of the interfaces is their own.
Announce(n, order) ==
  LET taken == IF QueueSize - Len(queue) < Len(order) THEN QueueSize - Len(queue)
               ELSE Len(order)
  IN /\ queue' = queue \o [k \in 1..taken |-> << n, order[k] >>]
     /\ given' = {<< order[k], "dropped" >> : k \in (taken + 1)..Len(order)}

PlugIn ==
  /\ plugged = NoKind /\ plugs < MaxPlugs
  /\ plugs' = plugs + 1
  /\ plugged' \in DeviceKinds
  /\ \E order \in SetToSeqs(Has(plugged')) : Announce(plugs', order)
  /\ UNCHANGED << evt, dev, opened, started, tables, isUp, clientSeen >>

\* client_event_callback: usb_host_dev_connected is never cleared.
SeeClient ==
  /\ plugged # NoKind /\ ~clientSeen /\ clientSeen' = TRUE
  /\ UNCHANGED << plugs, plugged, queue, evt, dev, opened, started, tables, isUp, given >>

\* The disconnect events close the interfaces; g_device_connected, the handles and
\* the maps stay as they are.
Unplug ==
  /\ plugged # NoKind /\ plugged' = NoKind
  /\ opened' = {} /\ started' = {} /\ given' = {}
  /\ UNCHANGED << plugs, queue, evt, dev, tables, isUp, clientSeen >>

-----------------------------------------------------------------------------
(* device_event_task.                                                      *)

Present == plugged # NoKind /\ evt[1] = plugs
Iface == evt[2]

Fails == dev' = "idle"
         /\ given' = IF Present THEN given \union {<< Iface, "failed" >>} ELSE given
NoFault == UNCHANGED given

\* Mutant of TakeEvent: an event of a device that is gone empties the queue.
TakeEventOrEmpty ==
  /\ dev = "idle" /\ queue # << >>
  /\ evt' = Head(queue)
  /\ dev' = IF plugged # NoKind /\ evt'[1] = plugs THEN "waiting" ELSE "idle"
  /\ queue' = IF dev' = "waiting" THEN Tail(queue) ELSE << >>
  /\ UNCHANGED << plugs, plugged, opened, started, tables, isUp, clientSeen, given >>

\* The handle of a device that is gone gives no parameters.
TakeEvent ==
  /\ dev = "idle" /\ queue # << >>
  /\ evt' = Head(queue) /\ queue' = Tail(queue)
  /\ dev' = IF plugged # NoKind /\ evt'[1] = plugs THEN "waiting" ELSE "idle"
  /\ UNCHANGED << plugs, plugged, opened, started, tables, isUp, clientSeen, given >>

\* Until usb_host_dev_connected, or for two seconds.
WaitForClient ==
  /\ dev = "waiting" /\ dev' = "opening"
  /\ UNCHANGED << plugs, plugged, queue, evt, opened, started, tables, isUp, clientSeen,
                  given >>

OpenDevice ==
  /\ dev = "opening"
  /\ \/ Present /\ dev' = "setup" /\ opened' = opened \union {Iface} /\ NoFault
     \/ Fails /\ UNCHANGED opened
  /\ UNCHANGED << plugs, plugged, queue, evt, started, tables, isUp, clientSeen >>

\* The protocol and, for a keyboard, the idle rate; an error leaves the interface open.
SetUpDevice ==
  /\ dev = "setup"
  /\ (Present /\ dev' = "parsing" /\ NoFault) \/ Fails
  /\ UNCHANGED << plugs, plugged, queue, evt, opened, started, tables, isUp, clientSeen >>

\* Mutant of ParsedIds: num_reports goes on from the last device.
ParsedIdsOnTop(i, declared) ==
  map[i].ids \o (IF map[i].ids = << >> THEN << 0 >> \o declared ELSE declared)

\* parse_report_descriptor: a report without an id always comes first.
ParsedIds(i, declared) == << 0 >> \o declared

\* The lookup table is written at the id of every report, and keeps the other entries
\* of earlier devices.  An id beyond the table is stored outside of it, which may be in
\* the table of another interface: hit says where.  (g_field_counts is written in the
\* same way, and never read.)
ParseDescriptor ==
  /\ dev = "parsing" /\ Present
  /\ LET ids == ParsedIds(Iface, Declared[plugged][Iface])
         inside == {k \in DOMAIN ids : ids[k] \in Indexes}
     IN /\ map' = [map EXCEPT ![Iface] = [kind |-> plugged, ids |-> ids]]
        /\ strayed' = (strayed \/ inside # DOMAIN ids)
        /\ \E hit \in SUBSET ((Ifaces \ {Iface}) \X Indexes \X (DOMAIN ids \ inside)) :
             lookup' = [i \in Ifaces |-> [r \in Indexes |->
               LET stored == IF i = Iface THEN {k \in inside : ids[k] = r}
                             ELSE {k \in DOMAIN ids : << i, r, k >> \in hit}
               IN IF stored = {} THEN lookup[i][r]
                  ELSE << Iface, CHOOSE k \in stored : TRUE >>]]
  /\ dev' = "starting"
  /\ UNCHANGED << plugs, plugged, queue, evt, opened, started, isUp, clientSeen, given >>

\* No descriptor: the interface is started with whatever map it has.
SkipDescriptor ==
  /\ dev = "parsing" /\ dev' = "starting"
  /\ given' = IF Present THEN given \union {<< Iface, "unread" >>} ELSE given
  /\ UNCHANGED << plugs, plugged, queue, evt, opened, started, tables, isUp, clientSeen >>

StartDevice ==
  /\ dev = "starting"
  /\ \/ Present /\ dev' = "flagging" /\ started' = started \union {Iface} /\ NoFault
     \/ Fails /\ UNCHANGED started
  /\ UNCHANGED << plugs, plugged, queue, evt, opened, tables, isUp, clientSeen >>

FlagDevice ==
  /\ dev = "flagging" /\ dev' = "idle"
  /\ isUp' = [isUp EXCEPT ![Iface] = TRUE]
  /\ UNCHANGED << plugs, plugged, queue, evt, opened, started, tables, clientSeen,
                  given >>

UsbNext ==
  \/ PlugIn \/ SeeClient \/ Unplug
  \/ TakeEvent \/ WaitForClient \/ OpenDevice \/ SetUpDevice
  \/ ParseDescriptor \/ SkipDescriptor \/ StartDevice \/ FlagDevice

UsbSpec == UsbInit /\ [][UsbNext]_usbVars

-----------------------------------------------------------------------------
(* process_report: which report of which kind the bytes are read as.       *)

\* Nothing is read through NULL.  What lies outside of the table, or in a report beyond
\* those of the map, may be anything.
Decode(i, byte) ==
  LET own == map[i].ids
      id == IF Len(own) > 1 THEN byte ELSE IF own = << >> THEN 0 ELSE own[1]
      to == lookup[i][id]
      there == map[to[1]]
  IN CASE id \in Indexes /\ to[2] = 0 -> {}
       [] id \in Indexes /\ to[2] \in DOMAIN there.ids ->
            {<< there.kind, there.ids[to[2]] >>}
       [] OTHER -> DeviceKinds \X FirstBytes

\* What a device sends: any first byte without ids, else one of them.
Sends(i) ==
  LET declared == Declared[plugged][i]
  IN IF declared = << >> THEN FirstBytes \X {0}
     ELSE {<< declared[k], declared[k] >> : k \in DOMAIN declared}

\* Whatever was plugged in and out before, in any order and however it went, the reports
\* of a device are read with the map of its own descriptor, unless that could not be had
\* or a device, this one or an earlier one, declared an id that the table has no entry
\* for.  (The code checks no id: with such a device nothing can be promised.)
ReadWithOwnMap ==
  ~strayed => \A i \in started : << i, "unread" >> \notin given =>
    \A s \in Sends(i) : Decode(i, s[1]) = {<< plugged, s[2] >>}

\* No interface is forgotten: it is read and counts as connected (the idle sleep goes
\* by that), or it is still to come, or the queue or a call is known to have failed.
NoInterfaceForgotten ==
  plugged # NoKind => \A i \in Has(plugged) :
    \/ i \in started /\ isUp[i]
    \/ \E k \in DOMAIN queue : queue[k] = << plugs, i >>
    \/ dev # "idle" /\ evt = << plugs, i >>
    \/ << i, "dropped" >> \in given \/ << i, "failed" >> \in given
=============================================================================

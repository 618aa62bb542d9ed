---------------------------- MODULE SettingsStore ----------------------------
(***************************************************************************)
(* main/utils/storage.c: the settings document in RAM and in NVS, and the  *)
(* cache of the values that tasks have asked for.                          *)
(*                                                                         *)
(* app_main loads the document.  The web page asks for it, which replaces *)
(* the text by a copy, or sends another one and restarts the device,       *)
(* whether that succeeded or not.  Tasks of both cores read values; there  *)
(* is no lock, and a text may be freed under a task that walks it.  The    *)
(* power may go at any time.  A document stands for all its values: the    *)
(* one of path p in document d is << d, p, n >>, a string of n characters. *)
(* (Numbers and truth values are not cut, and are short strings here.  The *)
(* device information put into each document on the way, and values        *)
(* missing from it, are left out.)                                         *)
(***************************************************************************)
EXTENDS Naturals

CONSTANTS Docs,      \* documents the page may send
          Default,   \* default_settings
          NoDoc,     \* no document
          Paths,     \* paths that are asked for
          Length,    \* the length of each value
          Readers,   \* tasks that ask
          Places,    \* MAX_CACHE_SIZE
          RowSize,   \* bytes of a string in the cache
          BufferSize \* bytes of a task's buffer

ASSUME StoreAssumption ==
  /\ Default \notin Docs /\ NoDoc \notin Docs /\ Default # NoDoc
  /\ Places \in Nat \ {0}
  /\ Length \in [(Docs \union {Default}) \X Paths -> Nat]
  /\ RowSize \in Nat /\ BufferSize \in 1..RowSize

VARIABLES
  ram,         \* current_settings
  dangling,    \* its text has been freed
  stored,      \* the document in NVS
  update,      \* where the web server's task is
  sent,        \* the document the page sent last
  promised,    \* history: the one the page was told is saved
  since,       \* history: what the page has sent since then
  unread,      \* history: NVS held a document that could not be read
  store,       \* the cache's rows
  filled,      \* cache_count
  step,        \* where each reader is
  path,        \* what it asks for
  item,        \* what it has parsed
  entry,       \* its row
  got,         \* its answer
  readersMet,  \* history since boot: two readers met in the cache
  lost,        \* the readers whose text has been freed
  overread     \* history since boot: one of them went on

readerVars == << store, filled, step, path, item, entry, got, readersMet, lost, overread >>
docVars == << ram, dangling, stored, update, sent, promised, since, unread >>
storeVars == << docVars, readerVars >>

AllDocs == Docs \union {Default}
Values == AllDocs \X Paths \X Nat
NoValue == << NoDoc, NoDoc, 0 >>
ReaderSteps == {"idle", "look", "parse", "walk", "claim", "count", "fill"}

ValueOf(d, p) == << d, p, Length[<< d, p >>] >>

\* strncpy of a value into a given number of bytes.
Cut(v, size) == << v[1], v[2], IF v[3] < size THEN v[3] ELSE size - 1 >>

\* Every variable has its type.
StoreTypeOK ==
  /\ ram \in AllDocs \union {NoDoc} /\ dangling \in BOOLEAN
  /\ stored \in AllDocs \union {NoDoc}
  /\ update \in {"idle", "copy", "set", "commit", "free", "install", "clear", "ended"}
  /\ sent \in Docs \union {NoDoc} /\ promised \in Docs \union {NoDoc}
  /\ since \subseteq Docs /\ unread \in BOOLEAN
  /\ store \in [1..Places -> [path : Paths \union {NoDoc}, val : Values \union {NoValue}]]
  /\ filled \in 0..(Places + 1)
  /\ step \in [Readers -> ReaderSteps] /\ path \in [Readers -> Paths \union {NoDoc}]
  /\ item \in [Readers -> Values \union {NoValue}]
  /\ got \in [Readers -> Values \union {NoValue}]
  /\ entry \in [Readers -> 1..(Places + 1)] /\ readersMet \in BOOLEAN
  /\ lost \subseteq Readers /\ overread \in BOOLEAN

EmptyStore == [i \in 1..Places |-> [path |-> NoDoc, val |-> NoValue]]

NoReaders(s, f, st, p, it, e, g, c, l, o) ==
  /\ s = EmptyStore /\ f = 0
  /\ st = [r \in Readers |-> "idle"] /\ p = [r \in Readers |-> NoDoc]
  /\ it = [r \in Readers |-> NoValue] /\ e = [r \in Readers |-> 1]
  /\ g = [r \in Readers |-> NoValue] /\ c = FALSE
  /\ l = {} /\ o = FALSE

StoreInit ==
  /\ ram = NoDoc /\ dangling = FALSE /\ stored = NoDoc
  /\ update = "idle" /\ sent = NoDoc /\ promised = NoDoc /\ since = {}
  /\ unread = FALSE
  /\ NoReaders(store, filled, step, path, item, entry, got, readersMet, lost,
               overread)

-----------------------------------------------------------------------------
(* init_global_settings.                                                   *)

Booting == ram = NoDoc

\* NVS cannot be opened, or there is no memory for the document.
BootWithDefaults ==
  /\ Booting /\ ram' = Default
  /\ UNCHANGED << dangling, stored, update, sent, promised, since, unread, readerVars >>

\* There is no document; the defaults are saved, if that works.
BootFirstTime ==
  /\ Booting /\ stored = NoDoc /\ ram' = Default
  /\ stored' \in {NoDoc, Default}
  /\ UNCHANGED << dangling, update, sent, promised, since, unread, readerVars >>

\* There is one, but it cannot be read: the defaults are saved over it.
BootUnreadable ==
  /\ Booting /\ stored # NoDoc /\ ram' = Default
  /\ stored' \in {stored, Default}
  /\ unread' = TRUE
  /\ UNCHANGED << dangling, update, sent, promised, since, readerVars >>

\* Mutant of BootLoads: the device information is put into the defaults.
BootLoadsDefault ==
  /\ Booting /\ stored # NoDoc /\ ram' = stored
  /\ stored' = Default
  /\ UNCHANGED << dangling, update, sent, promised, since, unread, readerVars >>

\* The document is loaded and, with new device information, saved again.
BootLoads ==
  /\ Booting /\ stored # NoDoc /\ ram' = stored
  /\ UNCHANGED << dangling, stored, update, sent, promised, since, unread, readerVars >>

-----------------------------------------------------------------------------
(* The web server's task, process_settings_ws_message.                     *)

UpdateGoes(from, to) == update = from /\ update' = to

\* The text is freed under the readers that walk it.
FreeText ==
  /\ dangling' = TRUE
  /\ lost' = lost \union {r \in Readers : step[r] = "walk"}
  /\ UNCHANGED << store, filled, step, path, item, entry, got, readersMet, overread >>

\* storage_get_settings: the text is freed, and replaced by a copy with the present
\* device information.
GetFrees ==
  /\ ~Booting /\ UpdateGoes("idle", "copy")
  /\ FreeText
  /\ UNCHANGED << ram, stored, sent, promised, since, unread >>

GetReplaces ==
  /\ UpdateGoes("copy", "idle")
  /\ dangling' = FALSE
  /\ UNCHANGED << ram, stored, sent, promised, since, unread, readerVars >>

\* storage_update_settings.
UpdateStarts ==
  /\ ~Booting /\ UpdateGoes("idle", "set")
  /\ sent' \in Docs /\ since' = since \union {sent'}
  /\ UNCHANGED << ram, dangling, stored, promised, unread, readerVars >>

UpdateSets ==
  /\ UpdateGoes("set", "commit")
  /\ stored' = sent
  /\ UNCHANGED << ram, dangling, sent, promised, since, unread, readerVars >>

UpdateCommits ==
  /\ UpdateGoes("commit", "free")
  /\ UNCHANGED << ram, dangling, stored, sent, promised, since, unread, readerVars >>

UpdateFrees ==
  /\ UpdateGoes("free", "install")
  /\ FreeText
  /\ UNCHANGED << ram, stored, sent, promised, since, unread >>

UpdateInstalls ==
  /\ UpdateGoes("install", "clear")
  /\ ram' = sent /\ dangling' = FALSE
  /\ UNCHANGED << stored, sent, promised, since, unread, readerVars >>

\* cache_clear; the page is told.
UpdateSucceeds ==
  /\ UpdateGoes("clear", "ended")
  /\ filled' = 0 /\ promised' = sent /\ since' = {}
  /\ UNCHANGED << ram, dangling, stored, sent, unread, store, step, path, item, entry, got,
                  readersMet, lost, overread >>

\* nvs_open, nvs_set_str or nvs_commit fails, and the page is told.
UpdateFails ==
  /\ update \in {"set", "commit"} /\ update' = "ended"
  /\ UNCHANGED << ram, dangling, stored, sent, promised, since, unread, readerVars >>

\* esp_restart after an update, or a loss of power.
StoreRestarts ==
  /\ ~Booting
  /\ ram' = NoDoc /\ dangling' = FALSE /\ update' = "idle"
  /\ NoReaders(store', filled', step', path', item', entry', got', readersMet', lost',
               overread')
  /\ UNCHANGED << stored, sent, promised, since, unread >>

-----------------------------------------------------------------------------
(* storage_get_*_setting.                                                  *)

InCache(r) == step[r] \in {"claim", "count", "fill"}

\* A reader's step.  What follows a meeting in the cache may be anything and is left
\* out.  A reader is lost when the text it takes, or walks, is freed.
ReaderGoes(r, from, to) ==
  /\ ~Booting /\ ~readersMet
  /\ step[r] = from /\ step' = [step EXCEPT ![r] = to]
  /\ readersMet' = (readersMet \/ (from \in {"look", "claim", "count", "fill"}
                             /\ \E q \in Readers \ {r} : InCache(q)))
  /\ lost' = IF to = "walk" /\ dangling THEN lost \union {r} ELSE lost \ {r}
  /\ overread' = (overread \/ (from = "walk" /\ r \in lost))
  /\ UNCHANGED docVars

ReadAsks(r) ==
  /\ ReaderGoes(r, "idle", "look")
  /\ \E p \in Paths : path' = [path EXCEPT ![r] = p]
  /\ got' = [got EXCEPT ![r] = NoValue]
  /\ UNCHANGED << store, filled, item, entry >>

Rows(r) == {i \in 1..Places : i <= filled /\ store[i].path = path[r]}

\* cache_find finds the first row.
ReadHits(r) ==
  /\ Rows(r) # {}
  /\ ReaderGoes(r, "look", "idle")
  /\ got' = [got EXCEPT
               ![r] = Cut(store[CHOOSE i \in Rows(r) : \A j \in Rows(r) : i <= j].val,
                          BufferSize)]
  /\ UNCHANGED << store, filled, path, item, entry >>

ReadMisses(r) ==
  /\ Rows(r) = {}
  /\ ReaderGoes(r, "look", "parse")
  /\ UNCHANGED << store, filled, path, item, entry, got >>

\* find_json_by_path takes the text and copies the value out of it.  Freed memory may
\* hold anything: a wrong value, for which that of another document stands, or nothing
\* that is JSON.
ReadTakes(r) ==
  /\ ReaderGoes(r, "parse", "walk")
  /\ UNCHANGED << store, filled, path, item, entry, got >>

ReadParses(r) ==
  /\ ReaderGoes(r, "walk", "claim")
  /\ \E d \in AllDocs : /\ d = ram \/ r \in lost
                        /\ item' = [item EXCEPT ![r] = ValueOf(d, path[r])]
  /\ UNCHANGED << store, filled, path, entry, got >>

ReadFindsNothing(r) ==
  /\ r \in lost /\ ReaderGoes(r, "walk", "idle")
  /\ UNCHANGED << store, filled, path, item, entry, got >>

\* Mutant of ReadClaims: a full cache is not emptied.
ReadClaimsBeyond(r) ==
  /\ ReaderGoes(r, "claim", "count")
  /\ entry' = [entry EXCEPT ![r] = filled + 1]
  /\ store' = IF filled < Places THEN [store EXCEPT ![filled + 1].path = path[r]]
              ELSE [store EXCEPT ![Places].path = path[r]]
  /\ UNCHANGED << filled, path, item, got >>

\* cache_add: a full cache is emptied; the path of the new row is written.
ReadClaims(r) ==
  /\ ReaderGoes(r, "claim", "count")
  /\ LET used == IF filled >= Places THEN 0 ELSE filled
     IN /\ filled' = used
        /\ entry' = [entry EXCEPT ![r] = used + 1]
        /\ store' = [store EXCEPT ![used + 1].path = path[r]]
  /\ UNCHANGED << path, item, got >>

\* The row counts before its value is there.  (The bound is one of the model.)
ReadCounts(r) ==
  /\ ReaderGoes(r, "count", "fill")
  /\ filled <= Places
  /\ entry' = [entry EXCEPT ![r] = filled + 1]
  /\ filled' = filled + 1
  /\ UNCHANGED << store, path, item, got >>

ReadFills(r) ==
  /\ ReaderGoes(r, "fill", "idle")
  /\ store' = IF entry[r] <= Places THEN [store EXCEPT ![entry[r]].val = Cut(item[r], RowSize)]
              ELSE store
  /\ got' = [got EXCEPT ![r] = Cut(item[r], BufferSize)]
  /\ item' = [item EXCEPT ![r] = NoValue] /\ entry' = [entry EXCEPT ![r] = 1]
  /\ UNCHANGED << filled, path >>

StoreNext ==
  \/ BootWithDefaults \/ BootFirstTime \/ BootUnreadable \/ BootLoads
  \/ GetFrees \/ GetReplaces
  \/ UpdateStarts \/ UpdateSets \/ UpdateCommits \/ UpdateFrees \/ UpdateInstalls
  \/ UpdateSucceeds \/ UpdateFails \/ StoreRestarts
  \/ \E r \in Readers : \/ ReadAsks(r) \/ ReadHits(r) \/ ReadMisses(r)
                        \/ ReadTakes(r) \/ ReadParses(r) \/ ReadFindsNothing(r)
                        \/ ReadClaims(r) \/ ReadCounts(r) \/ ReadFills(r)

StoreSpec == StoreInit /\ [][StoreNext]_storeVars

-----------------------------------------------------------------------------
\* What the page was told is saved outlives every restart, until the page sends
\* something else, or NVS could not be read (which costs the user all settings).
SavedSettingsSurvive ==
  promised # NoDoc /\ ~unread => stored \in {promised} \union since

\* Until the page sends a new document, which ends in a restart, and as long as no two
\* readers have met in the cache since boot: no row beyond the array is used, and a task
\* is given the value of the path it asked for, cut to its own buffer and no shorter,
\* whether it came from the cache or not; wrong answers start only with a reader whose
\* text the page had freed by asking for the settings.
GettersAnswerRightly ==
  ~readersMet /\ update \in {"idle", "copy"} =>
    \A r \in Readers :
      /\ entry[r] <= Places
      /\ \/ overread \/ got[r] = NoValue
         \/ got[r] = Cut(ValueOf(ram, path[r]), BufferSize)
=============================================================================

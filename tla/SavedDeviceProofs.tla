-------------------------- MODULE SavedDeviceProofs --------------------------
(***************************************************************************)
(* Proofs about what is kept in NVS.  SavedDevice, for any set of hosts:   *)
(* its types, that an address is used with its own type, and that the      *)
(* device implements LastHost.  SettingsStore, for any set of documents,   *)
(* tasks, paths and places in the cache: its types, that saved settings    *)
(* last, and that tasks are given the values they ask for.                 *)
(***************************************************************************)
EXTENDS SavedDevice, SettingsStore, WellFoundedInduction, TLAPS

-----------------------------------------------------------------------------
(* Types.                                                                  *)

\* Only a host that connected is saved.
SaverHasPeer == save # "idle" \/ kind # NoKind => peer \in Hosts /\ kind \in Kinds

LEMMA DeviceTypeInit == DeviceInit => DeviceTypeOK /\ SaverHasPeer
<1>1. PublicKind \in Kinds /\ \A h \in Hosts : KindOf[h] \in Kinds
  BY DEF Kinds
<1> QED
  BY <1>1 DEF DeviceInit, DeviceTypeOK, SaverHasPeer

LEMMA DeviceTypeNext ==
  DeviceTypeOK /\ SaverHasPeer /\ [DeviceNext]_deviceVars => DeviceTypeOK' /\ SaverHasPeer'
<1> SUFFICES ASSUME DeviceTypeOK, SaverHasPeer, [DeviceNext]_deviceVars
             PROVE  DeviceTypeOK' /\ SaverHasPeer'
  OBVIOUS
<1>1. PublicKind \in Kinds /\ \A h \in Hosts : KindOf[h] \in Kinds
  BY DEF Kinds
<1> USE DEF DeviceTypeOK, SaverHasPeer, SaveGoes, LoadGoes, host, cache, nvs
<1>2. CASE HostConnects \/ AuthCompletes \/ AuthFails
  BY <1>1, <1>2 DEF HostConnects, AuthCompletes, AuthFails, SaveStarts
<1>3. CASE SaveCachesAddr \/ SaveCachesKind \/ SaveValidates \/ SaveSetsAddr \/ SaveSetsKind
             \/ SaveEnds
  BY <1>3 DEF SaveCachesAddr, SaveCachesKind, SaveValidates, SaveSetsAddr, SaveSetsKind, SaveEnds
<1>4. CASE LoadStarts \/ LoadGetsAddr \/ LoadGetsKind \/ LoadFails \/ LoadValidates
  BY <1>4 DEF LoadStarts, LoadGetsAddr, LoadGetsKind, LoadFails, LoadValidates
<1>5. CASE DeviceRestarts
  BY <1>1, <1>5 DEF DeviceRestarts
<1>6. CASE UNCHANGED deviceVars
  BY <1>6 DEF deviceVars
<1> QED
  BY <1>2, <1>3, <1>4, <1>5, <1>6 DEF DeviceNext

\* Every variable of the saved host keeps its type.
THEOREM DeviceTypeCorrect == DeviceSpec => []DeviceTypeOK
BY DeviceTypeInit, DeviceTypeNext, PTL DEF DeviceSpec

-----------------------------------------------------------------------------
(* Address and type belong together.                                       *)

\* In flash, once the second key is written.
FlashMatches ==
  /\ save = "keyKind" => nvsAddr = peer
  /\ ~torn /\ save # "keyKind" /\ nvsAddr # NoHost => nvsKind = KindOf[nvsAddr]

OneAtATime ==
  ~crossed => /\ save = "idle" \/ load = "idle"
              /\ load # "idle" => ~valid

\* A save that no load cuts into leaves its host in the cache.
SavedPart ==
  ~crossed => /\ save \in {"kind", "valid", "keyAddr", "keyKind", "commit"}
                   => cacheAddr = peer
              /\ save \in {"valid", "keyAddr", "keyKind", "commit"}
                   => cacheKind = kind
              /\ save \in {"keyAddr", "keyKind", "commit"} => valid
              /\ save = "idle" /\ peer # NoHost => valid /\ cacheAddr = peer /\ cacheKind = kind
              /\ load # "idle" /\ save = "idle" => peer = NoHost

\* A load that no save cuts into copies the flash.
LoadedPart ==
  ~crossed => /\ load \in {"kind", "valid"} => cacheAddr = nvsAddr /\ nvsAddr # NoHost
              /\ load = "valid" => cacheKind = nvsKind
              /\ valid /\ peer = NoHost => cacheAddr = nvsAddr /\ nvsAddr # NoHost /\ cacheKind = nvsKind

MatchInv ==
  /\ DeviceTypeOK /\ SaverHasPeer
  /\ FlashMatches /\ OneAtATime /\ SavedPart /\ LoadedPart /\ NeverMixed

LEMMA MatchInit == DeviceInit => MatchInv
<1>1. DeviceInit => DeviceTypeOK /\ SaverHasPeer
  BY DeviceTypeInit
<1> QED
  BY <1>1, DeviceAssumption
     DEF DeviceInit, MatchInv, FlashMatches, OneAtATime, SavedPart, LoadedPart, NeverMixed

LEMMA MatchNext == MatchInv /\ [DeviceNext]_deviceVars => MatchInv'
<1> SUFFICES ASSUME MatchInv, [DeviceNext]_deviceVars PROVE MatchInv'
  OBVIOUS
<1>1. DeviceTypeOK' /\ SaverHasPeer'
  BY DeviceTypeNext DEF MatchInv
<1>2. NoHost \notin Hosts
  BY DeviceAssumption
<1> USE <1>1, <1>2 DEF MatchInv, SaverHasPeer, FlashMatches, OneAtATime, SavedPart, LoadedPart,
                 NeverMixed, SaveGoes, LoadGoes, host, cache, nvs
<1>3. CASE HostConnects \/ AuthCompletes \/ AuthFails
  <2>1. CASE HostConnects
    BY <2>1 DEF HostConnects, SaveStarts
  <2>2. CASE AuthCompletes
    BY <2>2 DEF AuthCompletes, SaveStarts
  <2>3. CASE AuthFails
    BY <2>3 DEF AuthFails
  <2> QED
    BY <1>3, <2>1, <2>2, <2>3
<1>4. CASE SaveCachesAddr
  BY <1>4 DEF SaveCachesAddr
<1>5. CASE SaveCachesKind
  BY <1>5 DEF SaveCachesKind
<1>6. CASE SaveValidates
  BY <1>6 DEF SaveValidates
<1>7. CASE SaveSetsAddr
  BY <1>7 DEF SaveSetsAddr
<1>8. CASE SaveSetsKind
  BY <1>8 DEF SaveSetsKind
<1>9. CASE SaveEnds
  <2>1. /\ save \in {"keyAddr", "keyKind", "commit"} /\ save' = "idle"
        /\ UNCHANGED << peer, kind, linkKind, cacheAddr, cacheKind, valid, nvsAddr, nvsKind, load,
                        crossed >>
    BY <1>9 DEF SaveEnds
  <2>2. ~torn' => save # "keyKind" /\ ~torn
    BY <1>9 DEF SaveEnds
  <2>3. FlashMatches'
    BY <2>1, <2>2
  <2>4. OneAtATime' /\ SavedPart'
    BY <2>1
  <2>5. LoadedPart' /\ NeverMixed'
    BY <2>1, <2>2
  <2> QED
    BY <2>3, <2>4, <2>5
<1>10. CASE LoadStarts \/ LoadFails
  <2>1. CASE LoadStarts
    BY <2>1 DEF LoadStarts
  <2>2. CASE LoadFails
    BY <2>2 DEF LoadFails
  <2> QED
    BY <1>10, <2>1, <2>2
<1>11. CASE LoadGetsAddr
  BY <1>11 DEF LoadGetsAddr
<1>12. CASE LoadGetsKind
  BY <1>12 DEF LoadGetsKind
<1>13. CASE LoadValidates
  BY <1>13 DEF LoadValidates
<1>14. CASE DeviceRestarts
  BY <1>14 DEF DeviceRestarts
<1>15. CASE UNCHANGED deviceVars
  BY <1>15 DEF deviceVars, DeviceTypeOK
<1> QED
  BY <1>3, <1>4, <1>5, <1>6, <1>7, <1>8, <1>9, <1>10, <1>11, <1>12, <1>13, <1>14, <1>15
     DEF DeviceNext

\* A host that was saved with its own type is in the cache with it, and one loaded from
\* flash has its own if the last save got as far as writing it, for any set of hosts.
THEOREM AddressHasItsType == DeviceSpec => []NeverMixed
<1>1. MatchInv => NeverMixed
  BY DEF MatchInv
<1> QED
  BY <1>1, MatchInit, MatchNext, PTL DEF DeviceSpec

-----------------------------------------------------------------------------
(* The saved host implements LastHost.                                     *)

\* Nothing is written to flash before the cache is valid, and nobody saves a host
\* before that but the first one.
FirstSave ==
  /\ save \in {"keyAddr", "keyKind", "commit"} => valid
  /\ ~valid /\ save = "idle" => peer = NoHost
  /\ save # "idle" => peer # NoHost
  /\ load # "idle" /\ ~crossed => save = "idle" /\ ~valid

\* What is about to become valid is a host, the one that connected or the one in
\* flash.
CacheComesFrom ==
  /\ valid \/ save \in {"kind", "valid"} \/ load \in {"kind", "valid"} => cacheAddr \in Hosts
  /\ ~valid => cacheAddr \in {NoHost, peer, nvsAddr}
  /\ ~valid /\ ~crossed /\ save \in {"kind", "valid"} => cacheAddr = peer

OriginInv == DeviceTypeOK /\ SaverHasPeer /\ FirstSave /\ CacheComesFrom

LEMMA OriginInit == DeviceInit => OriginInv
<1>1. DeviceInit => DeviceTypeOK /\ SaverHasPeer
  BY DeviceTypeInit
<1> QED
  BY <1>1 DEF DeviceInit, OriginInv, FirstSave, CacheComesFrom

LEMMA OriginNext == OriginInv /\ [DeviceNext]_deviceVars => OriginInv'
<1> SUFFICES ASSUME OriginInv, [DeviceNext]_deviceVars PROVE OriginInv'
  OBVIOUS
<1>1. DeviceTypeOK' /\ SaverHasPeer'
  BY DeviceTypeNext DEF OriginInv
<1>2. NoHost \notin Hosts /\ nvsAddr \in Hosts \union {NoHost}
  BY DeviceAssumption DEF OriginInv, DeviceTypeOK
<1> USE <1>1, <1>2 DEF OriginInv, SaverHasPeer, FirstSave, CacheComesFrom, SaveGoes, LoadGoes,
                 host, cache, nvs
<1>3. CASE HostConnects \/ AuthCompletes \/ AuthFails \/ SaveCachesAddr \/ SaveCachesKind
  <2>1. CASE HostConnects \/ AuthCompletes \/ AuthFails
    <3>1. ASSUME NEW h \in Hosts, NEW k, SaveStarts(h, k), UNCHANGED << cache, nvs, load >>
          PROVE  FirstSave' /\ CacheComesFrom'
      BY <3>1 DEF SaveStarts
    <3>2. CASE AuthFails
      BY <3>2 DEF AuthFails
    <3> QED
      BY <2>1, <3>1, <3>2 DEF HostConnects, AuthCompletes
  <2>2. CASE SaveCachesAddr \/ SaveCachesKind
    BY <2>2 DEF SaveCachesAddr, SaveCachesKind
  <2> QED
    BY <1>3, <2>1, <2>2
<1>4. CASE SaveValidates \/ SaveSetsAddr \/ SaveSetsKind \/ SaveEnds
  BY <1>4 DEF SaveValidates, SaveSetsAddr, SaveSetsKind, SaveEnds
<1>5. CASE LoadStarts \/ LoadGetsAddr \/ LoadGetsKind \/ LoadFails
  <2>1. CASE LoadStarts
    <3>1. /\ load = "idle" /\ load' = "addr" /\ ~valid
          /\ (~crossed' => ~crossed /\ save = "idle")
          /\ UNCHANGED << peer, cacheAddr, valid, nvsAddr, save >>
      BY <2>1 DEF LoadStarts
    <3> QED
      BY <3>1
  <2>2. CASE LoadGetsAddr \/ LoadGetsKind \/ LoadFails
    BY <2>2 DEF LoadGetsAddr, LoadGetsKind, LoadFails
  <2> QED
    BY <1>5, <2>1, <2>2
<1>6. CASE LoadValidates
  BY <1>6 DEF LoadValidates
<1>7. CASE DeviceRestarts
  BY <1>7 DEF DeviceRestarts
<1>8. CASE UNCHANGED deviceVars
  BY <1>8 DEF deviceVars, DeviceTypeOK
<1> QED
  BY <1>3, <1>4, <1>5, <1>6, <1>7, <1>8 DEF DeviceNext

LEMMA LastHostInitMapped == DeviceInit => LH!LastHostInit
BY DEF DeviceInit, LH!LastHostInit, KnownHost

\* Every step of the device is one of LastHost, or changes nothing that LastHost sees.
LEMMA LastHostNextMapped ==
  OriginInv /\ [DeviceNext]_deviceVars => [LH!LastHostNext]_(LH!lastHostVars)
<1> SUFFICES ASSUME OriginInv, [DeviceNext]_deviceVars
             PROVE  LH!LastHostNext \/ UNCHANGED LH!lastHostVars
  OBVIOUS
<1>1. NoHost \notin Hosts
  BY DeviceAssumption
<1>c. crossed \in BOOLEAN
  BY DEF OriginInv, DeviceTypeOK
<1>t. peer' \in Hosts \union {NoHost} /\ crossed' \in BOOLEAN
  BY DeviceTypeNext DEF OriginInv, DeviceTypeOK
<1> USE <1>1 DEF OriginInv, SaverHasPeer, FirstSave, CacheComesFrom, SaveGoes, LoadGoes, host,
              cache, nvs, KnownHost, LH!lastHostVars
<1>2. CASE HostConnects \/ AuthCompletes \/ AuthFails
  <2>1. CASE HostConnects \/ AuthCompletes
    <3>1. LH!HostComes
      BY <1>t, <2>1 DEF HostConnects, AuthCompletes, SaveStarts, LH!HostComes
    <3> QED
      BY <3>1 DEF LH!LastHostNext
  <2>2. CASE AuthFails
    BY <2>2 DEF AuthFails
  <2> QED
    BY <1>2, <2>1, <2>2
<1>3. CASE SaveCachesAddr
  <2>1. CASE valid
    <3>1. LH!Remember
      BY <1>3, <2>1 DEF SaveCachesAddr, LH!Remember
    <3> QED
      BY <3>1 DEF LH!LastHostNext
  <2>2. CASE ~valid
    BY <1>3, <2>2 DEF SaveCachesAddr
  <2> QED
    BY <2>1, <2>2
<1>4. CASE SaveCachesKind \/ SaveSetsKind \/ SaveEnds
  BY <1>4 DEF SaveCachesKind, SaveSetsKind, SaveEnds
<1>5. CASE SaveValidates
  <2>1. CASE valid
    BY <1>5, <2>1 DEF SaveValidates
  <2>2. CASE ~valid /\ cacheAddr = peer
    <3>1. LH!Remember
      BY <1>5, <2>2 DEF SaveValidates, LH!Remember
    <3> QED
      BY <3>1 DEF LH!LastHostNext
  <2>3. CASE ~valid /\ cacheAddr # peer
    <3>1. LH!Recall
      BY <1>5, <2>3 DEF SaveValidates, LH!Recall
    <3> QED
      BY <3>1 DEF LH!LastHostNext
  <2> QED
    BY <2>1, <2>2, <2>3
<1>6. CASE SaveSetsAddr
  <2>1. LH!Store
    BY <1>6 DEF SaveSetsAddr, LH!Store
  <2> QED
    BY <2>1 DEF LH!LastHostNext
<1>7. CASE LoadStarts \/ LoadGetsKind \/ LoadFails
  <2>1. CASE LoadStarts /\ save = "idle"
    <3>1. crossed' = crossed
      BY <1>c, <2>1, Zenon DEF LoadStarts
    <3> QED
      BY <2>1, <3>1 DEF LoadStarts
  <2>2. CASE LoadStarts /\ save # "idle"
    <3>1. LH!Muddle
      BY <2>2 DEF LoadStarts, LH!Muddle
    <3> QED
      BY <3>1 DEF LH!LastHostNext
  <2>3. CASE LoadGetsKind \/ LoadFails
    BY <2>3 DEF LoadGetsKind, LoadFails
  <2> QED
    BY <1>7, <2>1, <2>2, <2>3
<1>8. CASE LoadGetsAddr
  <2>1. CASE valid
    <3>1. LH!Recall
      BY <1>8, <2>1 DEF LoadGetsAddr, LH!Recall
    <3> QED
      BY <3>1 DEF LH!LastHostNext
  <2>2. CASE ~valid
    BY <1>8, <2>2 DEF LoadGetsAddr
  <2> QED
    BY <2>1, <2>2
<1>9. CASE LoadValidates
  <2>1. cacheAddr \in Hosts /\ valid'
    BY <1>9 DEF LoadValidates
  <2>2. CASE valid
    BY <1>9, <2>1, <2>2 DEF LoadValidates
  <2>3. CASE ~valid /\ cacheAddr = peer
    <3>1. LH!Remember
      BY <1>9, <2>1, <2>3 DEF LoadValidates, LH!Remember
    <3> QED
      BY <3>1 DEF LH!LastHostNext
  <2>4. CASE ~valid /\ cacheAddr # peer
    <3>1. LH!Recall
      BY <1>9, <2>1, <2>4 DEF LoadValidates, LH!Recall
    <3> QED
      BY <3>1 DEF LH!LastHostNext
  <2> QED
    BY <2>2, <2>3, <2>4
<1>10. CASE DeviceRestarts
  <2>1. LH!Restart
    BY <1>10 DEF DeviceRestarts, LH!Restart
  <2> QED
    BY <2>1 DEF LH!LastHostNext
<1>11. CASE UNCHANGED deviceVars
  BY <1>11 DEF deviceVars
<1> QED
  BY <1>2, <1>3, <1>4, <1>5, <1>6, <1>7, <1>8, <1>9, <1>10, <1>11 DEF DeviceNext

\* Whatever fails and whenever it restarts, the device connects to the host saved last,
\* or to the one in flash until the first, unless a load runs into a save.
THEOREM ImplementsLastHost == DeviceSpec => KnowsLastHost
<1>1. DeviceInit => LH!LastHostInit
  BY LastHostInitMapped
<1>2. OriginInv /\ [DeviceNext]_deviceVars => [LH!LastHostNext]_(LH!lastHostVars)
  BY LastHostNextMapped
<1> QED
  BY <1>1, <1>2, OriginInit, OriginNext, PTL DEF DeviceSpec, KnowsLastHost, LH!LastHostSpec

-----------------------------------------------------------------------------
(* The settings: their types.                                              *)

\* A set of numbers has a least one.
LEMMA LeastExists ==
  ASSUME NEW S \in SUBSET Nat, S # {}
  PROVE  \E i \in S : \A j \in S : i <= j
<1> DEFINE Below == {p \in Nat \X Nat : p[1] < p[2]}
<1>1. IsWellFoundedOn(Below, Nat)
  BY NatLessThanWellFounded DEF OpToRel
<1> HIDE DEF Below
<1>2. PICK i \in S : \A j \in S : ~(<< j, i >> \in Below)
  BY <1>1, WFMin
<1>3. \A j \in S : i <= j
  <2> TAKE j \in S
  <2>1. i \in Nat /\ j \in Nat /\ << j, i >> \notin Below
    BY <1>2
  <2> QED
    BY <2>1 DEF Below
<1> QED
  BY <1>3

\* cache_find returns a row that counts and has the path.
LEMMA FirstRow ==
  ASSUME NEW r \in Readers, Rows(r) # {}
  PROVE  \E i \in Rows(r) : i \in 1..Places
                            /\ i = CHOOSE k \in Rows(r) : \A j \in Rows(r) : k <= j
<1>1. Rows(r) \in SUBSET Nat /\ \A k \in Rows(r) : k \in 1..Places
  BY StoreAssumption DEF Rows
<1>2. \E i \in Rows(r) : \A j \in Rows(r) : i <= j
  BY <1>1, LeastExists
<1> DEFINE low == CHOOSE k \in Rows(r) : \A j \in Rows(r) : k <= j
<1>3. low \in Rows(r)
  BY <1>2
<1> HIDE DEF low
<1>4. low \in 1..Places
  BY <1>1, <1>3
<1> QED
  BY <1>3, <1>4 DEF low

ReaderHasPath == \A r \in Readers : step[r] # "idle" => path[r] \in Paths

StoreTyped == StoreTypeOK /\ ReaderHasPath

LEMMA ValueTyped ==
  ASSUME NEW d \in AllDocs, NEW p \in Paths
  PROVE  ValueOf(d, p) \in Values /\ ValueOf(d, p) = << d, p, Length[<< d, p >>] >>
         /\ Length[<< d, p >>] \in Nat
BY StoreAssumption DEF ValueOf, Values, AllDocs

LEMMA Sizes == RowSize \in Nat /\ BufferSize \in Nat /\ 1 <= BufferSize /\ BufferSize <= RowSize
BY StoreAssumption

LEMMA CutTyped ==
  ASSUME NEW v \in Values \union {NoValue}, NEW size \in Nat, 1 <= size
  PROVE  Cut(v, size) \in Values \union {NoValue}
<1>1. CASE v \in Values
  <2>1. PICK d \in AllDocs, p \in Paths, n \in Nat : v = << d, p, n >>
    BY <1>1 DEF Values
  <2>2. (IF n < size THEN n ELSE size - 1) \in Nat
    OBVIOUS
  <2> QED
    BY <2>1, <2>2 DEF Cut, Values
<1>2. CASE v = NoValue
  BY <1>2 DEF Cut, NoValue
<1> QED
  BY <1>1, <1>2

\* What fits into a task's buffer has survived in the row.
LEMMA CutTwice ==
  ASSUME NEW d \in AllDocs, NEW p \in Paths
  PROVE  Cut(Cut(ValueOf(d, p), RowSize), BufferSize) = Cut(ValueOf(d, p), BufferSize)
<1>1. PICK n \in Nat : ValueOf(d, p) = << d, p, n >>
  BY ValueTyped
<1> DEFINE m == IF n < RowSize THEN n ELSE RowSize - 1
<1>2. (IF m < BufferSize THEN m ELSE BufferSize - 1) = (IF n < BufferSize THEN n ELSE BufferSize - 1)
  BY Sizes
<1>3. Cut(ValueOf(d, p), RowSize) = << d, p, m >>
  BY <1>1 DEF Cut
<1> HIDE DEF m
<1>4. Cut(<< d, p, m >>, BufferSize) = << d, p, IF m < BufferSize THEN m ELSE BufferSize - 1 >>
  BY DEF Cut
<1>5. Cut(<< d, p, n >>, BufferSize) = << d, p, IF n < BufferSize THEN n ELSE BufferSize - 1 >>
  BY DEF Cut
<1> QED
  BY <1>1, <1>2, <1>3, <1>4, <1>5

LEMMA EmptyStoreTyped ==
  /\ EmptyStore \in [1..Places -> [path : Paths \union {NoDoc}, val : Values \union {NoValue}]]
  /\ 0 \in 0..(Places + 1) /\ 1 \in 1..(Places + 1)
<1>1. 0 \in 0..(Places + 1) /\ 1 \in 1..(Places + 1)
  BY StoreAssumption
<1>2. EmptyStore \in [1..Places -> [path : Paths \union {NoDoc}, val : Values \union {NoValue}]]
  BY DEF EmptyStore
<1> QED
  BY <1>1, <1>2

LEMMA StoreTypedInit == StoreInit => StoreTyped
<1> SUFFICES ASSUME StoreInit PROVE StoreTyped
  OBVIOUS
<1>1. /\ ram \in AllDocs \union {NoDoc} /\ stored \in AllDocs \union {NoDoc}
      /\ dangling = FALSE /\ update = "idle" /\ sent \in Docs \union {NoDoc} /\ promised \in Docs \union {NoDoc}
      /\ since \subseteq Docs /\ unread \in BOOLEAN
  BY DEF StoreInit
<1>2. /\ store = EmptyStore /\ filled = 0 /\ step = [r \in Readers |-> "idle"]
      /\ path = [r \in Readers |-> NoDoc] /\ item = [r \in Readers |-> NoValue]
      /\ entry = [r \in Readers |-> 1] /\ got = [r \in Readers |-> NoValue]
      /\ readersMet = FALSE /\ lost = {} /\ overread = FALSE
  BY DEF StoreInit, NoReaders
<1>3. step \in [Readers -> ReaderSteps] /\ ReaderHasPath
  BY <1>2 DEF ReaderSteps, ReaderHasPath
<1> QED
  BY <1>1, <1>2, <1>3, EmptyStoreTyped DEF StoreTyped, StoreTypeOK

\* What the tasks' part of the types is.
ReadersTyped ==
  /\ store \in [1..Places -> [path : Paths \union {NoDoc}, val : Values \union {NoValue}]]
  /\ filled \in 0..(Places + 1)
  /\ step \in [Readers -> ReaderSteps] /\ path \in [Readers -> Paths \union {NoDoc}]
  /\ item \in [Readers -> Values \union {NoValue}]
  /\ got \in [Readers -> Values \union {NoValue}]
  /\ entry \in [Readers -> 1..(Places + 1)]
  /\ lost \subseteq Readers
  /\ ReaderHasPath

LEMMA ReaderTypedNext ==
  ASSUME StoreTyped, NEW r \in Readers,
         \/ ReadAsks(r) \/ ReadHits(r) \/ ReadMisses(r) \/ ReadTakes(r) \/ ReadParses(r)
         \/ ReadFindsNothing(r) \/ ReadClaims(r) \/ ReadCounts(r) \/ ReadFills(r)
  PROVE  ReadersTyped'
<1>l. lost' \subseteq Readers
  <2>1. ASSUME NEW from, NEW to, ReaderGoes(r, from, to) PROVE lost' \subseteq lost \union {r}
    BY <2>1 DEF ReaderGoes
  <2>2. lost' \subseteq lost \union {r}
    BY <2>1 DEF ReadAsks, ReadHits, ReadMisses, ReadTakes, ReadParses, ReadFindsNothing, ReadClaims,
       ReadCounts, ReadFills
  <2> QED
    BY <2>2 DEF StoreTyped, StoreTypeOK
<1> USE <1>l DEF StoreTyped, StoreTypeOK, ReadersTyped, ReaderHasPath, ReaderGoes, ReaderSteps
<1>0. Places \in Nat \ {0} /\ readersMet \in BOOLEAN
  BY StoreAssumption
<1>1. CASE ReadAsks(r)
  BY <1>1 DEF ReadAsks
<1>2. CASE ReadHits(r)
  <2>1. PICK i \in Rows(r) : i \in 1..Places
               /\ i = CHOOSE k \in Rows(r) : \A j \in Rows(r) : k <= j
    BY <1>2, FirstRow DEF ReadHits
  <2>2. got' = [got EXCEPT ![r] = Cut(store[i].val, BufferSize)]
    BY <1>2, <2>1 DEF ReadHits
  <2>3. Cut(store[i].val, BufferSize) \in Values \union {NoValue}
    BY <2>1, CutTyped, Sizes
  <2>4. /\ step' = [step EXCEPT ![r] = "idle"]
        /\ UNCHANGED << store, filled, path, item, entry >>
    BY <1>2 DEF ReadHits
  <2> QED
    BY <2>2, <2>3, <2>4
<1>3. CASE ReadMisses(r)
  BY <1>3 DEF ReadMisses
<1>4. CASE ReadParses(r)
  <2>1. PICK d \in AllDocs : item' = [item EXCEPT ![r] = ValueOf(d, path[r])]
    BY <1>4 DEF ReadParses
  <2>2. ValueOf(d, path[r]) \in Values
    BY <1>4, ValueTyped DEF ReadParses
  <2>3. /\ step' = [step EXCEPT ![r] = "claim"] /\ step[r] = "walk"
        /\ UNCHANGED << store, filled, path, entry, got >>
    BY <1>4 DEF ReadParses
  <2> QED
    BY <2>1, <2>2, <2>3
<1>8. CASE ReadTakes(r) \/ ReadFindsNothing(r)
  BY <1>8 DEF ReadTakes, ReadFindsNothing
<1>5. CASE ReadClaims(r)
  <2> DEFINE used == IF filled >= Places THEN 0 ELSE filled
  <2>1. /\ filled' = used /\ entry' = [entry EXCEPT ![r] = used + 1]
        /\ store' = [store EXCEPT ![used + 1].path = path[r]]
        /\ step' = [step EXCEPT ![r] = "count"] /\ step[r] = "claim"
        /\ UNCHANGED << path, item, got >>
    BY <1>5 DEF ReadClaims
  <2>2. used \in 0..Places /\ used + 1 \in 1..Places
    BY <1>0
  <2> HIDE DEF used
  <2>3. path[r] \in Paths
    BY <2>1
  <2>4. store' \in [1..Places -> [path : Paths \union {NoDoc}, val : Values \union {NoValue}]]
    BY <2>1, <2>2, <2>3
  <2>5. filled' \in 0..(Places + 1) /\ entry' \in [Readers -> 1..(Places + 1)]
    BY <1>0, <2>1, <2>2
  <2> QED
    BY <2>1, <2>3, <2>4, <2>5
<1>6. CASE ReadCounts(r)
  BY <1>0, <1>6 DEF ReadCounts
<1>7. CASE ReadFills(r)
  <2>1. /\ Cut(item[r], RowSize) \in Values \union {NoValue}
        /\ Cut(item[r], BufferSize) \in Values \union {NoValue}
    BY CutTyped, Sizes
  <2>2. store' \in [1..Places -> [path : Paths \union {NoDoc}, val : Values \union {NoValue}]]
    <3>1. CASE entry[r] <= Places
      <4>1. store' = [store EXCEPT ![entry[r]].val = Cut(item[r], RowSize)] /\ entry[r] \in 1..Places
        BY <1>0, <1>7, <3>1 DEF ReadFills
      <4> QED
        BY <2>1, <4>1
    <3>2. CASE ~(entry[r] <= Places)
      BY <1>7, <3>2 DEF ReadFills
    <3> QED
      BY <3>1, <3>2
  <2>3. /\ step' = [step EXCEPT ![r] = "idle"]
        /\ got' = [got EXCEPT ![r] = Cut(item[r], BufferSize)]
        /\ item' = [item EXCEPT ![r] = NoValue] /\ entry' = [entry EXCEPT ![r] = 1]
        /\ UNCHANGED << filled, path >>
    BY <1>7 DEF ReadFills
  <2>4. entry' \in [Readers -> 1..(Places + 1)]
    BY <1>0, <2>3
  <2> QED
    BY <2>1, <2>2, <2>3, <2>4
<1> QED
  BY <1>1, <1>2, <1>3, <1>4, <1>5, <1>6, <1>7, <1>8

ReaderStep(r) ==
  \/ ReadAsks(r) \/ ReadHits(r) \/ ReadMisses(r) \/ ReadTakes(r) \/ ReadParses(r)
  \/ ReadFindsNothing(r) \/ ReadClaims(r) \/ ReadCounts(r) \/ ReadFills(r)

BootStep == BootWithDefaults \/ BootFirstTime \/ BootUnreadable \/ BootLoads

LEMMA ReaderKeepsDocs ==
  ASSUME NEW r \in Readers, ReaderStep(r)
  PROVE  UNCHANGED docVars /\ ~Booting /\ ~readersMet
BY DEF ReaderStep, ReadAsks, ReadHits, ReadMisses, ReadTakes, ReadParses, ReadFindsNothing,
       ReadClaims, ReadCounts, ReadFills, ReaderGoes

LEMMA ReaderMet ==
  ASSUME NEW r \in Readers, ReaderStep(r)
  PROVE  readersMet' \in BOOLEAN /\ overread' \in BOOLEAN
<1>1. ASSUME NEW from, NEW to, ReaderGoes(r, from, to)
      PROVE  readersMet' \in BOOLEAN /\ overread' \in BOOLEAN
  <2> DEFINE b == readersMet \/ (from \in {"look", "claim", "count", "fill"}
                                /\ \E q \in Readers \ {r} : InCache(q))
  <2> DEFINE o == overread \/ (from = "walk" /\ r \in lost)
  <2>1. readersMet' = b /\ overread' = o
    BY <1>1 DEF ReaderGoes
  <2>2. b \in BOOLEAN /\ o \in BOOLEAN
    OBVIOUS
  <2> QED
    BY <2>1, <2>2, Zenon
<1> QED
  BY <1>1 DEF ReaderStep, ReadAsks, ReadHits, ReadMisses, ReadTakes, ReadParses, ReadFindsNothing,
       ReadClaims, ReadCounts, ReadFills

\* The web server's task, where it leaves the readers alone, and where it frees a text.
WebWrites ==
  \/ GetReplaces \/ UpdateStarts \/ UpdateSets \/ UpdateCommits \/ UpdateInstalls \/ UpdateFails

WebFrees == GetFrees \/ UpdateFrees

LEMMA StoreTypedNext ==
  ASSUME StoreTyped, [StoreNext]_storeVars
  PROVE  StoreTyped'
<1>0. /\ ram \in AllDocs \union {NoDoc} /\ stored \in AllDocs \union {NoDoc}
      /\ dangling \in BOOLEAN
      /\ update \in {"idle", "copy", "set", "commit", "free", "install", "clear", "ended"}
      /\ sent \in Docs \union {NoDoc} /\ promised \in Docs \union {NoDoc}
      /\ since \subseteq Docs /\ unread \in BOOLEAN
      /\ readersMet \in BOOLEAN /\ overread \in BOOLEAN
      /\ Default \in AllDocs
  BY DEF StoreTyped, StoreTypeOK, AllDocs
<1>r. ReadersTyped
  BY DEF StoreTyped, StoreTypeOK, ReadersTyped
<1>1. ASSUME NEW r \in Readers, ReaderStep(r) PROVE StoreTyped'
  <2>1. ReadersTyped'
    BY <1>1, ReaderTypedNext DEF ReaderStep
  <2>2. UNCHANGED docVars
    BY <1>1, ReaderKeepsDocs
  <2>3. readersMet' \in BOOLEAN /\ overread' \in BOOLEAN
    BY <1>1, ReaderMet
  <2> QED
    BY <1>0, <2>1, <2>2, <2>3 DEF StoreTyped, StoreTypeOK, ReadersTyped, docVars
<1>2. CASE BootStep \/ WebWrites \/ UNCHANGED storeVars
  <2>1. UNCHANGED readerVars
    BY <1>2 DEF BootStep, BootWithDefaults, BootFirstTime, BootUnreadable, BootLoads, WebWrites,
       GetReplaces, UpdateStarts, UpdateSets, UpdateCommits, UpdateInstalls, UpdateFails, storeVars
  <2>2. ReadersTyped' /\ readersMet' \in BOOLEAN /\ overread' \in BOOLEAN
    BY <1>0, <1>r, <2>1 DEF ReadersTyped, ReaderHasPath, readerVars
  <2>3. unread' \in BOOLEAN /\ dangling' \in BOOLEAN
    BY <1>0, <1>2 DEF BootStep, BootWithDefaults, BootFirstTime, BootUnreadable, BootLoads, WebWrites,
       GetReplaces, UpdateStarts, UpdateSets, UpdateCommits, UpdateInstalls, UpdateFails, storeVars,
       docVars
  <2>4. /\ ram' \in AllDocs \union {NoDoc} /\ stored' \in AllDocs \union {NoDoc}
        /\ update' \in {"idle", "copy", "set", "commit", "free", "install", "clear", "ended"}
        /\ sent' \in Docs \union {NoDoc} /\ promised' \in Docs \union {NoDoc}
        /\ since' \subseteq Docs
    <3>1. CASE BootStep
      BY <1>0, <3>1 DEF BootStep, BootWithDefaults, BootFirstTime, BootUnreadable, BootLoads
    <3>2. CASE UpdateStarts
      BY <1>0, <3>2 DEF UpdateStarts, UpdateGoes
    <3>3. CASE GetReplaces \/ UpdateSets \/ UpdateCommits \/ UpdateInstalls \/ UpdateFails
      BY <1>0, <3>3 DEF GetReplaces, UpdateSets, UpdateCommits, UpdateInstalls, UpdateFails,
         UpdateGoes, AllDocs
    <3>4. CASE UNCHANGED storeVars
      BY <1>0, <3>4 DEF storeVars, docVars
    <3> QED
      BY <1>2, <3>1, <3>2, <3>3, <3>4 DEF WebWrites
  <2> QED
    BY <2>2, <2>3, <2>4 DEF StoreTyped, StoreTypeOK, ReadersTyped
<1>5. CASE WebFrees
  <2>1. /\ dangling' = TRUE /\ lost' \subseteq lost \union Readers
        /\ UNCHANGED << store, filled, step, path, item, entry, got, readersMet, overread >>
    BY <1>5 DEF WebFrees, GetFrees, UpdateFrees, FreeText
  <2>2. update' \in {"copy", "install"} /\ UNCHANGED << ram, stored, sent, promised, since, unread >>
    BY <1>5 DEF WebFrees, GetFrees, UpdateFrees, UpdateGoes
  <2>3. ReadersTyped'
    BY <1>r, <2>1 DEF ReadersTyped, ReaderHasPath
  <2> QED
    BY <1>0, <2>1, <2>2, <2>3 DEF StoreTyped, StoreTypeOK, ReadersTyped
<1>3. CASE UpdateSucceeds
  <2>1. /\ filled' = 0 /\ promised' = sent /\ since' = {} /\ update' = "ended"
        /\ UNCHANGED << ram, dangling, stored, sent, unread, store, step, path, item, entry, got,
                        readersMet, lost, overread >>
    BY <1>3 DEF UpdateSucceeds, UpdateGoes
  <2> QED
    BY <1>0, <1>r, <2>1, EmptyStoreTyped DEF StoreTyped, StoreTypeOK, ReadersTyped, ReaderHasPath
<1>4. CASE StoreRestarts
  <2>1. /\ store' = EmptyStore /\ filled' = 0 /\ step' = [r \in Readers |-> "idle"]
        /\ path' = [r \in Readers |-> NoDoc] /\ item' = [r \in Readers |-> NoValue]
        /\ entry' = [r \in Readers |-> 1] /\ got' = [r \in Readers |-> NoValue]
        /\ readersMet' = FALSE /\ lost' = {} /\ overread' = FALSE
    BY <1>4 DEF StoreRestarts, NoReaders
  <2>2. step' \in [Readers -> ReaderSteps] /\ ReaderHasPath'
    BY <2>1 DEF ReaderSteps, ReaderHasPath
  <2>3. ram' = NoDoc /\ dangling' = FALSE /\ update' = "idle"
        /\ UNCHANGED << stored, sent, promised, since, unread >>
    BY <1>4 DEF StoreRestarts
  <2> QED
    BY <1>0, <2>1, <2>2, <2>3, EmptyStoreTyped DEF StoreTyped, StoreTypeOK
<1> QED
  BY <1>1, <1>2, <1>3, <1>4, <1>5 DEF StoreNext, BootStep, WebWrites, WebFrees, ReaderStep

\* Every variable of the settings has its type.
THEOREM StoreTypeCorrect == StoreSpec => []StoreTypeOK
<1>1. StoreTyped => StoreTypeOK
  BY DEF StoreTyped
<1> QED
  BY <1>1, StoreTypedInit, StoreTypedNext, PTL DEF StoreSpec

-----------------------------------------------------------------------------
(* What the page was told is saved.                                        *)

\* The document of an update is one the page has sent since it was told of another,
\* and is the one in flash once it was set.
UpdateOnItsWay ==
  /\ Booting => update = "idle"
  /\ update \in {"set", "commit", "free", "install", "clear"} => sent \in since
  /\ update \in {"commit", "free", "install", "clear"} => stored = sent

SavedInv == StoreTyped /\ UpdateOnItsWay /\ SavedSettingsSurvive

LEMMA SavedInvNext ==
  ASSUME SavedInv, [StoreNext]_storeVars
  PROVE  SavedInv'
<1>0. StoreTyped /\ StoreTyped' /\ UpdateOnItsWay /\ SavedSettingsSurvive
  BY StoreTypedNext DEF SavedInv
<1>t. since \subseteq Docs /\ NoDoc \notin Docs /\ ram \in AllDocs \union {NoDoc}
      /\ Default # NoDoc
  BY <1>0, StoreAssumption DEF StoreTyped, StoreTypeOK
<1> SUFFICES UpdateOnItsWay' /\ SavedSettingsSurvive'
  BY <1>0 DEF SavedInv
<1> USE DEF UpdateOnItsWay, SavedSettingsSurvive, Booting
<1>1. ASSUME NEW r \in Readers, ReaderStep(r)
      PROVE  UpdateOnItsWay' /\ SavedSettingsSurvive'
  BY <1>0, <1>1, ReaderKeepsDocs DEF docVars
<1>2. CASE BootStep
  BY <1>0, <1>t, <1>2 DEF BootStep, BootWithDefaults, BootFirstTime, BootUnreadable, BootLoads
<1>3. CASE UpdateStarts \/ UpdateSets \/ UpdateCommits \/ UpdateInstalls
  BY <1>0, <1>t, <1>3
     DEF UpdateStarts, UpdateSets, UpdateCommits, UpdateInstalls, UpdateGoes
<1>7. CASE GetReplaces \/ WebFrees
  BY <1>0, <1>t, <1>7 DEF GetReplaces, WebFrees, GetFrees, UpdateFrees, UpdateGoes
<1>4. CASE UpdateSucceeds \/ UpdateFails
  BY <1>0, <1>t, <1>4 DEF UpdateSucceeds, UpdateFails, UpdateGoes
<1>5. CASE StoreRestarts
  BY <1>0, <1>5 DEF StoreRestarts
<1>6. CASE UNCHANGED storeVars
  BY <1>0, <1>6 DEF storeVars, docVars
<1> QED
  BY <1>1, <1>2, <1>3, <1>4, <1>5, <1>6, <1>7 DEF StoreNext, BootStep, WebFrees, ReaderStep

\* The settings the page was told are saved outlive every restart, for any set of
\* documents.
THEOREM SavedSettingsLast == StoreSpec => []SavedSettingsSurvive
<1>1. StoreInit => SavedInv
  BY StoreTypedInit DEF StoreInit, SavedInv, UpdateOnItsWay, SavedSettingsSurvive
<1>2. SavedInv => SavedSettingsSurvive
  BY DEF SavedInv
<1> QED
  BY <1>1, <1>2, SavedInvNext, PTL DEF StoreSpec
-----------------------------------------------------------------------------
(* What the tasks are told.                                                *)

\* The bounds of the cache.  One task at a time is about to count or to fill its row,
\* which is the next or the last.
OneFiller ==
  \A r, q \in Readers : step[r] \in {"count", "fill"} /\ step[q] \in {"count", "fill"} => r = q

RowOf(r) ==
  /\ step[r] = "count" => filled < Places /\ store[filled + 1].path = path[r]
  /\ step[r] = "fill" => entry[r] = filled /\ store[filled].path = path[r]
  /\ entry[r] <= Places

StoreBounds == filled <= Places /\ OneFiller /\ \A r \in Readers : RowOf(r)

Filling(i) == \E r \in Readers : step[r] = "fill" /\ entry[r] = i

\* The value of a path in the present document: whole, in a row, and in a task's buffer.
Whole(p) == ValueOf(ram, p)
InRow(p) == Cut(ValueOf(ram, p), RowSize)
InBuffer(p) == Cut(ValueOf(ram, p), BufferSize)

\* Every row that counts holds the value of its path, but the one being filled.
RowsHold ==
  \A i \in 1..Places :
    i <= filled /\ ~Filling(i) => store[i].path \in Paths /\ store[i].val = InRow(store[i].path)

\* What a task holds, or has been given, is the value of its path.
ReaderRight(r) ==
  /\ InCache(r) => item[r] = Whole(path[r])
  /\ got[r] = NoValue \/ got[r] = InBuffer(path[r])

StoreRight == RowsHold /\ \A r \in Readers : ReaderRight(r)

NoneWhileBooting ==
  Booting => /\ filled = 0
             /\ \A r \in Readers : step[r] = "idle" /\ got[r] = NoValue /\ entry[r] = 1

Answering == ~readersMet /\ update \in {"idle", "copy"}

GetInv ==
  SavedInv /\ NoneWhileBooting /\ (Answering => StoreBounds /\ (overread \/ StoreRight))

LEMMA NoRows == 0 <= Places /\ 1 <= Places /\ \A i \in 1..Places : ~(i <= 0)
BY StoreAssumption

LEMMA EmptyIsRight ==
  ASSUME filled = 0,
         \A r \in Readers : step[r] = "idle" /\ got[r] = NoValue /\ entry[r] = 1
  PROVE  StoreBounds /\ StoreRight
BY NoRows DEF StoreBounds, OneFiller, RowOf, StoreRight, RowsHold, ReaderRight, InCache

\* Nobody else is in the cache when a task goes on there.
LEMMA AloneInCache ==
  ASSUME NEW r \in Readers, NEW from, NEW to, ReaderGoes(r, from, to), ~readersMet',
         from \in {"look", "claim", "count", "fill"}
  PROVE  \A q \in Readers : q # r => ~InCache(q)
BY DEF ReaderGoes

\* The types a step of a task needs.
LEMMA CacheTypes ==
  ASSUME StoreTyped
  PROVE  /\ Places \in Nat \ {0}
         /\ store \in [1..Places -> [path : Paths \union {NoDoc}, val : Values \union {NoValue}]]
         /\ step \in [Readers -> ReaderSteps] /\ path \in [Readers -> Paths \union {NoDoc}]
         /\ item \in [Readers -> Values \union {NoValue}]
         /\ got \in [Readers -> Values \union {NoValue}]
         /\ entry \in [Readers -> 1..(Places + 1)] /\ filled \in 0..(Places + 1)
         /\ \A r \in Readers : step[r] # "idle" => path[r] \in Paths
BY StoreAssumption DEF StoreTyped, StoreTypeOK, ReaderHasPath

\* What ReadClaims, ReadCounts and ReadFills do to the cache.
LEMMA ClaimStep ==
  ASSUME StoreTyped, filled <= Places, NEW r \in Readers, ReadClaims(r)
  PROVE  /\ filled' \in 0..Places /\ filled' < Places /\ filled' <= filled
         /\ entry' = [entry EXCEPT ![r] = filled' + 1]
         /\ store' = [store EXCEPT ![filled' + 1].path = path[r]]
         /\ step' = [step EXCEPT ![r] = "count"] /\ step[r] = "claim"
         /\ UNCHANGED << path, item, got >>
<1> DEFINE used == IF filled >= Places THEN 0 ELSE filled
<1>1. /\ filled' = used /\ entry' = [entry EXCEPT ![r] = used + 1]
      /\ store' = [store EXCEPT ![used + 1].path = path[r]]
      /\ step' = [step EXCEPT ![r] = "count"] /\ step[r] = "claim"
      /\ UNCHANGED << path, item, got >>
  BY DEF ReadClaims, ReaderGoes
<1>2. used \in 0..Places /\ used < Places /\ used <= filled
  BY CacheTypes
<1> HIDE DEF used
<1> QED
  BY <1>1, <1>2

LEMMA ReaderStaysBounded ==
  ASSUME StoreTyped, StoreBounds, NEW r \in Readers, ReaderStep(r), ~readersMet'
  PROVE  StoreBounds'
<1>0. filled \in 0..Places
  BY CacheTypes DEF StoreBounds
<1> USE <1>0, CacheTypes DEF StoreBounds, OneFiller, RowOf, InCache
<1>1. CASE ReadAsks(r) \/ ReadHits(r) \/ ReadMisses(r) \/ ReadTakes(r) \/ ReadParses(r)
             \/ ReadFindsNothing(r)
  <2>1. PICK to \in {"look", "idle", "parse", "walk", "claim"} :
          step' = [step EXCEPT ![r] = to] /\ step[r] \in {"idle", "look", "parse", "walk"}
    BY <1>1 DEF ReadAsks, ReadHits, ReadMisses, ReadTakes, ReadParses, ReadFindsNothing, ReaderGoes
  <2>2. UNCHANGED << store, filled, entry >>
    BY <1>1 DEF ReadAsks, ReadHits, ReadMisses, ReadTakes, ReadParses, ReadFindsNothing
  <2>3. \A q \in Readers : q # r => path'[q] = path[q]
    BY <1>1 DEF ReadAsks, ReadHits, ReadMisses, ReadTakes, ReadParses, ReadFindsNothing
  <2> QED
    BY <2>1, <2>2, <2>3
<1>2. CASE ReadClaims(r)
  <2>3. \A q \in Readers : q # r => ~InCache(q)
    BY <1>2, AloneInCache DEF ReadClaims
  <2>1. /\ filled' \in 0..Places /\ filled' < Places
        /\ entry' = [entry EXCEPT ![r] = filled' + 1]
        /\ store' = [store EXCEPT ![filled' + 1].path = path[r]]
        /\ step' = [step EXCEPT ![r] = "count"] /\ path' = path
    BY <1>2, ClaimStep
  <2>2. filled' + 1 \in 1..Places
    BY <2>1
  <2>4. store'[filled' + 1].path = path[r]
    BY <2>1, <2>2
  <2>5. RowOf(r)'
    BY <2>1, <2>2, <2>4
  <2>6. \A q \in Readers : q # r => RowOf(q)'
    BY <2>1, <2>3
  <2>7. OneFiller'
    BY <2>1, <2>3
  <2> QED
    BY <2>1, <2>5, <2>6, <2>7
<1>3. CASE ReadCounts(r)
  <2>1. /\ filled' = filled + 1 /\ entry' = [entry EXCEPT ![r] = filled + 1]
        /\ step' = [step EXCEPT ![r] = "fill"] /\ step[r] = "count"
        /\ UNCHANGED << store, path, item, got >>
    BY <1>3 DEF ReadCounts, ReaderGoes
  <2>2. \A q \in Readers : q # r => ~InCache(q)
    BY <1>3, AloneInCache DEF ReadCounts
  <2>3. filled < Places /\ store[filled + 1].path = path[r]
    BY <2>1
  <2> QED
    BY <2>1, <2>2, <2>3
<1>4. CASE ReadFills(r)
  <2>1. /\ step' = [step EXCEPT ![r] = "idle"] /\ step[r] = "fill"
        /\ entry' = [entry EXCEPT ![r] = 1]
        /\ UNCHANGED << filled, path >>
    BY <1>4 DEF ReadFills, ReaderGoes
  <2>2. \A q \in Readers : q # r => ~InCache(q)
    BY <1>4, AloneInCache DEF ReadFills
  <2> QED
    BY <2>1, <2>2, NoRows
<1> QED
  BY <1>1, <1>2, <1>3, <1>4 DEF ReaderStep

LEMMA ReaderStaysRight ==
  ASSUME StoreTyped, StoreBounds, StoreRight, NEW r \in Readers, ReaderStep(r), ~readersMet',
         ~overread'
  PROVE  StoreRight'
<1>0. filled \in 0..Places
  BY CacheTypes DEF StoreBounds
<1>r. ram' = ram /\ ram \in AllDocs
  BY ReaderKeepsDocs DEF docVars, Booting, StoreTyped, StoreTypeOK
<1>v. \A p \in Paths : Cut(InRow(p), BufferSize) = InBuffer(p)
  BY <1>r, CutTwice DEF InRow, InBuffer
<1>n. NoDoc \notin AllDocs
  BY StoreAssumption DEF AllDocs
<1> USE <1>0, CacheTypes DEF StoreBounds, RowOf, StoreRight, RowsHold, Filling, ReaderRight, InCache
<1>1. CASE ReadAsks(r)
  <2>1. PICK p \in Paths : path' = [path EXCEPT ![r] = p]
    BY <1>1 DEF ReadAsks
  <2>2. /\ step' = [step EXCEPT ![r] = "look"] /\ step[r] = "idle"
        /\ got' = [got EXCEPT ![r] = NoValue]
        /\ UNCHANGED << store, filled, item, entry >>
    BY <1>1 DEF ReadAsks, ReaderGoes
  <2>3. RowsHold'
    BY <1>r, <2>2 DEF InRow
  <2>4. \A q \in Readers : ReaderRight(q)'
    BY <1>r, <2>1, <2>2 DEF Whole, InBuffer
  <2> QED
    BY <2>3, <2>4
<1>2. CASE ReadHits(r)
  <2>1. PICK i \in Rows(r) : i \in 1..Places
               /\ i = CHOOSE k \in Rows(r) : \A j \in Rows(r) : k <= j
    BY <1>2, FirstRow DEF ReadHits
  <2>2. got' = [got EXCEPT ![r] = Cut(store[i].val, BufferSize)]
    BY <1>2, <2>1 DEF ReadHits
  <2>3. /\ step' = [step EXCEPT ![r] = "idle"] /\ step[r] = "look"
        /\ UNCHANGED << store, filled, path, item, entry >>
    BY <1>2 DEF ReadHits, ReaderGoes
  <2>4. \A q \in Readers : ~InCache(q)
    <3>1. \A q \in Readers : q # r => ~InCache(q)
      BY <1>2, AloneInCache DEF ReadHits
    <3> QED
      BY <2>3, <3>1
  <2>5. store[i].val = InRow(path[r]) /\ path[r] \in Paths
    BY <2>1, <2>3, <2>4 DEF Rows
  <2>6. Cut(store[i].val, BufferSize) = InBuffer(path[r])
    BY <1>v, <2>5
  <2>7. RowsHold'
    BY <1>r, <2>3, <2>4 DEF InRow
  <2>8. \A q \in Readers : ReaderRight(q)'
    BY <1>r, <2>2, <2>3, <2>6 DEF Whole, InBuffer
  <2> QED
    BY <2>7, <2>8
<1>3. CASE ReadMisses(r) \/ ReadTakes(r) \/ ReadFindsNothing(r)
  <2>1. PICK to \in {"parse", "walk", "idle"} : step' = [step EXCEPT ![r] = to]
    BY <1>3 DEF ReadMisses, ReadTakes, ReadFindsNothing, ReaderGoes
  <2>2. UNCHANGED << store, filled, path, item, entry, got >> /\ step[r] # "fill"
    BY <1>3 DEF ReadMisses, ReadTakes, ReadFindsNothing, ReaderGoes
  <2>3. RowsHold'
    BY <1>r, <2>1, <2>2 DEF InRow
  <2>4. \A q \in Readers : ReaderRight(q)'
    BY <1>r, <2>1, <2>2 DEF Whole, InBuffer
  <2> QED
    BY <2>3, <2>4
<1>4. CASE ReadParses(r)
  <2>1. r \notin lost
    BY <1>4 DEF ReadParses, ReaderGoes
  <2>2. item' = [item EXCEPT ![r] = Whole(path[r])]
    BY <1>4, <2>1 DEF ReadParses, Whole
  <2>3. /\ step' = [step EXCEPT ![r] = "claim"] /\ step[r] = "walk"
        /\ UNCHANGED << store, filled, path, entry, got >>
    BY <1>4 DEF ReadParses, ReaderGoes
  <2>4. RowsHold'
    BY <1>r, <2>3 DEF InRow
  <2>5. \A q \in Readers : ReaderRight(q)'
    BY <1>r, <2>2, <2>3 DEF Whole, InBuffer
  <2> QED
    BY <2>4, <2>5
<1>5. CASE ReadClaims(r)
  <2>1. /\ filled' \in 0..Places /\ filled' < Places /\ filled' <= filled
        /\ entry' = [entry EXCEPT ![r] = filled' + 1]
        /\ store' = [store EXCEPT ![filled' + 1].path = path[r]]
        /\ step' = [step EXCEPT ![r] = "count"] /\ step[r] = "claim"
        /\ UNCHANGED << path, item, got >>
    BY <1>5, ClaimStep
  <2>2. \A q \in Readers : q # r => ~InCache(q)
    BY <1>5, AloneInCache DEF ReadClaims
  <2>3. \A i \in 1..Places : i <= filled' => store'[i] = store[i] /\ i <= filled
    BY <2>1
  <2>4. RowsHold'
    <3>1. \A i \in 1..Places : i <= filled => store[i].path \in Paths /\ store[i].val = InRow(store[i].path)
      BY <2>1, <2>2
    <3> QED
      BY <1>r, <2>3, <3>1 DEF InRow
  <2>5. \A q \in Readers : ReaderRight(q)'
    BY <1>r, <2>1 DEF Whole, InBuffer
  <2> QED
    BY <2>4, <2>5
<1>6. CASE ReadCounts(r)
  <2>1. /\ filled' = filled + 1 /\ entry' = [entry EXCEPT ![r] = filled + 1]
        /\ step' = [step EXCEPT ![r] = "fill"] /\ step[r] = "count"
        /\ UNCHANGED << store, path, item, got >>
    BY <1>6 DEF ReadCounts, ReaderGoes
  <2>2. \A q \in Readers : q # r => ~InCache(q)
    BY <1>6, AloneInCache DEF ReadCounts
  <2>3. RowsHold'
    <3>1. \A i \in 1..Places : i <= filled => store[i].path \in Paths /\ store[i].val = InRow(store[i].path)
      BY <2>1, <2>2
    <3>2. \A i \in 1..Places : i <= filled' => i <= filled \/ i = entry'[r]
      BY <2>1
    <3>3. step'[r] = "fill"
      BY <2>1
    <3>4. ASSUME NEW i \in 1..Places, i <= filled', ~Filling(i)' PROVE i <= filled
      BY <2>1, <3>2, <3>3, <3>4
    <3> QED
      BY <1>r, <2>1, <3>1, <3>4 DEF InRow
  <2>4. \A q \in Readers : ReaderRight(q)'
    BY <1>r, <2>1 DEF Whole, InBuffer
  <2> QED
    BY <2>3, <2>4
<1>7. CASE ReadFills(r)
  <2>1. /\ step' = [step EXCEPT ![r] = "idle"] /\ step[r] = "fill"
        /\ got' = [got EXCEPT ![r] = Cut(item[r], BufferSize)]
        /\ item' = [item EXCEPT ![r] = NoValue]
        /\ UNCHANGED << filled, path >>
    BY <1>7 DEF ReadFills, ReaderGoes
  <2>2. entry[r] = filled /\ filled \in 1..Places /\ store[filled].path = path[r]
        /\ item[r] = Whole(path[r]) /\ path[r] \in Paths
    BY <2>1
  <2>3. store' = [store EXCEPT ![filled].val = Cut(item[r], RowSize)]
    BY <1>7, <2>2 DEF ReadFills
  <2>4. \A q \in Readers : q # r => ~InCache(q)
    BY <1>7, AloneInCache DEF ReadFills
  <2>5. \A i \in 1..Places : i # filled => store'[i] = store[i]
    BY <2>3
  <2>6. store'[filled].val = InRow(path[r]) /\ store'[filled].path = path[r]
    BY <2>2, <2>3 DEF InRow, Whole
  <2>7. RowsHold'
    <3>1. \A i \in 1..Places : i <= filled /\ i # filled
              => store[i].path \in Paths /\ store[i].val = InRow(store[i].path)
      BY <2>1, <2>2, <2>4
    <3> QED
      BY <1>r, <2>1, <2>2, <2>5, <2>6, <3>1 DEF InRow
  <2>8. Cut(item[r], BufferSize) = InBuffer(path[r])
    BY <2>2 DEF Whole, InBuffer
  <2>9. \A q \in Readers : ReaderRight(q)'
    BY <1>r, <2>1, <2>4, <2>8 DEF Whole, InBuffer
  <2> QED
    BY <2>7, <2>9
<1> QED
  BY <1>1, <1>2, <1>3, <1>4, <1>5, <1>6, <1>7 DEF ReaderStep

LEMMA GetInvNext ==
  ASSUME GetInv, [StoreNext]_storeVars
  PROVE  GetInv'
<1>0. SavedInv /\ SavedInv' /\ StoreTyped /\ UpdateOnItsWay /\ NoneWhileBooting
      /\ (Answering => StoreBounds /\ (overread \/ StoreRight))
  BY SavedInvNext DEF GetInv, SavedInv
<1> SUFFICES NoneWhileBooting' /\ (Answering' => StoreBounds' /\ (overread' \/ StoreRight'))
  BY <1>0 DEF GetInv
<1>1. ASSUME NEW r \in Readers, ReaderStep(r)
      PROVE  NoneWhileBooting' /\ (Answering' => StoreBounds' /\ (overread' \/ StoreRight'))
  <2>1. UNCHANGED docVars /\ ~Booting /\ ~readersMet
    BY <1>1, ReaderKeepsDocs
  <2>2. ~Booting' /\ update' = update
    BY <2>1 DEF Booting, docVars
  <2>3. ~overread' => ~overread
    BY <1>1 DEF ReaderStep, ReadAsks, ReadHits, ReadMisses, ReadTakes, ReadParses,
       ReadFindsNothing, ReadClaims, ReadCounts, ReadFills, ReaderGoes
  <2>4. ASSUME Answering' PROVE StoreBounds' /\ (overread' \/ StoreRight')
    <3>1. Answering /\ ~readersMet'
      BY <2>1, <2>2, <2>4 DEF Answering
    <3>2. StoreBounds'
      BY <1>0, <1>1, <3>1, ReaderStaysBounded
    <3>3. ASSUME ~overread' PROVE StoreRight'
      BY <1>0, <1>1, <2>3, <3>1, <3>3, ReaderStaysRight
    <3> QED
      BY <3>2, <3>3
  <2> QED
    BY <2>2, <2>4 DEF NoneWhileBooting
<1>2. CASE BootStep
  <2>1. Booting /\ UNCHANGED << readerVars, update >> /\ ram' # NoDoc
    <3>1. Booting /\ update' = update /\ (ram' = Default \/ (ram' = stored /\ stored # NoDoc))
      BY <1>2 DEF BootStep, BootWithDefaults, BootFirstTime, BootUnreadable, BootLoads
    <3>2. UNCHANGED readerVars
      BY <1>2 DEF BootStep, BootWithDefaults, BootFirstTime, BootUnreadable, BootLoads
    <3> QED
      BY <3>1, <3>2, StoreAssumption
  <2>2. ~Booting'
    BY <2>1 DEF Booting
  <2>3. filled' = 0 /\ \A r \in Readers : step'[r] = "idle" /\ got'[r] = NoValue /\ entry'[r] = 1
    BY <1>0, <2>1 DEF NoneWhileBooting, readerVars
  <2>4. StoreBounds' /\ StoreRight'
    BY <2>3, NoRows DEF StoreBounds, OneFiller, RowOf, StoreRight, RowsHold, ReaderRight, InCache
  <2> QED
    BY <2>2, <2>4 DEF NoneWhileBooting
<1>6. CASE GetFrees \/ GetReplaces
  <2>1. UNCHANGED << store, filled, step, path, item, entry, got, readersMet, overread, ram >>
    BY <1>6 DEF GetFrees, GetReplaces, FreeText, readerVars
  <2>2. update \in {"idle", "copy"} /\ ~Booting
    BY <1>0, <1>6 DEF GetFrees, GetReplaces, UpdateGoes, UpdateOnItsWay
  <2>3. StoreBounds => StoreBounds'
    BY <2>1 DEF StoreBounds, OneFiller, RowOf
  <2>4. StoreRight => StoreRight'
    BY <2>1 DEF StoreRight, RowsHold, Filling, ReaderRight, InCache, Whole, InRow, InBuffer
  <2> QED
    BY <1>0, <2>1, <2>2, <2>3, <2>4 DEF NoneWhileBooting, Booting, Answering
<1>3. CASE UpdateStarts \/ UpdateSets \/ UpdateCommits \/ UpdateFrees \/ UpdateInstalls
             \/ UpdateSucceeds \/ UpdateFails
  <2>1. update' \notin {"idle", "copy"} /\ ~Booting
    BY <1>0, <1>3 DEF UpdateStarts, UpdateSets, UpdateCommits, UpdateFrees, UpdateInstalls,
       UpdateSucceeds, UpdateFails, UpdateGoes, UpdateOnItsWay
  <2>2. ~Booting'
    BY <1>0, <2>1 DEF SavedInv, UpdateOnItsWay
  <2> QED
    BY <2>1, <2>2 DEF NoneWhileBooting, Answering
<1>4. CASE StoreRestarts
  <2>1. filled' = 0 /\ \A r \in Readers : step'[r] = "idle" /\ got'[r] = NoValue /\ entry'[r] = 1
    BY <1>4 DEF StoreRestarts, NoReaders
  <2>2. StoreBounds' /\ StoreRight'
    BY <2>1, NoRows DEF StoreBounds, OneFiller, RowOf, StoreRight, RowsHold, ReaderRight, InCache
  <2> QED
    BY <2>1, <2>2 DEF NoneWhileBooting
<1>5. CASE UNCHANGED storeVars
  <2>1. UNCHANGED << store, filled, step, path, item, entry, got, readersMet, overread, ram, update >>
    BY <1>5 DEF storeVars, docVars, readerVars
  <2>2. StoreBounds => StoreBounds'
    BY <2>1 DEF StoreBounds, OneFiller, RowOf
  <2>3. StoreRight => StoreRight'
    BY <2>1 DEF StoreRight, RowsHold, Filling, ReaderRight, InCache, Whole, InRow, InBuffer
  <2> QED
    BY <1>0, <2>1, <2>2, <2>3 DEF NoneWhileBooting, Booting, Answering
<1> QED
  BY <1>1, <1>2, <1>3, <1>4, <1>5, <1>6 DEF StoreNext, BootStep, ReaderStep

\* While the page sends no new document and no two tasks meet in the cache, no row beyond
\* the array is used, and a task is given the value of its path cut to its own buffer,
\* unless some task went on in a text that was freed under it; for any number of tasks,
\* paths and places, and strings of any length.
THEOREM GettersAreRight == StoreSpec => []GettersAnswerRightly
<1>1. StoreInit => GetInv
  <2> SUFFICES ASSUME StoreInit PROVE GetInv
    OBVIOUS
  <2>1. SavedInv
    BY StoreTypedInit DEF StoreInit, SavedInv, UpdateOnItsWay, SavedSettingsSurvive
  <2>2. filled = 0 /\ \A r \in Readers : step[r] = "idle" /\ got[r] = NoValue /\ entry[r] = 1
    BY DEF StoreInit, NoReaders
  <2> QED
    BY <2>1, <2>2, EmptyIsRight DEF GetInv, NoneWhileBooting
<1>2. GetInv => GettersAnswerRightly
  BY DEF GetInv, Answering, StoreBounds, RowOf, StoreRight, ReaderRight, InBuffer,
     GettersAnswerRightly
<1> QED
  BY <1>1, <1>2, GetInvNext, PTL DEF StoreSpec
=============================================================================

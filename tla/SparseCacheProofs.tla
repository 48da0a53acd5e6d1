-------------------------- MODULE SparseCacheProofs --------------------------
(***************************************************************************)
(* Theorems about the disk cache, for any number of chunks and versions.   *)
(*                                                                         *)
(* What has to hold is a relation between the files as they are and as     *)
(* they were flushed last, in whatever state the program was killed: if    *)
(* their table is of a version that may still be opened, then every        *)
(* mixture of the tables fits every mixture of the packed files.           *)
(***************************************************************************)
EXTENDS SparseCache, FiniteSetTheorems, TLAPS

Cells == [version : 0..MaxVersion, chunk : 0..N]
Data == [cells : [Chunks -> Cells], size : 0..N]
Tables == [header : 0..MaxVersion, slots : [Chunks -> 0..N]]
Files(contents) == [now : contents, flushed : contents]

Loading == {"tail", "reset", "rewrite", "flushTable"}
Loaded == {"open", "writeSlot", "commit", "move", "storeVersion", "reopen"}
Downloading == {"publish", "storeFetched", "inPlace", "flushInPlace", "storeInPlace"}

TypeOK ==
    /\ packed \in Files(Data)
    /\ table \in Files(Tables)
    /\ archiveVersion \in 0..MaxVersion
    /\ inPlace \in BOOLEAN
    /\ session \in 0..MaxVersion
    /\ slots \in [Chunks -> 0..N]
    /\ complete \in BOOLEAN
    /\ writable \in BOOLEAN
    /\ pc \in {"closed", "local"} \cup Loading \cup Loaded \cup Downloading
    /\ arrived \in 0..N
    /\ fetched \in 0..MaxVersion
    /\ server \in Versions

\* Nothing is of a later version than what is served, played or fetched now.
Ages ==
    /\ pc \in Loading \cup Loaded <=> session # 0
    /\ pc \in Downloading => fetched # 0 /\ archiveVersion <= fetched
    /\ session <= server /\ fetched <= server
    /\ archiveVersion <= server
    /\ session # 0 => archiveVersion <= session
    /\ \A t \in {table.now, table.flushed} :
         t.header <= server /\ (session # 0 => t.header <= session)

\* The archive is whole, or empty, or has a hole that a download in place left.
Archives == {NoData, Holed} \cup {Whole(v) : v \in Versions}

Agrees(data) ==
    \A v \in Versions : data = Whole(v) /\ archiveVersion = server => v = server

ArchiveInv ==
    /\ archive \in Files(Archives)
    /\ archive.now # archive.flushed \/ Holed \in {archive.now, archive.flushed} => inPlace
    /\ Agrees(archive.now) /\ Agrees(archive.flushed)
    /\ pc \in {"storeVersion", "reopen"} \/ complete => archive = File(Whole(session))
    /\ pc = "reopen" \/ complete => archiveVersion = session
    /\ pc \in {"storeFetched", "storeInPlace"} => archive = File(Whole(fetched))
    /\ pc = "flushInPlace" => archive.now = Whole(fetched)
    /\ pc \in {"inPlace", "flushInPlace"} => inPlace
    /\ pc = "local" /\ fetched # 0 =>
         \A v \in Versions : archive.now = Whole(v) => v = fetched
    /\ pc = "move" => part.now = Whole(session)
    /\ pc = "publish" => part.now = Whole(fetched)

Empty == packed.now.size = 0 /\ packed.flushed.size = 0

\* The slots of the table are the first ones of the packed file.
Exact(t, data) ==
    /\ FirstSlots(t.slots)
    /\ Downloaded(t.slots) <= data.size

\* What the table says is in the packed file.
Holds(t, data) ==
    \A ci \in Present(t.slots) : data.cells[t.slots[ci]] = Bytes(t.header, ci)

OneLess(f, g) == f = g \/ \E c \in Chunks : f = [g EXCEPT ![c] = 0]

FilesAgree ==
    \/ Empty
    \/ /\ table.flushed.header = table.now.header
       /\ table.now.header \in {server, session} \ {0} =>
            /\ \A t \in {table.now, table.flushed} :
                 \A data \in {packed.now, packed.flushed} : Exact(t, data) /\ Holds(t, data)
            /\ OneLess(table.flushed.slots, table.now.slots)

\* The table in memory is the one that was flushed last.
MemoryAgrees ==
    /\ pc \in Loaded /\ ~complete =>
         /\ table.now.header = session /\ table.flushed.header = session
         /\ slots = table.flushed.slots
         /\ Exact(table.flushed, packed.now) /\ Exact(table.flushed, packed.flushed)
         /\ writable /\ pc # "commit" => table.now = table.flushed
    /\ pc \notin Loaded => slots = NoSlots /\ ~complete
    /\ complete => pc = "open" /\ Present(slots) = Chunks

\* The steps of opening, writing and promoting.
StepsAgree ==
    /\ pc = "tail" => Consistent(table.now, packed.now, session)
    /\ pc = "reset" => ~Consistent(table.now, packed.now, session)
    /\ pc \in {"rewrite", "flushTable"} => packed.now.size = 0
    /\ pc = "flushTable" => Empty /\ table.now = [header |-> session, slots |-> NoSlots]
    /\ pc \in {"writeSlot", "commit"} =>
         writable /\ arrived \in Chunks /\ slots[arrived] = 0
    /\ pc = "writeSlot" =>
         packed.now.size = NextSlot /\ packed.now.cells[NextSlot] = Bytes(session, arrived)
    /\ pc = "commit" =>
         /\ packed.now = packed.flushed /\ packed.now.size = NextSlot
         /\ table.now.slots = [slots EXCEPT ![arrived] = NextSlot]
    /\ pc \in {"move", "storeVersion", "reopen"} => Present(slots) = Chunks

IInv == TypeOK /\ Ages /\ ArchiveInv /\ FilesAgree /\ MemoryAgrees /\ StepsAgree

-----------------------------------------------------------------------------
(* Tables of slots.                                                        *)

LEMMA DownloadedType ==
    ASSUME NEW s \in [Chunks -> 0..N]
    PROVE  /\ IsFiniteSet(Present(s))
           /\ Downloaded(s) \in 0..N
           /\ Downloaded(s) = N => Present(s) = Chunks
<1>1. IsFiniteSet(Chunks) /\ Cardinality(Chunks) = N
  BY FS_Interval, SparseCacheConstants DEF Chunks
<1>2. Present(s) \in SUBSET Chunks
  BY DEF Present
<1>3. IsFiniteSet(Present(s)) /\ Cardinality(Present(s)) <= N
      /\ (Cardinality(Present(s)) = N => Present(s) = Chunks)
  BY <1>1, <1>2, FS_Subset
<1> QED BY <1>3, FS_CardinalityType, SparseCacheConstants DEF Downloaded

LEMMA NothingDownloaded ==
    /\ NoSlots \in [Chunks -> 0..N]
    /\ Present(NoSlots) = {}
    /\ Downloaded(NoSlots) = 0
<1>1. NoSlots \in [Chunks -> 0..N] /\ Present(NoSlots) = {}
  BY SparseCacheConstants DEF NoSlots, Present
<1> QED BY <1>1, FS_EmptySet DEF Downloaded

\* A chunk that is present is in a slot of the packed file.
LEMMA SlotsWithin ==
    ASSUME NEW t \in Tables, NEW data \in Data, Exact(t, data), NEW ci \in Present(t.slots)
    PROVE  t.slots[ci] \in 1..Downloaded(t.slots) /\ t.slots[ci] <= data.size
           /\ t.slots[ci] \in Chunks
<1>1. t.slots \in [Chunks -> 0..N] /\ data.size \in 0..N
  BY DEF Tables, Data
<1>2. Downloaded(t.slots) \in 0..N
  BY <1>1, DownloadedType
<1>3. t.slots[ci] \in 1..Downloaded(t.slots)
  BY DEF Exact, FirstSlots
<1> QED BY <1>1, <1>2, <1>3, SparseCacheConstants DEF Exact, Chunks

LEMMA ImageWithOne ==
    ASSUME NEW S, NEW c, NEW n, NEW f, NEW g, g[c] = n, \A x \in S : g[x] = f[x]
    PROVE  {g[x] : x \in S \cup {c}} = {f[x] : x \in S} \cup {n}
OBVIOUS

\* The next slot of the table is free.
LEMMA AddSlot ==
    ASSUME NEW s \in [Chunks -> 0..N], NEW c \in Chunks, s[c] = 0, FirstSlots(s),
           NEW n, n = Downloaded(s) + 1, NEW more, more = [s EXCEPT ![c] = n]
    PROVE  /\ n \in Chunks
           /\ more \in [Chunks -> 0..N]
           /\ Present(more) = Present(s) \cup {c}
           /\ Downloaded(more) = n
           /\ FirstSlots(more)
           /\ s = [more EXCEPT ![c] = 0]
<1>1. IsFiniteSet(Present(s)) /\ Downloaded(s) \in 0..N /\ c \notin Present(s)
      /\ Present(s) \subseteq Chunks
  BY DownloadedType DEF Present
<1>2. Downloaded(s) # N
  BY <1>1, DownloadedType
<1>3. n \in 1..N
  BY <1>1, <1>2, SparseCacheConstants
<1>4. more \in [Chunks -> 0..N]
  BY <1>3, SparseCacheConstants
<1>5. Present(more) = Present(s) \cup {c}
  BY <1>1, <1>3, SparseCacheConstants DEF Present
<1>6. Downloaded(more) = n
  <2>1. Cardinality(Present(s) \cup {c}) = Cardinality(Present(s)) + 1
    BY <1>1, FS_AddElement
  <2> QED BY <1>5, <2>1 DEF Downloaded
<1>7. {more[ci] : ci \in Present(more)} = {s[ci] : ci \in Present(s)} \cup {n}
  <2>1. more[c] = n /\ \A ci \in Present(s) : more[ci] = s[ci]
    BY <1>1
  <2>2. {more[ci] : ci \in Present(s) \cup {c}} = {s[ci] : ci \in Present(s)} \cup {n}
    BY <2>1, ImageWithOne
  <2> QED BY <1>5, <2>2
<1>8. FirstSlots(more)
  <2>1. (1..Downloaded(s)) \cup {n} = 1..n
    BY <1>1
  <2> QED BY <1>6, <1>7, <2>1 DEF FirstSlots
<1>9. s = [more EXCEPT ![c] = 0]
  OBVIOUS
<1> QED BY <1>3, <1>4, <1>5, <1>6, <1>8, <1>9 DEF Chunks

-----------------------------------------------------------------------------
(* Files.                                                                  *)

LEMMA FileTypes ==
    /\ \A v \in Versions, ci \in Chunks : Bytes(v, ci) \in Cells
    /\ Torn \in Cells
    /\ NoData \in Data
    /\ NoTable \in Tables
    /\ \A v \in Versions : Whole(v) \in Data
    /\ \A data \in Data, n \in 0..N : Truncated(data, n) \in Data
<1>1. Versions \subseteq 0..MaxVersion /\ Chunks \subseteq 0..N /\ 0 \in 0..N /\ N \in 0..N
      /\ 0 \in 0..MaxVersion
  BY SparseCacheConstants DEF Versions, Chunks
<1>2. \A v \in 0..MaxVersion, ci \in 0..N : Bytes(v, ci) \in Cells
  BY DEF Bytes, Cells
<1>3. Torn \in Cells
  BY <1>1, <1>2 DEF Torn
<1>4. NoData \in Data
  BY <1>1, <1>3 DEF NoData, NoCells, Data
<1>5. NoTable \in Tables
  BY <1>1, NothingDownloaded DEF NoTable, Tables
<1>6. ASSUME NEW v \in Versions PROVE Whole(v) \in Data
  BY <1>1, <1>2 DEF Whole, Data
<1>7. ASSUME NEW data \in Data, NEW n \in 0..N PROVE Truncated(data, n) \in Data
  BY <1>3 DEF Truncated, Data
<1> QED BY <1>1, <1>2, <1>3, <1>4, <1>5, <1>6, <1>7

\* What is left of a packed file: as long as one of the two, and each cell in
\* it from one of them, or torn where they differ.
LEMMA SurvivingData ==
    ASSUME NEW file \in Files(Data), NEW left \in DataSurvivors(file)
    PROVE  /\ left.now = left.flushed /\ left \in Files(Data)
           /\ \/ file.flushed.size <= left.now.size /\ left.now.size <= file.now.size
              \/ file.now.size <= left.now.size /\ left.now.size <= file.flushed.size
           /\ \A k \in Chunks : k <= left.now.size =>
                left.now.cells[k] \in Leftovers(file.flushed.cells[k], file.now.cells[k], Torn)
<1>1. PICK c \in Mixtures(file.flushed.cells, file.now.cells, Torn),
           n \in Between(file.flushed.size, file.now.size) :
         left = File(Truncated([cells |-> c], n))
  BY DEF DataSurvivors
<1>2. /\ c \in [Chunks -> UNION {Leftovers(file.flushed.cells[i], file.now.cells[i], Torn) : i \in Chunks}]
      /\ \A i \in Chunks : c[i] \in Leftovers(file.flushed.cells[i], file.now.cells[i], Torn)
  BY DEF Mixtures
<1>3. \A i \in Chunks : c[i] \in Cells
  BY <1>2, FileTypes DEF Leftovers, Files, Data
<1>4. n \in 0..N
  BY DEF Between
<1>5. Truncated([cells |-> c], n) \in Data
  BY <1>3, <1>4, FileTypes DEF Truncated, Data
<1>6. left.now = Truncated([cells |-> c], n) /\ left.flushed = left.now /\ left \in Files(Data)
  BY <1>1, <1>5 DEF File, Files
<1>7. left.now.size = n /\ \A k \in Chunks : k <= n => left.now.cells[k] = c[k]
  BY <1>6 DEF Truncated
<1>8. \/ file.flushed.size <= n /\ n <= file.now.size
      \/ file.now.size <= n /\ n <= file.flushed.size
  BY DEF Between
<1> QED BY <1>2, <1>6, <1>7, <1>8

LEMMA SurvivingTable ==
    ASSUME NEW file \in Files(Tables), NEW left \in TableSurvivors(file)
    PROVE  /\ left.now = left.flushed /\ left \in Files(Tables)
           /\ left.now.header \in Leftovers(file.flushed.header, file.now.header, 0)
           /\ \A i \in Chunks :
                left.now.slots[i] \in Leftovers(file.flushed.slots[i], file.now.slots[i], 0)
<1>1. PICK h \in Leftovers(file.flushed.header, file.now.header, 0),
           s \in Mixtures(file.flushed.slots, file.now.slots, 0) :
         left = File([header |-> h, slots |-> s])
  BY DEF TableSurvivors
<1>2. /\ s \in [Chunks -> UNION {Leftovers(file.flushed.slots[i], file.now.slots[i], 0) : i \in Chunks}]
      /\ \A i \in Chunks : s[i] \in Leftovers(file.flushed.slots[i], file.now.slots[i], 0)
  BY DEF Mixtures
<1>3. \A i \in Chunks : s[i] \in 0..N
  BY <1>2, SparseCacheConstants DEF Leftovers, Files, Tables
<1>4. h \in 0..MaxVersion /\ s \in [Chunks -> 0..N]
  BY <1>2, <1>3, SparseCacheConstants DEF Leftovers, Files, Tables
<1> QED BY <1>1, <1>2, <1>4 DEF File, Files, Tables

\* The archives that there may be are told apart.
LEMMA ArchiveKinds ==
    /\ ~HasZipEocd(NoData)
    /\ \A v \in Versions : Whole(v) # NoData /\ Whole(v) # Holed
    /\ \A v, u \in Versions : Whole(v) = Whole(u) => v = u
    /\ NoData # Holed
    /\ \A v \in Versions : Whole(v).size = N
<1>1. N \in Chunks /\ N # 0 /\ 0 \notin Versions
  BY SparseCacheConstants DEF Chunks, Versions
<1>2. ~HasZipEocd(NoData)
  BY SparseCacheConstants DEF HasZipEocd, NoData
<1>3. \A v \in Versions : Whole(v).size = N /\ Whole(v).cells[N] = Bytes(v, N)
  BY <1>1 DEF Whole
<1>4. \A v, u \in 0..MaxVersion : Bytes(v, N) = Bytes(u, N) => v = u
  BY DEF Bytes
<1>5. Holed.size = N /\ Holed.cells[N] = Bytes(0, N)
  BY <1>1 DEF Holed, NoCells
<1>6. NoData.size = 0
  BY DEF NoData
<1> QED BY <1>1, <1>2, <1>3, <1>4, <1>5, <1>6, SparseCacheConstants DEF Versions

-----------------------------------------------------------------------------
(* The types and the ages.                                                 *)

LEMMA Starts == Init => IInv
<1> SUFFICES ASSUME Init PROVE IInv
  OBVIOUS
<1>1. TypeOK
  <2>1. File(NoData) \in Files(Data) /\ File(NoTable) \in Files(Tables)
    BY FileTypes DEF File, Files
  <2>2. 1 \in Versions /\ 0 \in 0..N /\ 0 \in 0..MaxVersion
    BY SparseCacheConstants DEF Versions
  <2> QED BY <2>1, <2>2, NothingDownloaded DEF Init, TypeOK
<1>2. Ages
  BY DEF Init, Ages, Loading, Loaded, Downloading, File, NoTable
<1>3. ArchiveInv
  BY ArchiveKinds DEF Init, ArchiveInv, Archives, Agrees, NoArchive, File, Files
<1>4. FilesAgree
  BY DEF Init, FilesAgree, Empty, File, NoData
<1>5. MemoryAgrees /\ StepsAgree
  BY DEF Init, MemoryAgrees, StepsAgree, Loaded
<1> QED BY <1>1, <1>2, <1>3, <1>4, <1>5 DEF IInv

LEMMA TypesKept == IInv /\ [Next]_vars => TypeOK'
<1> SUFFICES ASSUME TypeOK, Ages, StepsAgree, MemoryAgrees, [Next]_vars
             PROVE  TypeOK'
  BY DEF IInv
<1> USE DEF Loading, Loaded, Downloading
<1>1. /\ File(NoData) \in Files(Data)
      /\ File(NoTable) \in Files(Tables)
      /\ \A f \in Files(Data), data \in Data : Put(f, data) \in Files(Data)
      /\ \A f \in Files(Tables), t \in Tables : Put(f, t) \in Files(Tables)
      /\ \A f \in Files(Data) : Flush(f) \in Files(Data)
      /\ \A f \in Files(Tables) : Flush(f) \in Files(Tables)
  BY FileTypes DEF File, Files, Put, Flush
<1>2. 0 \in 0..N /\ 0 \in 0..MaxVersion /\ Versions \subseteq 0..MaxVersion
  BY SparseCacheConstants DEF Versions
<1>3. \A v \in 0..MaxVersion : [header |-> v, slots |-> NoSlots] \in Tables
  BY NothingDownloaded DEF Tables
<1>4. \A v \in Versions : Opened(v) => TypeOK'
                          \/ (inPlace' \notin BOOLEAN)
  BY <1>1, <1>2, NothingDownloaded DEF TypeOK, Opened
<1>5. CASE UNCHANGED vars
  BY <1>5 DEF TypeOK, vars, fileVars, archiveVars, memoryVars
<1>6. CASE OpenArchive \/ LoaderFails \/ Launch \/ Restart
  <2>1. CASE OpenArchive
    BY <2>1, <1>2 DEF OpenArchive, TypeOK, fileVars, archiveVars
  <2>2. CASE LoaderFails
    BY <2>2, <1>2 DEF LoaderFails, Discard, TypeOK
  <2>3. CASE Launch
    BY <2>3, <1>4 DEF Launch, Discard, TypeOK
  <2>4. CASE Restart
    BY <2>4, <1>4 DEF Restart, TypeOK
  <2> QED BY <1>6, <2>1, <2>2, <2>3, <2>4
<1>7. CASE KeepTable \/ ResetData \/ RewriteTable \/ FlushTable
  <2>1. CASE KeepTable
    <3>1. table.now.slots \in [Chunks -> 0..N] /\ packed.now \in Data
      BY DEF TypeOK, Files, Tables
    <3>2. Truncated(packed.now, Downloaded(table.now.slots)) \in Data
      BY <3>1, DownloadedType, FileTypes
    <3> QED BY <2>1, <1>1, <3>1, <3>2 DEF KeepTable, Step, TypeOK, archiveVars
  <2>2. CASE ResetData
    BY <2>2, <1>1, FileTypes DEF ResetData, Step, TypeOK, archiveVars, memoryVars
  <2>3. CASE RewriteTable
    BY <2>3, <1>1, <1>3 DEF RewriteTable, Step, TypeOK, archiveVars, memoryVars
  <2>4. CASE FlushTable
    BY <2>4, <1>1, NothingDownloaded DEF FlushTable, Step, TypeOK, archiveVars
  <2> QED BY <1>7, <2>1, <2>2, <2>3, <2>4
<1>8. ASSUME NEW ci \in Chunks, WriteData(ci) PROVE TypeOK'
  <2>1. slots = table.flushed.slots /\ Exact(table.flushed, packed.now) /\ slots[ci] = 0
    <3>1. ~complete
      BY <1>8 DEF WriteData, MemoryAgrees, Has, Present
    <3>2. slots[ci] = 0
      BY <1>8, SparseCacheConstants DEF WriteData, Has, TypeOK
    <3> QED BY <1>8, <3>1, <3>2 DEF WriteData, Step, MemoryAgrees
  <2>2. NextSlot \in Chunks /\ NextSlot \in 0..N
    <3>1. slots \in [Chunks -> 0..N] /\ FirstSlots(slots)
      BY <2>1 DEF Exact, TypeOK
    <3>2. NextSlot \in Chunks
      BY <2>1, <3>1, AddSlot DEF NextSlot
    <3> QED BY <3>2, SparseCacheConstants DEF Chunks
  <2>3. Bytes(session, ci) \in Cells /\ ci \in 0..N
    <3>1. session \in Versions
      BY <1>8, SparseCacheConstants DEF WriteData, Step, Ages, TypeOK, Versions
    <3>2. ci \in 0..N
      BY SparseCacheConstants DEF Chunks
    <3> QED BY <3>1, <3>2, FileTypes
  <2>4. packed' \in Files(Data)
    BY <1>8, <2>2, <2>3 DEF WriteData, TypeOK, Files, Data
  <2> QED BY <1>8, <2>3, <2>4 DEF WriteData, Step, TypeOK, archiveVars
<1>9. CASE WriteSlot \/ Commit \/ WriteFails
  <2>1. CASE WriteSlot
    <3>1. NextSlot \in 0..N
      BY <2>1, SparseCacheConstants DEF WriteSlot, Step, StepsAgree, TypeOK, Files, Data
    <3>2. [table.now EXCEPT !.slots[arrived] = NextSlot] \in Tables
      BY <3>1 DEF TypeOK, Files, Tables
    <3> QED BY <2>1, <1>1, <3>2 DEF WriteSlot, Step, TypeOK, archiveVars, memoryVars
  <2>2. CASE Commit
    <3>1. slots' = table.now.slots
      BY <2>2 DEF Commit, Step, StepsAgree
    <3> QED BY <2>2, <1>1, <1>2, <3>1 DEF Commit, Step, TypeOK, archiveVars, Files, Tables
  <2>3. CASE WriteFails
    BY <2>3, <1>2 DEF WriteFails, TypeOK, fileVars, archiveVars
  <2> QED BY <1>9, <2>1, <2>2, <2>3
<1>10. CASE Promote \/ Move \/ StoreVersion \/ Reopen \/ PromotionFails
  <2>1. CASE Promote
    BY <2>1 DEF Promote, Step, TypeOK, archiveVars, memoryVars
  <2>2. CASE Move
    BY <2>2 DEF Move, Step, TypeOK, memoryVars
  <2>3. CASE StoreVersion
    BY <2>3 DEF StoreVersion, Step, TypeOK, memoryVars
  <2>4. CASE Reopen
    BY <2>4, <1>1 DEF Reopen, Step, TypeOK, archiveVars
  <2>5. CASE PromotionFails
    BY <2>5 DEF PromotionFails, TypeOK, fileVars, archiveVars, memoryVars
  <2> QED BY <1>10, <2>1, <2>2, <2>3, <2>4, <2>5
<1>11. CASE DownloadPart \/ Publish \/ StoreFetched
  BY <1>11, <1>2 DEF DownloadPart, Publish, StoreFetched, Step, Discard, TypeOK, memoryVars
<1>12. CASE DownloadInPlace \/ WriteInPlace \/ FlushInPlace \/ StoreInPlace \/ InPlaceFails
  BY <1>12, <1>2 DEF DownloadInPlace, WriteInPlace, FlushInPlace, StoreInPlace, InPlaceFails,
                     Step, TypeOK, fileVars, archiveVars, memoryVars
<1>13. CASE TabDies \/ MachineStops
  <2>1. MachineStops => packed' \in Files(Data) /\ table' \in Files(Tables)
    BY SurvivingData, SurvivingTable DEF MachineStops, TypeOK
  <2>2. MachineStops => inPlace' \in BOOLEAN
    BY DEF MachineStops
  <2> QED BY <1>13, <1>2, <2>1, <2>2, NothingDownloaded DEF TabDies, MachineStops, Closed, TypeOK
<1>14. CASE Evict
  BY <1>14, <1>1, <1>2 DEF Evict, Discard, TypeOK, archiveVars, memoryVars
<1>15. CASE Upgrade
  BY <1>15, SparseCacheConstants DEF Upgrade, TypeOK, Versions, fileVars, archiveVars, memoryVars
<1> QED BY <1>5, <1>6, <1>7, <1>8, <1>9, <1>10, <1>11, <1>12, <1>13, <1>14, <1>15 DEF Next

LEMMA AgesKept == IInv /\ [Next]_vars => Ages'
<1> SUFFICES ASSUME TypeOK, Ages, [Next]_vars
             PROVE  Ages'
  BY DEF IInv
<1> USE DEF Loading, Loaded, Downloading, Ages
<1>1. /\ session \in Int /\ fetched \in Int /\ archiveVersion \in Int
      /\ server \in Int /\ server >= 1
      /\ table.now.header \in Int /\ table.flushed.header \in Int
      /\ table.now.header >= 0 /\ table.flushed.header >= 0
      /\ table = [now |-> table.now, flushed |-> table.flushed]
      /\ session >= 0 /\ fetched >= 0 /\ archiveVersion >= 0
  BY SparseCacheConstants DEF TypeOK, Versions, Files, Tables
<1>2. CASE UNCHANGED vars
  BY <1>2 DEF vars, fileVars, archiveVars, memoryVars
<1>3. CASE OpenArchive \/ LoaderFails \/ Launch \/ Restart
  <2>1. CASE OpenArchive
    BY <2>1, <1>1 DEF OpenArchive, fileVars, archiveVars
  <2>2. CASE LoaderFails
    BY <2>2, <1>1 DEF LoaderFails
  <2>3. Opened(server) => Ages'
    BY <1>1 DEF Opened
  <2> QED BY <1>3, <2>1, <2>2, <2>3 DEF Launch, Restart
<1>4. CASE KeepTable \/ ResetData \/ RewriteTable \/ FlushTable
  <2>1. session' = session /\ server' = server /\ fetched' = fetched
        /\ archiveVersion' = archiveVersion
    BY <1>4 DEF KeepTable, ResetData, RewriteTable, FlushTable, Step, archiveVars, memoryVars
  <2>2. pc \in Loading /\ pc' \in Loading \cup Loaded
    BY <1>4 DEF KeepTable, ResetData, RewriteTable, FlushTable, Step
  <2>3. /\ table'.now.header \in {table.now.header, session}
        /\ table'.flushed.header \in {table.now.header, table.flushed.header}
    BY <1>1, <1>4 DEF KeepTable, ResetData, RewriteTable, FlushTable, Put, Flush, File
  <2> QED BY <1>1, <2>1, <2>2, <2>3
<1>5. ASSUME NEW ci \in Chunks, WriteData(ci) PROVE Ages'
  BY <1>1, <1>5 DEF WriteData, Step, archiveVars
<1>6. CASE WriteSlot \/ Commit \/ WriteFails
  <2>1. session' = session /\ server' = server /\ fetched' = fetched
        /\ archiveVersion' = archiveVersion
    BY <1>6 DEF WriteSlot, Commit, WriteFails, Step, archiveVars, memoryVars, fileVars
  <2>2. pc \in Loaded /\ pc' \in Loaded
    BY <1>6 DEF WriteSlot, Commit, WriteFails, Step
  <2>3. /\ table'.now.header = table.now.header
        /\ table'.flushed.header \in {table.now.header, table.flushed.header}
    <3>1. CASE WriteSlot
      BY <1>1, <3>1 DEF WriteSlot, TypeOK, Files, Tables, Put
    <3>2. CASE Commit
      BY <1>1, <3>2 DEF Commit, Flush, File
    <3>3. CASE WriteFails
      BY <1>1, <3>3 DEF WriteFails, fileVars
    <3> QED BY <1>6, <3>1, <3>2, <3>3
  <2> QED BY <1>1, <2>1, <2>2, <2>3
<1>7. CASE Promote \/ Move \/ StoreVersion \/ Reopen \/ PromotionFails
  <2>1. session' = session /\ server' = server /\ fetched' = fetched
        /\ archiveVersion' \in {archiveVersion, session}
    BY <1>7 DEF Promote, Move, StoreVersion, Reopen, PromotionFails, Step, archiveVars,
                memoryVars, fileVars
  <2>2. pc \in Loaded /\ pc' \in Loaded
    BY <1>7 DEF Promote, Move, StoreVersion, Reopen, PromotionFails, Step
  <2>3. table' \in {table, File(NoTable)}
    BY <1>7 DEF Promote, Move, StoreVersion, Reopen, PromotionFails, fileVars
  <2> QED BY <1>1, <2>1, <2>2, <2>3 DEF File, NoTable
<1>8. CASE DownloadPart \/ Publish \/ StoreFetched
  BY <1>1, <1>8 DEF DownloadPart, Publish, StoreFetched, Step, memoryVars
<1>9. CASE DownloadInPlace \/ WriteInPlace \/ FlushInPlace \/ StoreInPlace \/ InPlaceFails
  BY <1>1, <1>9 DEF DownloadInPlace, WriteInPlace, FlushInPlace, StoreInPlace, InPlaceFails,
                    Step, fileVars, archiveVars, memoryVars
<1>10. CASE TabDies \/ MachineStops
  <2>1. CASE TabDies
    BY <1>1, <2>1 DEF TabDies, Closed
  <2>2. CASE MachineStops
    <3>1. table' \in TableSurvivors(table)
      BY <2>2 DEF MachineStops
    <3>2. /\ table'.now.header \in {table.now.header, table.flushed.header, 0}
          /\ table'.flushed = table'.now
      BY <3>1, SurvivingTable DEF TypeOK, Leftovers
    <3> QED BY <1>1, <2>2, <3>2 DEF MachineStops, Closed
  <2> QED BY <1>10, <2>1, <2>2
<1>11. CASE Evict
  <2>1. table' \in {table, File(NoTable)} /\ archiveVersion' \in {archiveVersion, 0}
    BY <1>11 DEF Evict, archiveVars
  <2> QED BY <1>1, <1>11, <2>1 DEF Evict, File, NoTable, memoryVars
<1>12. CASE Upgrade
  BY <1>1, <1>12 DEF Upgrade, fileVars, archiveVars, memoryVars
<1> QED BY <1>2, <1>3, <1>4, <1>5, <1>6, <1>7, <1>8, <1>9, <1>10, <1>11, <1>12 DEF Next

-----------------------------------------------------------------------------
(* What is present is right, which promotion rests on.                     *)

LEMMA Right == IInv => PresentIsRight
<1> SUFFICES ASSUME IInv, NEW ci \in Chunks, Has(ci)
             PROVE  (IF complete THEN archive.now.cells[ci]
                                 ELSE packed.now.cells[slots[ci]]) = Bytes(session, ci)
  BY DEF PresentIsRight
<1>1. ci \in Present(slots)
  BY DEF Has, Present
<1>2. pc \in Loaded
  BY <1>1, NothingDownloaded DEF IInv, MemoryAgrees
<1>3. CASE complete
  <2>1. archive.now = Whole(session)
    BY <1>3 DEF IInv, ArchiveInv, File
  <2> QED BY <1>3, <2>1 DEF Whole
<1>4. CASE ~complete
  <2>1. /\ table.now.header = session /\ table.flushed.header = session
        /\ slots = table.flushed.slots /\ Exact(table.flushed, packed.now)
    BY <1>2, <1>4 DEF IInv, MemoryAgrees
  <2>2. session # 0
    BY <1>2 DEF IInv, Ages
  <2>3. packed.now \in Data /\ table.flushed \in Tables
    BY DEF IInv, TypeOK, Files
  <2>4. slots[ci] \in 1..Downloaded(slots) /\ slots[ci] <= packed.now.size
    BY <1>1, <2>1, <2>3, SlotsWithin
  <2>5. slots[ci] >= 1 /\ packed.now.size # 0
    BY <2>3, <2>4 DEF Data
  <2>6. Holds(table.flushed, packed.now)
    BY <2>1, <2>2, <2>5 DEF IInv, FilesAgree, Empty
  <2> QED BY <1>1, <1>4, <2>1, <2>6 DEF Holds
<1> QED BY <1>3, <1>4

-----------------------------------------------------------------------------
(* The archive.                                                            *)

LEMMA ArchiveKept == IInv /\ [Next]_vars => ArchiveInv'
<1> SUFFICES ASSUME IInv, [Next]_vars
             PROVE  ArchiveInv'
  OBVIOUS
<1> USE DEF IInv, Loading, Loaded, Downloading, ArchiveInv
<1>1. /\ session \in Int /\ fetched \in Int /\ archiveVersion \in Int /\ server \in Int
      /\ session \in 0..MaxVersion /\ fetched \in 0..MaxVersion /\ server \in Versions
      /\ server # 0
      /\ \A v \in 0..MaxVersion : v # 0 => v \in Versions
      /\ archive = [now |-> archive.now, flushed |-> archive.flushed]
      /\ archive.now \in Archives /\ archive.flushed \in Archives
  BY SparseCacheConstants DEF TypeOK, Versions, Files
<1>2. /\ NoArchive \in Files(Archives) /\ NoArchive.now = NoData /\ NoArchive.flushed = NoData
      /\ \A v \in Versions : File(Whole(v)) \in Files(Archives)
      /\ File(Holed) \in Files(Archives)
  BY DEF NoArchive, File, Files, Archives
<1>3. Agrees(NoData) /\ Agrees(Holed) /\ Agrees(NoData)' /\ Agrees(Holed)'
  BY ArchiveKinds DEF Agrees
<1>4. ASSUME Discard PROVE
        /\ archive' \in Files(Archives)
        /\ archive'.now # archive'.flushed \/ Holed \in {archive'.now, archive'.flushed} => inPlace'
        /\ archive' \in {archive, NoArchive}
  BY <1>1, <1>2, <1>4, ArchiveKinds DEF Discard
<1>5. ASSUME archive' \in {archive, NoArchive}, archiveVersion' = archiveVersion, server' = server
      PROVE  Agrees(archive.now)' /\ Agrees(archive.flushed)'
  BY <1>2, <1>3, <1>5 DEF Agrees
<1>6. CASE UNCHANGED vars
  BY <1>6, <1>5 DEF vars, fileVars, archiveVars, memoryVars
<1>7. CASE OpenArchive \/ LoaderFails \/ Launch \/ Restart
  <2>1. CASE OpenArchive
    <3>1. fetched' # 0 => \A v \in Versions : archive.now = Whole(v) => v = fetched'
      BY <2>1 DEF OpenArchive, MatchesServer, Agrees
    <3>2. ~complete
      BY <2>1 DEF OpenArchive, MemoryAgrees
    <3> QED BY <2>1, <3>1, <3>2, <1>5 DEF OpenArchive, fileVars, archiveVars
  <2>2. CASE LoaderFails
    <3>2. ~complete
      BY <2>2 DEF LoaderFails, MemoryAgrees
    <3> QED BY <2>2, <3>2, <1>4, <1>5 DEF LoaderFails
  <2>3. CASE Launch
    BY <2>3, <1>4, <1>5 DEF Launch, Opened
  <2>4. CASE Restart
    BY <2>4, <1>5 DEF Restart, Opened
  <2> QED BY <1>7, <2>1, <2>2, <2>3, <2>4
<1>8. ASSUME UNCHANGED <<archiveVars, session, fetched, server>>,
             complete' = complete,
             pc' \in Loading \cup (Loaded \ {"move", "storeVersion", "reopen"})
      PROVE  ArchiveInv'
  BY <1>5, <1>8 DEF archiveVars
<1>9. CASE KeepTable \/ ResetData \/ RewriteTable \/ FlushTable
  BY <1>8, <1>9 DEF KeepTable, ResetData, RewriteTable, FlushTable, Step, archiveVars, memoryVars
<1>10. CASE (\E ci \in Chunks : WriteData(ci)) \/ WriteSlot \/ Commit \/ WriteFails \/ PromotionFails
  BY <1>8, <1>10 DEF WriteData, WriteSlot, Commit, WriteFails, PromotionFails, Step,
                     fileVars, archiveVars, memoryVars
<1>11. CASE Promote
  <2>1. ~complete /\ Downloaded(slots) = N /\ UNCHANGED <<archiveVars, session, fetched, server>>
        /\ pc = "open" /\ pc' = "move" /\ complete' = complete
    BY <1>11 DEF Promote, Step, memoryVars
  <2>2. Present(slots) = Chunks
    BY <2>1, DownloadedType DEF TypeOK
  <2>3. \A ci \in Chunks : packed.now.cells[slots[ci]] = Bytes(session, ci)
    BY <2>1, <2>2, Right DEF PresentIsRight, Has, Present
  <2>4. part'.now = [cells |-> [ci \in Chunks |-> packed.now.cells[slots[ci]]], size |-> N]
    BY <1>11 DEF Promote, Put, File
  <2>5. part'.now = Whole(session)
    BY <2>3, <2>4 DEF Whole
  <2> QED BY <2>1, <2>5, <1>5 DEF archiveVars
<1>12. CASE Move
  <2>1. archive' = File(Whole(session)) /\ pc' = "storeVersion" /\ ~complete'
        /\ UNCHANGED <<archiveVersion, session, fetched, server>>
    BY <1>12 DEF Move, Step, Flush, memoryVars, MemoryAgrees
  <2>2. session # 0 /\ archiveVersion <= session /\ session <= server
    BY <1>12 DEF Move, Step, Ages
  <2>3. Agrees(Whole(session))'
    BY <1>1, <2>1, <2>2, ArchiveKinds DEF Agrees
  <2>4. archive'.now = Whole(session) /\ archive'.flushed = Whole(session)
    BY <2>1 DEF File
  <2> QED BY <1>1, <1>2, <2>1, <2>2, <2>3, <2>4, ArchiveKinds
<1>13. CASE StoreVersion
  <2>1. archive = File(Whole(session)) /\ UNCHANGED <<archive, inPlace, session, server, fetched>>
        /\ archiveVersion' = session /\ pc' = "reopen"
    BY <1>13 DEF StoreVersion, Step, memoryVars
  <2>2. session # 0
    BY <1>13 DEF StoreVersion, Step, Ages
  <2>3. Agrees(Whole(session))'
    BY <1>1, <2>1, <2>2, ArchiveKinds DEF Agrees
  <2>4. archive.now = Whole(session) /\ archive.flushed = Whole(session)
    BY <2>1 DEF File
  <2> QED BY <2>1, <2>3, <2>4
<1>14. CASE Reopen
  BY <1>14, <1>5 DEF Reopen, Step, archiveVars
<1>15. CASE DownloadPart
  <2>1. part'.now = Whole(server)
    BY <1>15 DEF DownloadPart, Put
  <2>2. ~complete
    BY <1>15 DEF DownloadPart, Step, MemoryAgrees
  <2> QED BY <1>15, <2>1, <2>2, <1>4, <1>5 DEF DownloadPart, Step
<1>16. ASSUME pc \in Downloading, archiveVersion' = archiveVersion, server' = server,
              fetched' = fetched
       PROVE  Agrees(Whole(fetched))' /\ fetched \in Versions /\ ~complete
  <2>1. fetched # 0 /\ archiveVersion <= fetched /\ fetched <= server
    BY <1>16 DEF Ages
  <2>2. Agrees(Whole(fetched))'
    BY <1>1, <1>16, <2>1, ArchiveKinds DEF Agrees
  <2>3. ~complete
    BY <1>16 DEF MemoryAgrees
  <2> QED BY <1>1, <2>1, <2>2, <2>3
<1>17. ASSUME pc \in {"storeFetched", "storeInPlace"}, archiveVersion' = fetched,
              server' = server, archive' = archive
       PROVE  Agrees(archive.now)' /\ Agrees(archive.flushed)' /\ ~complete
              /\ archive.now = Whole(fetched) /\ fetched \in Versions
  <2>1. fetched # 0 /\ fetched <= server
    BY <1>17 DEF Ages
  <2>2. archive.now = Whole(fetched) /\ archive.flushed = Whole(fetched)
    BY <1>17 DEF File
  <2>3. fetched \in Versions
    BY <1>1, <2>1
  <2>4. ~complete
    BY <1>17 DEF MemoryAgrees
  <2>5. \A v \in Versions : Whole(fetched) = Whole(v) => v = fetched
    BY <2>3, ArchiveKinds
  <2>6. Agrees(archive.now)' /\ Agrees(archive.flushed)'
    BY <1>17, <2>2, <2>5 DEF Agrees
  <2> QED BY <2>2, <2>3, <2>4, <2>6
<1>18. CASE Publish
  <2>1. archive' = File(Whole(fetched))
    BY <1>18 DEF Publish, Step, Flush
  <2>2. archive'.now = Whole(fetched) /\ archive'.flushed = Whole(fetched)
    BY <2>1 DEF File
  <2> QED BY <1>2, <1>16, <1>18, <2>1, <2>2, ArchiveKinds DEF Publish, Step, memoryVars
<1>19. CASE StoreFetched
  BY <1>17, <1>19, ArchiveKinds DEF StoreFetched, Step, memoryVars
<1>20. CASE DownloadInPlace
  <2>1. archive' \in Files(Archives) /\ archive'.now = NoData /\ archive'.flushed = archive.flushed
    BY <1>1, <1>20 DEF DownloadInPlace, Put, Files, Archives
  <2>2. Agrees(archive.flushed)'
    BY <1>20, <2>1 DEF DownloadInPlace, Agrees
  <2>3. ~complete
    BY <1>20 DEF DownloadInPlace, MemoryAgrees
  <2> QED BY <1>3, <1>20, <2>1, <2>2, <2>3 DEF DownloadInPlace
<1>21. CASE WriteInPlace
  <2>1. pc = "inPlace" /\ pc' = "flushInPlace" /\ inPlace' = inPlace
        /\ UNCHANGED <<archiveVersion, server, fetched, complete>>
    BY <1>21 DEF WriteInPlace, Step, memoryVars
  <2>2. archive'.now = Whole(fetched) /\ archive'.flushed = archive.flushed
        /\ archive' = [now |-> Whole(fetched), flushed |-> archive.flushed]
    BY <1>1, <1>21 DEF WriteInPlace, Put
  <2>3. Agrees(archive.flushed)' /\ Agrees(Whole(fetched))' /\ fetched \in Versions /\ ~complete
    BY <1>16, <2>1, <2>2 DEF Agrees
  <2>4. archive' \in Files(Archives)
    BY <1>1, <2>2, <2>3 DEF Files, Archives
  <2> QED BY <2>1, <2>2, <2>3, <2>4
<1>22. CASE FlushInPlace
  <2>1. archive' = File(Whole(fetched))
    BY <1>22 DEF FlushInPlace, Step, Flush
  <2>2. archive'.now = Whole(fetched) /\ archive'.flushed = Whole(fetched)
    BY <2>1 DEF File
  <2> QED BY <1>2, <1>16, <1>22, <2>1, <2>2, ArchiveKinds DEF FlushInPlace, Step, memoryVars
<1>23. CASE StoreInPlace
  BY <1>17, <1>23 DEF StoreInPlace, Step
<1>24. CASE InPlaceFails
  BY <1>5, <1>24 DEF InPlaceFails, MemoryAgrees, fileVars, archiveVars
<1>25. CASE TabDies
  BY <1>5, <1>25 DEF TabDies, Closed
<1>26. CASE MachineStops
  <2>1. PICK data \in Leftovers(archive.flushed, archive.now, Holed) : archive' = File(data)
    BY <1>26 DEF MachineStops, ArchiveSurvivors
  <2>2. data \in {archive.now, archive.flushed, Holed} /\ data \in Archives
    BY <1>1 DEF Leftovers, Archives
  <2>3. data = Holed => inPlace
    BY DEF Leftovers
  <2>4. archive'.now = data /\ archive'.flushed = data /\ archive' \in Files(Archives)
    BY <2>1, <2>2 DEF File, Files
  <2>5. Agrees(data)'
    BY <1>3, <1>26, <2>2 DEF MachineStops, Closed, Agrees
  <2> QED BY <1>26, <2>1, <2>3, <2>4, <2>5 DEF MachineStops, Closed
<1>27. CASE Evict
  <2>1. archiveVersion' \in {archiveVersion, 0} /\ UNCHANGED <<pc, server, fetched, complete, part>>
        /\ pc = "closed" /\ ~complete
    BY <1>27 DEF Evict, memoryVars, archiveVars, MemoryAgrees
  <2>2. /\ archive' \in Files(Archives) /\ archive' \in {archive, NoArchive}
        /\ archive'.now # archive'.flushed \/ Holed \in {archive'.now, archive'.flushed} => inPlace'
    BY <1>4, <1>27 DEF Evict, archiveVars
  <2>3. Agrees(archive.now)' /\ Agrees(archive.flushed)'
    BY <1>1, <1>2, <1>3, <2>1, <2>2 DEF Agrees
  <2> QED BY <2>1, <2>2, <2>3
<1>28. CASE Upgrade
  <2>1. archiveVersion' # server'
    BY <1>1, <1>28 DEF Upgrade, Ages, fileVars, archiveVars
  <2> QED BY <1>28, <2>1 DEF Upgrade, fileVars, archiveVars, memoryVars, Agrees
<1> QED BY <1>6, <1>7, <1>9, <1>10, <1>11, <1>12, <1>13, <1>14, <1>15, <1>18, <1>19, <1>20,
           <1>21, <1>22, <1>23, <1>24, <1>25, <1>26, <1>27, <1>28 DEF Next

-----------------------------------------------------------------------------
(* The files, while a chunk is written.                                    *)

\* Before the bytes are written.
LEMMA BeforeData ==
    ASSUME IInv, NEW ci \in Chunks, WriteData(ci)
    PROVE  /\ ~complete /\ writable /\ pc = "open" /\ pc' = "writeSlot"
           /\ session # 0 /\ slots[ci] = 0
           /\ table.now = table.flushed /\ table.now.header = session /\ slots = table.now.slots
           /\ FirstSlots(slots) /\ Downloaded(slots) \in 0..N /\ NextSlot \in Chunks
           /\ packed'.now.size = NextSlot /\ packed'.flushed = packed.flushed
           /\ packed'.now.cells = [packed.now.cells EXCEPT ![NextSlot] = Bytes(session, ci)]
           /\ \A data \in {packed.now, packed.flushed} :
                Exact(table.now, data) /\ Holds(table.now, data)
<1> USE DEF IInv
<1>1. pc = "open" /\ pc' = "writeSlot" /\ writable /\ ~Has(ci)
  BY DEF WriteData, Step
<1>2. slots[ci] = 0
  BY <1>1, SparseCacheConstants DEF Has, TypeOK
<1>3. ~complete
  BY <1>2 DEF MemoryAgrees, Present
<1>4. session # 0
  BY <1>1 DEF Ages, Loaded
<1>5. /\ table.now = table.flushed /\ table.now.header = session /\ slots = table.now.slots
      /\ Exact(table.now, packed.now) /\ Exact(table.now, packed.flushed)
  BY <1>1, <1>3 DEF MemoryAgrees, Loaded
<1>6. FirstSlots(slots) /\ Downloaded(slots) \in 0..N
  BY <1>5, DownloadedType DEF Exact, TypeOK
<1>7. NextSlot \in Chunks
  BY <1>2, <1>6, AddSlot DEF NextSlot, TypeOK
<1>8. /\ packed'.now.size = NextSlot /\ packed'.flushed = packed.flushed
      /\ packed'.now.cells = [packed.now.cells EXCEPT ![NextSlot] = Bytes(session, ci)]
  BY DEF WriteData, TypeOK, Files, Data
<1>9. \A data \in {packed.now, packed.flushed} : Holds(table.now, data)
  <2>1. CASE Empty
    <3>1. Downloaded(slots) = 0
      BY <1>5, <1>6, <2>1 DEF Exact, Empty
    <3>2. Present(slots) = {}
      BY <3>1, DownloadedType, FS_EmptySet DEF Downloaded, TypeOK
    <3> QED BY <1>5, <3>2 DEF Holds
  <2>2. CASE ~Empty
    BY <1>4, <1>5, <2>2 DEF FilesAgree
  <2> QED BY <2>1, <2>2
<1> QED BY <1>1, <1>2, <1>3, <1>4, <1>5, <1>6, <1>7, <1>8, <1>9

\* Before the slot is.
LEMMA BeforeSlot ==
    ASSUME IInv, WriteSlot
    PROVE  /\ ~complete /\ writable /\ pc = "writeSlot" /\ pc' = "commit" /\ session # 0
           /\ arrived \in Chunks /\ slots[arrived] = 0
           /\ table.now = table.flushed /\ table.now.header = session /\ slots = table.now.slots
           /\ FirstSlots(slots) /\ NextSlot \in Chunks
           /\ packed.now.size = NextSlot /\ packed' = File(packed.now)
           /\ packed.now.cells[NextSlot] = Bytes(session, arrived)
           /\ table'.flushed = table.flushed /\ table'.now.header = session
           /\ table'.now.slots = [slots EXCEPT ![arrived] = NextSlot]
           /\ Holds(table.now, packed.now) /\ Exact(table.now, packed.now)
<1> USE DEF IInv
<1>1. pc = "writeSlot" /\ pc' = "commit" /\ packed' = File(packed.now)
  BY DEF WriteSlot, Step, Flush
<1>2. /\ writable /\ arrived \in Chunks /\ slots[arrived] = 0
      /\ packed.now.size = NextSlot /\ packed.now.cells[NextSlot] = Bytes(session, arrived)
  BY <1>1 DEF StepsAgree
<1>3. ~complete
  BY <1>1 DEF MemoryAgrees
<1>4. session # 0
  BY <1>1 DEF Ages, Loaded
<1>5. /\ table.now = table.flushed /\ table.now.header = session /\ slots = table.now.slots
      /\ Exact(table.now, packed.now)
  BY <1>1, <1>2, <1>3 DEF MemoryAgrees, Loaded
<1>6. FirstSlots(slots) /\ slots \in [Chunks -> 0..N] /\ Downloaded(slots) \in 0..N
  BY <1>5, DownloadedType DEF Exact, TypeOK
<1>7. NextSlot \in Chunks
  BY <1>2, <1>6, AddSlot DEF NextSlot
<1>8. ~Empty
  BY <1>2, <1>7 DEF Empty, Chunks
<1>9. Holds(table.now, packed.now)
  BY <1>4, <1>5, <1>8 DEF FilesAgree
<1>10. /\ table'.flushed = table.flushed /\ table'.now.header = session
       /\ table'.now.slots = [slots EXCEPT ![arrived] = NextSlot]
  BY <1>5 DEF WriteSlot, Put, TypeOK, Files, Tables
<1> QED BY <1>1, <1>2, <1>3, <1>4, <1>5, <1>6, <1>7, <1>9, <1>10

\* Before it is flushed.
LEMMA BeforeCommit ==
    ASSUME IInv, Commit
    PROVE  /\ ~complete /\ pc' = "open" /\ session # 0 /\ table' = File(table.now)
           /\ table.now.header = session /\ slots' = table.now.slots
           /\ ~Empty /\ packed' = packed
           /\ Exact(table.now, packed.now) /\ Exact(table.now, packed.flushed)
<1> USE DEF IInv
<1>1. pc = "commit" /\ pc' = "open" /\ table' = File(table.now) /\ packed' = packed
      /\ slots' = [slots EXCEPT ![arrived] = NextSlot]
  BY DEF Commit, Step, Flush
<1>2. packed.now.size = NextSlot /\ slots' = table.now.slots
  BY <1>1 DEF StepsAgree
<1>3. ~complete
  BY <1>1 DEF MemoryAgrees
<1>4. session # 0
  BY <1>1 DEF Ages, Loaded
<1>5. table.now.header = session
  BY <1>1, <1>3 DEF MemoryAgrees, Loaded
<1>6. ~Empty
  <2>1. Downloaded(slots) \in 0..N
    BY DownloadedType DEF TypeOK
  <2> QED BY <1>2, <2>1 DEF Empty, NextSlot
<1> QED BY <1>1, <1>2, <1>3, <1>4, <1>5, <1>6 DEF FilesAgree

\* A machine that stops leaves one of the two tables, if they count.
LEMMA TableSurvives ==
    ASSUME IInv, MachineStops, ~Empty, table.now.header = server
    PROVE  /\ table'.now = table'.flushed /\ packed'.now = packed'.flushed
           /\ \E t \in {table.now, table.flushed} :
                table'.now = t /\ Exact(t, packed'.now) /\ Holds(t, packed'.now)
<1> USE DEF IInv
<1>1. packed' \in DataSurvivors(packed) /\ table' \in TableSurvivors(table)
  BY DEF MachineStops
<1>2. packed \in Files(Data) /\ table \in Files(Tables)
  BY DEF TypeOK
<1>3. /\ packed'.now = packed'.flushed /\ packed' \in Files(Data)
      /\ \/ packed.flushed.size <= packed'.now.size /\ packed'.now.size <= packed.now.size
         \/ packed.now.size <= packed'.now.size /\ packed'.now.size <= packed.flushed.size
      /\ \A k \in Chunks : k <= packed'.now.size =>
           packed'.now.cells[k] \in Leftovers(packed.flushed.cells[k], packed.now.cells[k], Torn)
  BY <1>1, <1>2, SurvivingData
<1>4. /\ table'.now = table'.flushed /\ table' \in Files(Tables)
      /\ table'.now.header \in Leftovers(table.flushed.header, table.now.header, 0)
      /\ \A i \in Chunks :
           table'.now.slots[i] \in Leftovers(table.flushed.slots[i], table.now.slots[i], 0)
  BY <1>1, <1>2, SurvivingTable
<1>5. server # 0
  BY SparseCacheConstants DEF TypeOK, Versions
<1>6. table.flushed.header = server /\ table'.now.header = server
  BY <1>4 DEF FilesAgree, Leftovers
<1>7. /\ \A t \in {table.now, table.flushed} :
           \A data \in {packed.now, packed.flushed} : Exact(t, data) /\ Holds(t, data)
      /\ OneLess(table.flushed.slots, table.now.slots)
  BY <1>5, <1>6 DEF FilesAgree
<1>8. PICK t \in {table.now, table.flushed} : table'.now = t
  <2>1. /\ table.now.slots \in [Chunks -> 0..N] /\ table.flushed.slots \in [Chunks -> 0..N]
        /\ table'.now.slots \in [Chunks -> 0..N]
    BY <1>2, <1>4 DEF Files, Tables
  <2>2. table'.now.slots = table.now.slots \/ table'.now.slots = table.flushed.slots
    <3>1. CASE table.flushed.slots = table.now.slots
      <4>1. \A i \in Chunks : table'.now.slots[i] = table.now.slots[i]
        BY <1>4, <3>1 DEF Leftovers
      <4> QED BY <2>1, <4>1
    <3>2. CASE table.flushed.slots # table.now.slots
      <4>1. PICK c \in Chunks : table.flushed.slots = [table.now.slots EXCEPT ![c] = 0]
        BY <1>7, <3>2 DEF OneLess
      <4>2. \A i \in Chunks : i # c => table'.now.slots[i] = table.now.slots[i]
                                       /\ table'.now.slots[i] = table.flushed.slots[i]
        BY <1>4, <2>1, <4>1 DEF Leftovers
      <4>3. table.flushed.slots[c] = 0
        BY <2>1, <4>1
      <4>4. table'.now.slots[c] \in {table.now.slots[c], table.flushed.slots[c]}
        BY <1>4, <4>3 DEF Leftovers
      <4> QED BY <2>1, <4>2, <4>4
    <3> QED BY <3>1, <3>2
  <2>3. \A a, b \in Tables : a.header = b.header /\ a.slots = b.slots => a = b
    BY DEF Tables
  <2> QED BY <1>2, <1>4, <1>5, <1>6, <2>2, <2>3 DEF Files
<1>9. t \in Tables /\ packed.now \in Data /\ packed.flushed \in Data /\ t.header = server
  BY <1>2, <1>6 DEF Files
<1>10. Downloaded(t.slots) \in 0..N
  BY <1>9, DownloadedType DEF Tables
<1>11. Exact(t, packed'.now)
  BY <1>3, <1>7, <1>9, <1>10 DEF Exact, Data, Files
<1>12. Holds(t, packed'.now)
  <2> SUFFICES ASSUME NEW ci \in Present(t.slots)
               PROVE  packed'.now.cells[t.slots[ci]] = Bytes(t.header, ci)
    BY DEF Holds
  <2>1. t.slots[ci] \in Chunks /\ t.slots[ci] <= packed'.now.size
    BY <1>3, <1>9, <1>11, SlotsWithin DEF Files
  <2>2. /\ packed.now.cells[t.slots[ci]] = Bytes(t.header, ci)
        /\ packed.flushed.cells[t.slots[ci]] = Bytes(t.header, ci)
    BY <1>7 DEF Holds
  <2> QED BY <1>3, <2>1, <2>2 DEF Leftovers
<1> QED BY <1>3, <1>4, <1>8, <1>11, <1>12

LEMMA FilesSurvive ==
    ASSUME IInv, MachineStops PROVE FilesAgree'
<1> USE DEF IInv
<1>1. packed' \in DataSurvivors(packed) /\ table' \in TableSurvivors(table)
      /\ session' = 0 /\ server' = server
  BY DEF MachineStops, Closed
<1>2. packed \in Files(Data) /\ table \in Files(Tables)
  BY DEF TypeOK
<1>3. /\ packed'.now = packed'.flushed /\ packed' \in Files(Data)
      /\ \/ packed.flushed.size <= packed'.now.size /\ packed'.now.size <= packed.now.size
         \/ packed.now.size <= packed'.now.size /\ packed'.now.size <= packed.flushed.size
  BY <1>1, <1>2, SurvivingData
<1>4. /\ table'.now = table'.flushed /\ table' \in Files(Tables)
      /\ table'.now.header \in Leftovers(table.flushed.header, table.now.header, 0)
  BY <1>1, <1>2, SurvivingTable
<1>5. CASE Empty
  <2>1. packed.now.size = 0 /\ packed.flushed.size = 0 /\ packed'.now.size \in 0..N
    BY <1>3, <1>5 DEF Empty, Files, Data
  <2>2. packed'.now.size = 0
    BY <1>3, <2>1
  <2> QED BY <1>3, <2>2 DEF FilesAgree, Empty
<1>6. CASE ~Empty /\ table'.now.header # server
  BY <1>1, <1>4, <1>6 DEF FilesAgree
<1>7. CASE ~Empty /\ table'.now.header = server
  <2>1. server # 0
    BY SparseCacheConstants DEF TypeOK, Versions
  <2>2. table.now.header = server
    BY <1>4, <1>7, <2>1 DEF FilesAgree, Leftovers
  <2>3. PICK t \in {table.now, table.flushed} :
             table'.now = t /\ Exact(t, packed'.now) /\ Holds(t, packed'.now)
    BY <1>7, <2>2, TableSurvives
  <2> QED BY <1>3, <1>4, <2>3 DEF FilesAgree, OneLess
<1> QED BY <1>5, <1>6, <1>7

LEMMA FilesKept == IInv /\ [Next]_vars => FilesAgree'
<1> SUFFICES ASSUME IInv, [Next]_vars
             PROVE  FilesAgree'
  OBVIOUS
<1> USE DEF IInv
<1>1. /\ session \in Int /\ server \in Int /\ server # 0
      /\ table.now.header \in Int /\ table.flushed.header \in Int
      /\ packed \in Files(Data) /\ table \in Files(Tables)
  BY SparseCacheConstants DEF TypeOK, Versions, Files, Tables
<1>2. ASSUME packed' = packed, table' = table, server' = server,
             session' \in {session, server, 0}
      PROVE  FilesAgree'
  BY <1>2 DEF FilesAgree, Empty
<1>3. ASSUME packed' \in {packed, File(NoData)}, table' \in {table, File(NoTable)},
             server' = server, session' = session
      PROVE  FilesAgree'
  <2>1. CASE packed' = File(NoData)
    BY <2>1 DEF FilesAgree, Empty, File, NoData
  <2>2. CASE table' = File(NoTable)
    BY <2>2 DEF FilesAgree, File, NoTable
  <2> QED BY <1>2, <1>3, <2>1, <2>2
<1>4. CASE \/ UNCHANGED vars \/ OpenArchive \/ LoaderFails \/ WriteFails \/ Promote \/ Move
           \/ StoreVersion \/ PromotionFails \/ DownloadPart \/ Publish \/ StoreFetched
           \/ DownloadInPlace \/ WriteInPlace \/ FlushInPlace \/ StoreInPlace \/ InPlaceFails
  BY <1>2, <1>4 DEF vars, fileVars, memoryVars, OpenArchive, LoaderFails, WriteFails, Promote,
     Move, StoreVersion, PromotionFails, DownloadPart, Publish, StoreFetched, DownloadInPlace,
     WriteInPlace, FlushInPlace, StoreInPlace, InPlaceFails, Step
<1>5. CASE Launch \/ Restart \/ TabDies
  BY <1>2, <1>5 DEF Launch, Restart, TabDies, Opened, Closed
<1>6. CASE KeepTable
  <2>1. /\ Consistent(table.now, packed.now, session) /\ session # 0
        /\ session' = session /\ server' = server
        /\ table' = File(table.now)
        /\ packed' = File(Truncated(packed.now, Downloaded(table.now.slots)))
    BY <1>6 DEF KeepTable, Step, StepsAgree, Ages, Loading, Flush, Put, File
  <2>2. table.now \in Tables /\ packed.now \in Data /\ Downloaded(table.now.slots) \in 0..N
    BY <1>1, DownloadedType DEF Files, Tables
  <2>3. Exact(table.now, packed.now) /\ table.now.header = session
    BY <2>1 DEF Consistent, Exact
  <2>4. CASE Empty
    <3>1. Downloaded(table.now.slots) = 0
      BY <2>2, <2>3, <2>4 DEF Exact, Empty
    <3> QED BY <2>1, <3>1 DEF FilesAgree, Empty, File, Truncated
  <2>5. CASE ~Empty
    <3> DEFINE cut == Truncated(packed.now, Downloaded(table.now.slots))
    <3>1. Holds(table.now, packed.now)
      BY <2>1, <2>3, <2>5 DEF FilesAgree
    <3>2. Exact(table.now, cut)
      BY <2>2, <2>3 DEF Exact, Truncated
    <3>3. Holds(table.now, cut)
      <4> SUFFICES ASSUME NEW ci \in Present(table.now.slots)
                   PROVE  cut.cells[table.now.slots[ci]] = Bytes(table.now.header, ci)
        BY DEF Holds
      <4>1. table.now.slots[ci] \in Chunks /\ table.now.slots[ci] \in 1..Downloaded(table.now.slots)
        BY <2>2, <2>3, SlotsWithin
      <4>2. table.now.slots[ci] <= Downloaded(table.now.slots)
        BY <2>2, <4>1
      <4>3. cut.cells[table.now.slots[ci]] = packed.now.cells[table.now.slots[ci]]
        BY <4>1, <4>2 DEF Truncated
      <4> QED BY <3>1, <4>3 DEF Holds
    <3>4. /\ packed'.now = cut /\ packed'.flushed = cut
          /\ table'.now = table.now /\ table'.flushed = table.now
      BY <2>1 DEF File
    <3> HIDE DEF cut
    <3> QED BY <3>2, <3>3, <3>4 DEF FilesAgree, OneLess
  <2> QED BY <2>4, <2>5
<1>7. CASE ResetData
  <2>1. /\ ~Consistent(table.now, packed.now, session) /\ session # 0
        /\ session' = session /\ server' = server /\ table' = table
        /\ packed'.now = NoData /\ packed'.flushed = packed.flushed
    BY <1>1, <1>7 DEF ResetData, Step, StepsAgree, Ages, Loading, Put, memoryVars, Files
  <2>2. CASE Empty
    BY <2>1, <2>2 DEF FilesAgree, Empty, NoData
  <2>3. CASE ~Empty
    <3>1. table.now.header # session
      BY <2>1, <2>3 DEF FilesAgree, Exact, Consistent
    <3>2. table.now.header <= session /\ session <= server
      BY <2>1 DEF Ages
    <3>3. table.now.header # server
      BY <1>1, <3>1, <3>2
    <3> QED BY <2>1, <2>3, <3>1, <3>3 DEF FilesAgree
  <2> QED BY <2>2, <2>3
<1>8. CASE RewriteTable \/ FlushTable
  <2>1. packed.now.size = 0 /\ packed' \in {packed, File(packed.now)}
    BY <1>8 DEF RewriteTable, FlushTable, Step, StepsAgree, Flush
  <2>2. FlushTable => Empty
    BY DEF FlushTable, Step, StepsAgree
  <2>3. RewriteTable => packed' = File(packed.now)
    BY DEF RewriteTable, Flush
  <2>4. FlushTable => packed' = packed
    BY DEF FlushTable
  <2> QED BY <1>8, <2>1, <2>2, <2>3, <2>4 DEF FilesAgree, Empty, File
<1>9. ASSUME NEW ci \in Chunks, WriteData(ci) PROVE FilesAgree'
  <2>1. /\ table.now = table.flushed /\ slots = table.now.slots
        /\ FirstSlots(slots) /\ Downloaded(slots) \in 0..N /\ NextSlot \in Chunks
        /\ packed'.now.size = NextSlot /\ packed'.flushed = packed.flushed
        /\ packed'.now.cells = [packed.now.cells EXCEPT ![NextSlot] = Bytes(session, ci)]
        /\ \A data \in {packed.now, packed.flushed} :
             Exact(table.now, data) /\ Holds(table.now, data)
    BY <1>9, BeforeData
  <2>2. table' = table
    BY <1>9 DEF WriteData
  <2>3. packed.now \in Data /\ table.now \in Tables
    BY <1>1 DEF Files
  <2>4. Exact(table.now, packed'.now)
    BY <2>1 DEF Exact, NextSlot
  <2>5. Holds(table.now, packed'.now)
    <3> SUFFICES ASSUME NEW c \in Present(table.now.slots)
                 PROVE  packed'.now.cells[table.now.slots[c]] = Bytes(table.now.header, c)
      BY DEF Holds
    <3>1. table.now.slots[c] \in 1..Downloaded(slots)
      BY <2>1, <2>3, SlotsWithin
    <3>2. table.now.slots[c] # NextSlot
      BY <2>1, <3>1 DEF NextSlot
    <3>3. packed'.now.cells[table.now.slots[c]] = packed.now.cells[table.now.slots[c]]
      BY <2>1, <2>3, <3>2 DEF Data
    <3> QED BY <2>1, <3>3 DEF Holds
  <2> QED BY <2>1, <2>2, <2>4, <2>5 DEF FilesAgree, OneLess
<1>10. CASE WriteSlot
  <2>1. /\ arrived \in Chunks /\ slots[arrived] = 0
        /\ table.now = table.flushed /\ table.now.header = session /\ slots = table.now.slots
        /\ FirstSlots(slots) /\ NextSlot \in Chunks
        /\ packed.now.size = NextSlot /\ packed' = File(packed.now)
        /\ packed.now.cells[NextSlot] = Bytes(session, arrived)
        /\ table'.flushed = table.flushed /\ table'.now.header = session
        /\ table'.now.slots = [slots EXCEPT ![arrived] = NextSlot]
        /\ Holds(table.now, packed.now) /\ Exact(table.now, packed.now)
    BY <1>10, BeforeSlot
  <2>2. slots \in [Chunks -> 0..N]
    BY DEF TypeOK
  <2>3. /\ Present(table'.now.slots) = Present(slots) \cup {arrived}
        /\ Downloaded(table'.now.slots) = NextSlot
        /\ FirstSlots(table'.now.slots)
        /\ slots = [table'.now.slots EXCEPT ![arrived] = 0]
    BY <2>1, <2>2, AddSlot DEF NextSlot
  <2>4. Exact(table'.now, packed.now)
    BY <2>1, <2>3, SparseCacheConstants DEF Exact, Chunks
  <2>5. Holds(table'.now, packed.now)
    <3> SUFFICES ASSUME NEW c \in Present(table'.now.slots)
                 PROVE  packed.now.cells[table'.now.slots[c]] = Bytes(session, c)
      BY <2>1 DEF Holds
    <3>1. CASE c = arrived
      BY <2>1, <2>2, <3>1
    <3>2. CASE c # arrived
      <4>1. c \in Present(slots) /\ table'.now.slots[c] = slots[c]
        BY <2>1, <2>2, <2>3, <3>2
      <4> QED BY <2>1, <4>1 DEF Holds
    <3> QED BY <3>1, <3>2
  <2>6. OneLess(table'.flushed.slots, table'.now.slots)
    BY <2>1, <2>3 DEF OneLess
  <2>7. packed'.now = packed.now /\ packed'.flushed = packed.now
    BY <2>1 DEF File
  <2> QED BY <2>1, <2>4, <2>5, <2>6, <2>7 DEF FilesAgree
<1>11. CASE Commit
  <2>1. /\ session # 0 /\ table' = File(table.now) /\ table.now.header = session
        /\ ~Empty /\ packed' = packed /\ session' = session /\ server' = server
    BY <1>11, BeforeCommit DEF Commit, Step
  <2>2. \A data \in {packed.now, packed.flushed} : Exact(table.now, data) /\ Holds(table.now, data)
    BY <2>1 DEF FilesAgree
  <2>3. table'.now = table.now /\ table'.flushed = table.now
    BY <2>1 DEF File
  <2> QED BY <2>1, <2>2, <2>3 DEF FilesAgree, OneLess
<1>12. CASE Reopen
  BY <1>3, <1>12 DEF Reopen, Step
<1>13. CASE Evict
  BY <1>3, <1>13 DEF Evict, archiveVars, memoryVars
<1>14. CASE Upgrade
  <2>1. packed' = packed /\ table' = table /\ session' = session /\ server' = server + 1
    BY <1>14 DEF Upgrade, fileVars, memoryVars
  <2>2. table.now.header # server'
    BY <1>1, <2>1 DEF Ages
  <2> QED BY <2>1, <2>2 DEF FilesAgree, Empty
<1> QED BY <1>4, <1>5, <1>6, <1>7, <1>8, <1>9, <1>10, <1>11, <1>12, <1>13, <1>14, FilesSurvive
        DEF Next

-----------------------------------------------------------------------------
(* The memory and the steps.                                               *)

LEMMA MemoryKept == IInv /\ [Next]_vars => MemoryAgrees'
<1> SUFFICES ASSUME IInv, [Next]_vars
             PROVE  MemoryAgrees'
  OBVIOUS
<1> USE DEF IInv, Loading, Loaded, Downloading
<1>1. CASE UNCHANGED vars
  BY <1>1 DEF vars, fileVars, memoryVars, MemoryAgrees
<1>2. ASSUME pc' \notin Loaded, slots' = NoSlots, complete' = FALSE PROVE MemoryAgrees'
  BY <1>2 DEF MemoryAgrees
<1>3. ASSUME pc \notin Loaded, pc' \notin Loaded, slots' = slots, complete' = complete
      PROVE  MemoryAgrees'
  BY <1>3 DEF MemoryAgrees
<1>4. CASE OpenArchive \/ LoaderFails
  BY <1>3, <1>4 DEF OpenArchive, LoaderFails
<1>5. CASE Launch \/ Restart \/ TabDies \/ MachineStops
  BY <1>2, <1>5 DEF Launch, Restart, TabDies, MachineStops, Opened, Closed
<1>6. CASE KeepTable
  <2>1. /\ Consistent(table.now, packed.now, session) /\ ~complete /\ pc' = "open"
        /\ session' = session /\ complete' = complete
        /\ table' = File(table.now) /\ slots' = table.now.slots
        /\ packed' = File(Truncated(packed.now, Downloaded(table.now.slots)))
    BY <1>6 DEF KeepTable, Step, StepsAgree, MemoryAgrees, Flush, Put, File
  <2>2. Downloaded(table.now.slots) \in 0..N
    BY DownloadedType DEF TypeOK, Files, Tables
  <2>3. Exact(table.now, Truncated(packed.now, Downloaded(table.now.slots)))
    BY <2>1, <2>2 DEF Consistent, Exact, Truncated
  <2> QED BY <2>1, <2>3 DEF Consistent, MemoryAgrees, File
<1>7. CASE ResetData \/ RewriteTable
  BY <1>3, <1>7 DEF ResetData, RewriteTable, Step, memoryVars
<1>8. CASE FlushTable
  <2>1. /\ table' = File([header |-> session, slots |-> NoSlots]) /\ slots' = NoSlots
        /\ ~complete /\ complete' = complete /\ session' = session /\ packed' = packed
    BY <1>8 DEF FlushTable, Step, StepsAgree, MemoryAgrees, Flush
  <2>2. FirstSlots(NoSlots)
    BY NothingDownloaded DEF FirstSlots
  <2>3. packed.now.size >= 0 /\ packed.flushed.size >= 0
    BY DEF TypeOK, Files, Data
  <2>4. \A data \in {packed.now, packed.flushed} : Exact([header |-> session, slots |-> NoSlots], data)
    BY <2>2, <2>3, NothingDownloaded DEF Exact
  <2> QED BY <2>1, <2>4 DEF MemoryAgrees, File
<1>9. ASSUME NEW ci \in Chunks, WriteData(ci) PROVE MemoryAgrees'
  <2>1. /\ ~complete /\ pc' = "writeSlot"
        /\ table.now = table.flushed /\ table.now.header = session /\ slots = table.now.slots
        /\ FirstSlots(slots) /\ Downloaded(slots) \in 0..N
        /\ packed'.now.size = NextSlot /\ packed'.flushed = packed.flushed
        /\ Exact(table.now, packed.flushed)
    BY <1>9, BeforeData
  <2>2. table' = table /\ slots' = slots /\ session' = session /\ complete' = complete
    BY <1>9 DEF WriteData
  <2>3. Exact(table.now, packed'.now)
    BY <2>1 DEF Exact, NextSlot
  <2> QED BY <2>1, <2>2, <2>3 DEF MemoryAgrees
<1>10. CASE WriteSlot
  <2>1. /\ ~complete /\ pc' = "commit"
        /\ table.now = table.flushed /\ table.now.header = session /\ slots = table.now.slots
        /\ packed' = File(packed.now)
        /\ table'.flushed = table.flushed /\ table'.now.header = session
        /\ Exact(table.now, packed.now)
    BY <1>10, BeforeSlot
  <2>2. slots' = slots /\ session' = session /\ complete' = complete
    BY <1>10 DEF WriteSlot, memoryVars
  <2> QED BY <2>1, <2>2 DEF MemoryAgrees, File
<1>11. CASE Commit
  <2>1. /\ ~complete /\ pc' = "open" /\ table' = File(table.now)
        /\ table.now.header = session /\ slots' = table.now.slots /\ packed' = packed
        /\ Exact(table.now, packed.now) /\ Exact(table.now, packed.flushed)
    BY <1>11, BeforeCommit
  <2>2. session' = session /\ complete' = complete
    BY <1>11 DEF Commit
  <2> QED BY <2>1, <2>2 DEF MemoryAgrees, File
<1>12. CASE WriteFails
  BY <1>12 DEF WriteFails, fileVars, MemoryAgrees
<1>13. CASE Promote \/ Move \/ StoreVersion \/ PromotionFails
  <2>1. /\ packed' = packed /\ table' = table /\ session' = session /\ slots' = slots
        /\ writable' = writable /\ complete' = complete
    BY <1>13 DEF Promote, Move, StoreVersion, PromotionFails, fileVars, memoryVars
  <2>2. /\ pc \in {"open", "move", "storeVersion", "reopen"}
        /\ pc' \in {"open", "move", "storeVersion", "reopen"}
        /\ pc = "open" => ~complete
    BY <1>13 DEF Promote, Move, StoreVersion, PromotionFails, Step
  <2> QED BY <2>1, <2>2 DEF MemoryAgrees
<1>14. CASE Reopen
  BY <1>14 DEF Reopen, Step, StepsAgree, MemoryAgrees
<1>15. CASE \/ DownloadPart \/ Publish \/ StoreFetched
            \/ DownloadInPlace \/ WriteInPlace \/ FlushInPlace \/ StoreInPlace \/ InPlaceFails
  BY <1>3, <1>15 DEF DownloadPart, Publish, StoreFetched, DownloadInPlace, WriteInPlace,
     FlushInPlace, StoreInPlace, InPlaceFails, Step, memoryVars
<1>16. CASE Evict
  BY <1>3, <1>16 DEF Evict, memoryVars
<1>17. CASE Upgrade
  BY <1>17 DEF Upgrade, fileVars, memoryVars, MemoryAgrees
<1> QED BY <1>1, <1>4, <1>5, <1>6, <1>7, <1>8, <1>9, <1>10, <1>11, <1>12, <1>13, <1>14, <1>15,
           <1>16, <1>17 DEF Next

LEMMA StepsKept == IInv /\ [Next]_vars => StepsAgree'
<1> SUFFICES ASSUME IInv, [Next]_vars
             PROVE  StepsAgree'
  OBVIOUS
<1> USE DEF IInv
<1>1. ASSUME pc' \notin Loading \cup Loaded \/ pc' = "open" PROVE StepsAgree'
  BY <1>1 DEF StepsAgree, Loading, Loaded
<1>2. CASE UNCHANGED vars
  BY <1>2 DEF vars, fileVars, memoryVars, StepsAgree, NextSlot, Empty
<1>3. CASE \/ OpenArchive \/ LoaderFails \/ KeepTable \/ FlushTable \/ Commit \/ WriteFails
           \/ Reopen \/ PromotionFails \/ DownloadPart \/ Publish \/ StoreFetched
           \/ DownloadInPlace \/ WriteInPlace \/ FlushInPlace \/ StoreInPlace \/ InPlaceFails
           \/ TabDies \/ MachineStops \/ Evict
  BY <1>1, <1>3 DEF OpenArchive, LoaderFails, KeepTable, FlushTable, Commit, WriteFails,
     Reopen, PromotionFails, DownloadPart, Publish, StoreFetched, DownloadInPlace, WriteInPlace,
     FlushInPlace, StoreInPlace, InPlaceFails, TabDies, MachineStops, Evict, Closed, Step,
     Loading, Loaded
<1>4. CASE Launch \/ Restart
  <2>1. /\ packed' = packed /\ table' = table /\ session' = server
        /\ pc' = IF Consistent(table.now, packed.now, server) THEN "tail" ELSE "reset"
    BY <1>4 DEF Launch, Restart, Opened
  <2> QED BY <2>1 DEF StepsAgree
<1>5. CASE ResetData
  BY <1>5 DEF ResetData, Step, Put, NoData, StepsAgree, TypeOK, Files
<1>6. CASE RewriteTable
  <2>1. /\ pc' = "flushTable" /\ packed' = File(packed.now) /\ packed.now.size = 0
        /\ table'.now = [header |-> session, slots |-> NoSlots] /\ session' = session
    BY <1>6 DEF RewriteTable, Step, Flush, Put, StepsAgree, memoryVars, TypeOK, Files
  <2> QED BY <2>1 DEF StepsAgree, Empty, File
<1>7. ASSUME NEW ci \in Chunks, WriteData(ci) PROVE StepsAgree'
  <2>1. /\ writable /\ pc' = "writeSlot" /\ slots[ci] = 0 /\ NextSlot \in Chunks
        /\ packed'.now.size = NextSlot
        /\ packed'.now.cells = [packed.now.cells EXCEPT ![NextSlot] = Bytes(session, ci)]
    BY <1>7, BeforeData
  <2>2. /\ writable' = writable /\ arrived' = ci /\ slots' = slots /\ session' = session
        /\ NextSlot' = NextSlot
    BY <1>7 DEF WriteData, NextSlot
  <2>3. packed'.now.cells[NextSlot] = Bytes(session, ci)
    BY <2>1 DEF TypeOK, Files, Data
  <2> QED BY <2>1, <2>2, <2>3 DEF StepsAgree
<1>8. CASE WriteSlot
  <2>1. /\ writable /\ pc' = "commit" /\ arrived \in Chunks /\ slots[arrived] = 0
        /\ packed.now.size = NextSlot /\ packed' = File(packed.now)
        /\ table'.now.slots = [slots EXCEPT ![arrived] = NextSlot]
    BY <1>8, BeforeSlot
  <2>2. UNCHANGED <<writable, arrived, slots>> /\ NextSlot' = NextSlot
    BY <1>8 DEF WriteSlot, memoryVars, NextSlot
  <2> QED BY <2>1, <2>2 DEF StepsAgree, File
<1>9. CASE Promote
  <2>1. Downloaded(slots) = N /\ slots' = slots /\ pc' = "move"
    BY <1>9 DEF Promote, Step, memoryVars
  <2>2. Present(slots) = Chunks
    BY <2>1, DownloadedType DEF TypeOK
  <2> QED BY <2>1, <2>2 DEF StepsAgree
<1>10. CASE Move \/ StoreVersion
  BY <1>10 DEF Move, StoreVersion, Step, memoryVars, StepsAgree
<1>11. CASE Upgrade
  BY <1>11 DEF Upgrade, fileVars, memoryVars, StepsAgree, NextSlot, Empty
<1> QED BY <1>2, <1>3, <1>4, <1>5, <1>6, <1>7, <1>8, <1>9, <1>10, <1>11 DEF Next

-----------------------------------------------------------------------------
(* The cache keeps its promise: what it holds for a launch for version v.  *)

Kept(v) == InTable(v) \cup InArchive(v)

LEMMA BytesOfChunks ==
    /\ \A v : BytesOf(v, Chunks) = Promise!AllOf(v)
    /\ \A v : BytesOf(v, {}) = {}
    /\ \A v : \A C, D : C \subseteq D => BytesOf(v, C) \subseteq BytesOf(v, D)
    /\ \A v : \A C, c : BytesOf(v, C \cup {c}) = BytesOf(v, C) \cup {Bytes(v, c)}
    /\ \A s : Present(s) \subseteq Chunks
    /\ \A v : \A c \in Chunks : Bytes(v, c) \in Promise!AllOf(v)
<1>1. ASSUME NEW v PROVE BytesOf(v, Chunks) = Promise!AllOf(v)
  <2>1. \A s \in Promise!AllOf(v) : s = Bytes(v, s.chunk) /\ s.chunk \in Chunks
    BY DEF Promise!AllOf, Bytes
  <2>2. \A c \in Chunks : Bytes(v, c) \in Promise!AllOf(v)
    BY DEF Promise!AllOf, Bytes
  <2> QED BY <2>1, <2>2 DEF BytesOf
<1>2. \A v : BytesOf(v, {}) = {}
  BY DEF BytesOf
<1>3. \A v : \A C, D : C \subseteq D => BytesOf(v, C) \subseteq BytesOf(v, D)
  BY DEF BytesOf
<1>4. \A v : \A C, c : BytesOf(v, C \cup {c}) = BytesOf(v, C) \cup {Bytes(v, c)}
  BY DEF BytesOf
<1>5. \A v : \A c \in Chunks : Bytes(v, c) \in Promise!AllOf(v)
  BY DEF Promise!AllOf, Bytes
<1>6. \A s : Present(s) \subseteq Chunks
  BY DEF Present
<1> QED BY <1>1, <1>2, <1>3, <1>4, <1>5, <1>6

KeptNow == InCache = Kept(IF session = 0 THEN server ELSE session)

NoneWithoutData == \A v : packed.flushed.size = 0 => InTable(v) = {}

LEMMA KeptType ==
    ASSUME NEW v
    PROVE  /\ InTable(v) \subseteq Promise!AllOf(v)
           /\ InArchive(v) \in {{}, Promise!AllOf(v)}
           /\ Kept(v) \subseteq Promise!AllOf(v)
BY BytesOfChunks DEF Kept, InTable, InArchive

\* What the table in memory says is what is safe.
LEMMA InCacheIsKept ==
    ASSUME IInv
    PROVE  InCache = Kept(IF session = 0 THEN server ELSE session)
<1> USE DEF IInv
<1>1. CASE session = 0
  BY <1>1 DEF InCache, Kept
<1>2. CASE session # 0 /\ pc \in Loading
  BY <1>2 DEF InCache, Kept, Opening, Loading
<1>3. CASE session # 0 /\ pc \in Loaded /\ ~complete
  <2>1. table.flushed.header = session /\ slots = table.flushed.slots
        /\ Exact(table.flushed, packed.flushed)
    BY <1>3 DEF MemoryAgrees
  <2>2. Consistent(table.flushed, packed.flushed, session)
    BY <2>1 DEF Exact, Consistent
  <2>3. InTable(session) = BytesOf(session, Present(slots))
    BY <2>1, <2>2 DEF InTable
  <2> QED BY <1>3, <2>3 DEF InCache, Kept, Opening, Loaded
<1>4. CASE session # 0 /\ pc \in Loaded /\ complete
  <2>1. archive.now = Whole(session) /\ archive.flushed = Whole(session) /\ archiveVersion = session
    BY <1>4 DEF ArchiveInv, File
  <2>2. HasZipEocd(Whole(session))
    BY SparseCacheConstants DEF HasZipEocd, Whole, Bytes, Chunks
  <2>3. InArchive(session) = Promise!AllOf(session)
    BY <2>1, <2>2, BytesOfChunks DEF InArchive
  <2>4. BytesOf(session, Present(slots)) \subseteq Promise!AllOf(session)
    BY BytesOfChunks
  <2> QED BY <1>4, <2>3, <2>4, KeptType DEF InCache, Kept, Opening, Loaded
<1> QED BY <1>1, <1>2, <1>3, <1>4 DEF Ages

LEMMA OneMore ==
    ASSUME NEW f \in [Chunks -> 0..N], NEW g \in [Chunks -> 0..N], OneLess(f, g)
    PROVE  /\ Present(f) \subseteq Present(g)
           /\ \/ Present(g) = Present(f)
              \/ \E c \in Chunks : Present(g) = Present(f) \cup {c}
<1>1. CASE f = g
  BY <1>1
<1>2. ASSUME NEW c \in Chunks, f = [g EXCEPT ![c] = 0]
      PROVE  Present(g) \in {Present(f), Present(f) \cup {c}} /\ Present(f) \subseteq Present(g)
  <2>1. f[c] = 0 /\ \A i \in Chunks : i # c => f[i] = g[i]
    BY <1>2
  <2> QED BY <2>1 DEF Present
<1> QED BY <1>1, <1>2 DEF OneLess

\* An empty packed file keeps nothing.
LEMMA NothingKept ==
    ASSUME IInv, NEW v, packed.flushed.size = 0 PROVE InTable(v) = {}
<1>1. table.flushed.slots \in [Chunks -> 0..N]
  BY DEF IInv, TypeOK, Files, Tables
<1>2. Downloaded(table.flushed.slots) \in 0..N /\ IsFiniteSet(Present(table.flushed.slots))
  BY <1>1, DownloadedType
<1>3. Downloaded(table.flushed.slots) <= 0 => Present(table.flushed.slots) = {}
  BY <1>2, FS_EmptySet DEF Downloaded
<1> QED BY <1>3, BytesOfChunks DEF InTable, Consistent

\* The archive is not given up while it counts.
LEMMA NotDiscarded ==
    ASSUME IInv, ~ArchiveUsable, Discard, archiveVersion' = archiveVersion, server' = server
    PROVE  InArchive(server) = {} /\ InArchive(server)' = {}
<1>1. archive.now \in Archives /\ archive' \in {archive, NoArchive}
  BY DEF IInv, ArchiveInv, Files, Discard
<1>2. HasZipEocd(archive.now) => archive.now.size = N
  BY <1>1, ArchiveKinds DEF Archives, Holed
<1>3. InArchive(server) = {}
  BY <1>2 DEF InArchive, ArchiveUsable, MatchesServer
<1>4. ~HasZipEocd(NoArchive.now)
  BY ArchiveKinds DEF NoArchive, File
<1> QED BY <1>1, <1>3, <1>4 DEF InArchive

\* A machine that stops takes nothing that counts.
LEMMA KeptSurvives ==
    ASSUME IInv, MachineStops PROVE Kept(server) \subseteq Kept(server)'
<1> USE DEF IInv
<1>1. archiveVersion' = archiveVersion /\ server' = server
  BY DEF MachineStops, Closed
<1>2. InArchive(server) \subseteq InArchive(server)'
  <2>1. PICK data \in Leftovers(archive.flushed, archive.now, Holed) : archive' = File(data)
    BY DEF MachineStops, ArchiveSurvivors
  <2>2. HasZipEocd(Holed)
    BY SparseCacheConstants DEF HasZipEocd, Holed, NoCells, Bytes, Chunks
  <2>3. HasZipEocd(archive.now) /\ HasZipEocd(archive.flushed) =>
          HasZipEocd(archive'.now) /\ HasZipEocd(archive'.flushed)
    BY <2>1, <2>2 DEF Leftovers, File
  <2> QED BY <1>1, <2>3 DEF InArchive
<1>3. CASE Empty \/ table.flushed.header # server
  <2>1. InTable(server) = {}
    BY <1>3, NothingKept DEF Empty, InTable, Consistent
  <2> QED BY <1>2, <2>1 DEF Kept
<1>4. CASE ~Empty /\ table.flushed.header = server
  <2>1. server # 0
    BY SparseCacheConstants DEF TypeOK, Versions
  <2>2. table.now.header = server /\ OneLess(table.flushed.slots, table.now.slots)
    BY <1>4, <2>1 DEF FilesAgree
  <2>3. PICK t \in {table.now, table.flushed} : table'.now = t /\ Exact(t, packed'.now)
    BY <1>4, <2>2, TableSurvives
  <2>4. table'.flushed = t /\ Exact(t, packed'.flushed)
    BY <1>4, <2>2, <2>3, TableSurvives
  <2>5. Consistent(table'.flushed, packed'.flushed, server)
    BY <1>4, <2>2, <2>4 DEF Exact, Consistent
  <2>6. Present(table.flushed.slots) \subseteq Present(t.slots)
    BY <2>2, OneMore DEF TypeOK, Files, Tables
  <2>7. InTable(server)' = BytesOf(server, Present(t.slots))
    BY <1>1, <2>4, <2>5 DEF InTable
  <2>8. InTable(server) \subseteq BytesOf(server, Present(t.slots))
    BY <2>6, BytesOfChunks DEF InTable
  <2> QED BY <1>2, <2>7, <2>8 DEF Kept
<1> QED BY <1>3, <1>4

\* A step of the cache is one of the store, or none.
LEMMA StepsImplement ==
    IInv /\ IInv' /\ [Next]_vars => [Promise!Next]_<<server, session, InCache>>
<1>1. IInv => KeptNow /\ NoneWithoutData
  BY InCacheIsKept, NothingKept DEF KeptNow, NoneWithoutData
<1>2. IInv' => KeptNow' /\ NoneWithoutData'
  BY <1>1, PTL
<1> SUFFICES ASSUME IInv, IInv', [Next]_vars
             PROVE  [Promise!Next]_<<server, session, InCache>>
  OBVIOUS
<1>5. /\ session = 0 => InCache = Kept(server)
      /\ session # 0 => InCache = Kept(session)
      /\ session' = 0 => InCache' = Kept(server)'
      /\ session' # 0 => InCache' = Kept(session)'
      /\ \A v : packed.flushed.size = 0 => InTable(v) = {}
      /\ \A v : packed'.flushed.size = 0 => InTable(v)' = {}
  BY <1>1, <1>2 DEF KeptNow, NoneWithoutData
<1>6. /\ session # 0 <=> pc \in Loading \cup Loaded
      /\ session <= server /\ session \in Int /\ server \in Int /\ server # 0
      /\ table.now.header <= server /\ table.flushed.header <= server
      /\ table.now.header \in Int /\ table.flushed.header \in Int
      /\ archiveVersion <= server /\ archiveVersion \in Int
      /\ table.now \in Tables /\ table.flushed \in Tables
  BY SparseCacheConstants DEF IInv, Ages, TypeOK, Files, Tables, Versions
<1>7. ASSUME session' = session, server' = server, InCache' = InCache
      PROVE  [Promise!Next]_<<server, session, InCache>>
  BY <1>7
<1>8. ASSUME session = 0, session' = 0, server' = server,
             InCache \subseteq InCache' \/ InCache' \subseteq InCache
      PROVE  [Promise!Next]_<<server, session, InCache>>
  <2>1. InCache' \subseteq Promise!AllOf(server)
    <3>1. \A v : Kept(v)' \subseteq Promise!AllOf(v)
      BY BytesOfChunks DEF Kept, InTable, InArchive
    <3> QED BY <1>5, <1>8, <3>1
  <2>2. CASE InCache \subseteq InCache'
    <3>1. Promise!Store
      BY <1>8, <2>1, <2>2 DEF Promise!Store
    <3> QED BY <3>1 DEF Promise!Next
  <2>3. CASE InCache' \subseteq InCache
    <3>1. Promise!Evict
      BY <1>8, <2>3 DEF Promise!Evict
    <3> QED BY <3>1 DEF Promise!Next
  <2> QED BY <1>8, <2>2, <2>3
<1>9. ASSUME session = 0, session' = 0, server' = server, table' = table, packed' = packed
      PROVE  [Promise!Next]_<<server, session, InCache>>
  <2>1. InTable(server)' = InTable(server)
    BY <1>9 DEF InTable
  <2>2. InArchive(server) \in {{}, BytesOf(server, Chunks)}
        /\ InArchive(server)' \in {{}, BytesOf(server, Chunks)}
    BY <1>9 DEF InArchive
  <2>3. InCache = Kept(server) /\ InCache' = Kept(server)'
    BY <1>5, <1>9
  <2>4. InCache \subseteq InCache' \/ InCache' \subseteq InCache
    BY <2>1, <2>2, <2>3 DEF Kept
  <2> QED BY <1>8, <1>9, <2>4
<1>10. CASE UNCHANGED vars
  BY <1>7, <1>10 DEF vars, fileVars, archiveVars, memoryVars, InCache, InTable, InArchive, Opening
<1>11. CASE \/ OpenArchive \/ LoaderFails \/ DownloadPart \/ Publish \/ StoreFetched
            \/ DownloadInPlace \/ WriteInPlace \/ FlushInPlace \/ StoreInPlace \/ InPlaceFails
  <2>1. /\ pc \notin Loading \cup Loaded /\ session' = session /\ server' = server
        /\ table' = table /\ packed' = packed
    BY <1>11 DEF OpenArchive, LoaderFails, DownloadPart, Publish, StoreFetched, DownloadInPlace,
       WriteInPlace, FlushInPlace, StoreInPlace, InPlaceFails, Step, fileVars, memoryVars,
       Loading, Loaded
  <2> QED BY <1>6, <1>9, <2>1
<1>12. CASE Launch
  <2>1. /\ session = 0 /\ session' = server /\ server' = server
        /\ table' = table /\ packed' = packed /\ archiveVersion' = archiveVersion
    BY <1>6, <1>12 DEF Launch, Opened, Loading, Loaded
  <2>2. InTable(server)' = InTable(server)
    BY <2>1 DEF InTable
  <2>3. InArchive(server)' = InArchive(server)
    BY <1>12, <2>1, NotDiscarded DEF Launch
  <2>4. InCache = Kept(server) /\ InCache' = Kept(server)'
    BY <1>5, <1>6, <2>1
  <2>5. Promise!Open
    BY <2>1, <2>2, <2>3, <2>4 DEF Kept, Promise!Open
  <2> QED BY <2>5 DEF Promise!Next
<1>13. CASE Restart
  <2>1. /\ session = server /\ session' = server /\ server' = server
        /\ table' = table /\ packed' = packed /\ archiveVersion' = archiveVersion
        /\ archive' = archive
    BY <1>13 DEF Restart, Opened
  <2>2. Kept(server)' = Kept(server)
    BY <2>1 DEF Kept, InTable, InArchive
  <2>3. InCache = Kept(server) /\ InCache' = Kept(server)'
    BY <1>5, <1>6, <2>1
  <2> QED BY <1>7, <2>1, <2>2, <2>3
<1>14. CASE KeepTable
  <2>1. /\ session # 0 /\ session' = session /\ server' = server /\ pc' = "open"
        /\ slots' = table.now.slots /\ InArchive(session)' = InArchive(session)
        /\ Consistent(table.now, packed.now, session)
    BY <1>6, <1>14 DEF KeepTable, Step, Loading, archiveVars, InArchive, IInv, StepsAgree
  <2>2. InCache' = InArchive(session) \cup BytesOf(session, Present(table.now.slots))
    BY <2>1 DEF InCache, Opening
  <2>3. InCache = InArchive(session) \cup InTable(session)
    BY <1>5, <2>1 DEF Kept
  <2>4. table.now.slots \in [Chunks -> 0..N] /\ table.flushed.slots \in [Chunks -> 0..N]
    BY <1>6 DEF Tables
  <2>5. CASE Empty
    <3>1. Downloaded(table.now.slots) = 0
      BY <2>1, <2>4, <2>5, DownloadedType DEF Consistent, Empty
    <3>2. Present(table.now.slots) = {}
      BY <2>4, <3>1, DownloadedType, FS_EmptySet DEF Downloaded
    <3>3. InTable(session) = {}
      BY <1>5, <2>5 DEF Empty
    <3> QED BY <1>7, <2>1, <2>2, <2>3, <3>2, <3>3, BytesOfChunks
  <2>6. CASE ~Empty
    <3>1. /\ table.flushed.header = session /\ Exact(table.flushed, packed.flushed)
          /\ OneLess(table.flushed.slots, table.now.slots)
      BY <2>1, <2>6 DEF Consistent, IInv, FilesAgree
    <3>2. InTable(session) = BytesOf(session, Present(table.flushed.slots))
      BY <3>1 DEF Exact, Consistent, InTable
    <3>3. CASE Present(table.now.slots) = Present(table.flushed.slots)
      BY <1>7, <2>1, <2>2, <2>3, <3>2, <3>3
    <3>4. CASE \E c \in Chunks : Present(table.now.slots) = Present(table.flushed.slots) \cup {c}
      <4>1. PICK c \in Chunks : Present(table.now.slots) = Present(table.flushed.slots) \cup {c}
        BY <3>4
      <4>2. InCache' = InCache \cup {Bytes(session, c)}
        BY <2>2, <2>3, <3>2, <4>1, BytesOfChunks
      <4>3. Promise!Store
        BY <2>1, <4>2, BytesOfChunks DEF Promise!Store
      <4> QED BY <4>3 DEF Promise!Next
    <3> QED BY <2>4, <3>1, <3>3, <3>4, OneMore
  <2> QED BY <2>5, <2>6
<1>15. CASE ResetData
  <2>1. /\ session # 0 /\ session' = session /\ server' = server
        /\ table' = table /\ packed'.flushed = packed.flushed
        /\ InArchive(session)' = InArchive(session)
    BY <1>6, <1>15 DEF ResetData, Step, Loading, Put, archiveVars, memoryVars, InArchive, IInv,
                       TypeOK, Files
  <2>2. InTable(session)' = InTable(session)
    BY <2>1 DEF InTable
  <2> QED BY <1>5, <1>7, <2>1, <2>2 DEF Kept
<1>16. CASE RewriteTable \/ FlushTable
  <2>1. /\ session # 0 /\ session' = session /\ server' = server /\ packed.now.size = 0
        /\ InArchive(session)' = InArchive(session)
    BY <1>6, <1>16 DEF RewriteTable, FlushTable, Step, Loading, archiveVars, memoryVars, InArchive,
                       IInv, StepsAgree
  <2>2. packed'.flushed.size = 0
    BY <1>16, <2>1 DEF RewriteTable, FlushTable, Flush, File, Step, IInv, StepsAgree, Empty
  <2>3. InTable(session)' = {}
    BY <1>5, <2>1, <2>2
  <2>4. InTable(session) = {}
    <3>1. CASE Empty
      BY <1>5, <3>1 DEF Empty
    <3>2. CASE ~Empty /\ table.flushed.header = session
      <4>1. Exact(table.flushed, packed.now)
        BY <2>1, <3>2 DEF IInv, FilesAgree
      <4>2. Downloaded(table.flushed.slots) = 0
        BY <1>6, <2>1, <4>1, DownloadedType DEF Exact, Tables
      <4>3. Present(table.flushed.slots) = {}
        BY <1>6, <4>2, DownloadedType, FS_EmptySet DEF Downloaded, Tables
      <4> QED BY <4>3, BytesOfChunks DEF InTable
    <3>3. CASE table.flushed.header # session
      BY <3>3 DEF InTable, Consistent
    <3> QED BY <3>1, <3>2, <3>3
  <2> QED BY <1>5, <1>7, <2>1, <2>3, <2>4 DEF Kept
<1>17. ASSUME pc \in Loaded, pc' \in Loaded
       PROVE  /\ InCache = InArchive(session) \cup BytesOf(session, Present(slots))
              /\ InCache' = InArchive(session)' \cup BytesOf(session, Present(slots))'
  <2>1. session # 0 /\ session' # 0
    BY <1>6, <1>17 DEF IInv, Ages
  <2> QED BY <1>17, <2>1 DEF InCache, Opening, Loaded
<1>18. CASE (\E ci \in Chunks : WriteData(ci)) \/ WriteSlot \/ WriteFails \/ Promote \/ PromotionFails
  <2>1. /\ pc \in Loaded /\ pc' \in Loaded /\ session' = session /\ server' = server
        /\ slots' = slots /\ UNCHANGED archiveVars
    BY <1>18 DEF WriteData, WriteSlot, WriteFails, Promote, PromotionFails, Step, Loaded,
                 fileVars, memoryVars
  <2> QED BY <1>7, <1>17, <2>1 DEF archiveVars, InArchive
<1>19. CASE Commit
  <2>1. /\ pc \in Loaded /\ pc' \in Loaded /\ session' = session /\ server' = server
        /\ slots' = [slots EXCEPT ![arrived] = NextSlot] /\ UNCHANGED archiveVars
        /\ arrived \in Chunks /\ session # 0
    BY <1>6, <1>19 DEF Commit, Step, Loaded, IInv, StepsAgree
  <2>2. Downloaded(slots) \in 0..N /\ slots \in [Chunks -> 0..N]
    BY DownloadedType DEF IInv, TypeOK
  <2>3. Present(slots)' = Present(slots) \cup {arrived}
    BY <2>1, <2>2 DEF Present, NextSlot
  <2>4. InCache' = InCache \cup {Bytes(session, arrived)}
    <3>1. InArchive(session)' = InArchive(session)
      BY <2>1 DEF archiveVars, InArchive
    <3>2. BytesOf(session, Present(slots))' = BytesOf(session, Present(slots)')
      BY <2>1 DEF BytesOf
    <3>3. BytesOf(session, Present(slots)') = BytesOf(session, Present(slots)) \cup {Bytes(session, arrived)}
      BY <2>3, BytesOfChunks
    <3> QED BY <1>17, <2>1, <3>1, <3>2, <3>3
  <2>5. Promise!Store
    BY <2>1, <2>4, BytesOfChunks DEF Promise!Store
  <2> QED BY <2>5 DEF Promise!Next
<1>20. CASE Move \/ StoreVersion \/ Reopen
  <2>1. /\ pc \in Loaded /\ pc' \in Loaded /\ session' = session /\ server' = server
        /\ slots' = slots /\ Present(slots) = Chunks
    BY <1>20 DEF Move, StoreVersion, Reopen, Step, Loaded, memoryVars, IInv, StepsAgree
  <2>2. InArchive(session) \subseteq BytesOf(session, Chunks)
        /\ InArchive(session)' \subseteq BytesOf(session, Chunks)
    BY <2>1 DEF InArchive
  <2>3. Present(slots)' = Chunks
    BY <2>1
  <2> QED BY <1>7, <1>17, <2>1, <2>2, <2>3
<1>21. ASSUME session' = 0, server' = server, Kept(server) \subseteq Kept(server)'
       PROVE  [Promise!Next]_<<server, session, InCache>>
  <2>1. CASE session = 0
    BY <1>5, <1>8, <1>21, <2>1
  <2>2. CASE session # 0
    <3>1. InCache = Kept(session) /\ InCache' = Kept(server)'
      BY <1>5, <1>21, <2>2
    <3>2. InCache' \subseteq Promise!AllOf(server)
      <4>1. \A v : Kept(v)' \subseteq Promise!AllOf(v)
        BY BytesOfChunks DEF Kept, InTable, InArchive
      <4> QED BY <1>21, <3>1, <4>1
    <3>3. \A s \in InCache : s.version = session
      BY <3>1, KeptType DEF Promise!AllOf
    <3>4. {s \in InCache : s.version = server} \subseteq InCache'
      BY <1>21, <3>1, <3>3
    <3>5. Promise!Stop
      BY <1>21, <2>2, <3>2, <3>4 DEF Promise!Stop
    <3> QED BY <3>5 DEF Promise!Next
  <2> QED BY <2>1, <2>2
<1>22. CASE TabDies
  <2>1. /\ session' = 0 /\ server' = server /\ table' = table /\ packed' = packed
        /\ archive' = archive /\ archiveVersion' = archiveVersion
    BY <1>22 DEF TabDies, Closed
  <2>2. Kept(server)' = Kept(server)
    BY <2>1 DEF Kept, InTable, InArchive
  <2> QED BY <1>21, <2>1, <2>2
<1>23. CASE MachineStops
  BY <1>21, <1>23, KeptSurvives DEF MachineStops, Closed
<1>24. CASE Evict
  <2>1. session = 0 /\ session' = 0 /\ server' = server
    BY <1>6, <1>24 DEF Evict, memoryVars, Loading, Loaded
  <2>2. CASE table' = table /\ packed' = packed
    BY <1>9, <2>1, <2>2
  <2>3. CASE UNCHANGED archiveVars /\ (packed' = File(NoData) \/ table' = File(NoTable))
    <3>1. InArchive(server)' = InArchive(server)
      BY <2>1, <2>3 DEF archiveVars, InArchive
    <3>2. InTable(server)' = {}
      <4>1. CASE packed' = File(NoData)
        <5>1. packed'.flushed.size = 0
          BY <4>1 DEF File, NoData
        <5> QED BY <1>5, <2>1, <5>1
      <4>2. CASE table' = File(NoTable)
        BY <1>6, <2>1, <4>2 DEF File, NoTable, InTable, Consistent
      <4> QED BY <2>3, <4>1, <4>2
    <3> QED BY <1>5, <1>8, <2>1, <3>1, <3>2 DEF Kept
  <2> QED BY <1>24, <2>2, <2>3 DEF Evict
<1>25. CASE Upgrade
  <2>1. /\ session' = session /\ server' = server + 1 /\ table' = table /\ packed' = packed
        /\ archive' = archive /\ archiveVersion' = archiveVersion /\ pc' = pc /\ slots' = slots
    BY <1>25 DEF Upgrade, fileVars, archiveVars, memoryVars
  <2>2. CASE session = 0
    <3>1. table.flushed.header # server' /\ archiveVersion # server'
      BY <1>6, <2>1
    <3>2. InTable(server)' = {} /\ InArchive(server)' = {}
      BY <2>1, <3>1 DEF InTable, Consistent, InArchive
    <3>3. InCache' = {}
      BY <1>5, <2>1, <2>2, <3>2 DEF Kept
    <3>4. Promise!Replace
      BY <2>1, <2>2, <3>3 DEF Promise!Replace
    <3> QED BY <3>4 DEF Promise!Next
  <2>3. CASE session # 0
    <3>1. InCache' = InCache
      BY <2>1, <2>3 DEF InCache, InTable, InArchive, Opening
    <3>2. Promise!Replace
      BY <2>1, <2>3, <3>1 DEF Promise!Replace
    <3> QED BY <3>2 DEF Promise!Next
  <2> QED BY <2>2, <2>3
<1> QED BY <1>10, <1>11, <1>12, <1>13, <1>14, <1>15, <1>16, <1>18, <1>19, <1>20, <1>22, <1>23,
           <1>24, <1>25 DEF Next

-----------------------------------------------------------------------------
(* The theorems.                                                           *)

LEMMA Invariance == Spec => []IInv
<1>1. Init => IInv
  BY Starts
<1>2. IInv /\ [Next]_vars => IInv'
  BY TypesKept, AgesKept, ArchiveKept, FilesKept, MemoryKept, StepsKept DEF IInv
<1> QED BY <1>1, <1>2, PTL DEF Spec

(* The bytes read back for a chunk are the chunk's, in the version that is *)
(* played, whatever crashed, failed or was evicted before                  *)
(* (SparseWgbCache.restore and writeChunk, sparse-wgb-cache.ts).           *)
THEOREM PresentRight == Spec => []PresentIsRight
<1>1. IInv => PresentIsRight
  BY Right
<1> QED BY <1>1, Invariance, PTL

(* A launch takes only a whole bundle for the archive, and plays the       *)
(* version that the server confirmed, unless a machine stopped during a    *)
(* download in place (openSyncSourceForUrl, downloadToSyncSource,          *)
(* writeCacheFile; wgb-cache.ts).                                          *)
THEOREM ArchiveIsRight == Spec => []ArchiveRight
<1>1. ASSUME IInv, HasZipEocd(archive.now) PROVE ArchiveRight
  <2>1. archive.now \in Archives /\ archive.now # NoData
    BY <1>1, ArchiveKinds DEF IInv, ArchiveInv, Files
  <2>2. CASE archive.now = Holed
    BY <1>1, <2>2 DEF IInv, ArchiveInv, ArchiveRight
  <2>3. CASE \E v \in Versions : archive.now = Whole(v)
    <3>1. PICK v \in Versions : archive.now = Whole(v)
      BY <2>3
    <3>2. archiveVersion = server => v = server
      BY <1>1, <3>1 DEF IInv, ArchiveInv, Agrees
    <3>3. pc = "local" /\ fetched # 0 => v = fetched
      BY <1>1, <3>1 DEF IInv, ArchiveInv
    <3> QED BY <3>1, <3>2, <3>3 DEF ArchiveRight
  <2> QED BY <2>1, <2>2, <2>3 DEF Archives
<1>2. IInv => ArchiveRight
  BY <1>1 DEF ArchiveRight
<1> QED BY <1>2, Invariance, PTL

(* "Only flushed disk chunks publish residency" (sparse-wgb-cache.ts:29):  *)
(* every step of the cache, of a crash and of promotion is one that the    *)
(* store it promises may take, or none.                                    *)
THEOREM Implements == Spec => KeepsPromise
<1>1. Init => Promise!Init
  <2> SUFFICES ASSUME Init PROVE Promise!Init
    OBVIOUS
  <2>1. server = 1 /\ session = 0
    BY DEF Init
  <2>2. InTable(server) = {} /\ InArchive(server) = {}
    BY <2>1 DEF Init, InTable, InArchive, Consistent, File, NoTable
  <2> QED BY <2>1, <2>2 DEF Promise!Init, InCache
<1> QED BY <1>1, StepsImplement, Invariance, PTL DEF Spec, KeepsPromise, Promise!Spec
=============================================================================

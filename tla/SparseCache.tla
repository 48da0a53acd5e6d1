----------------------------- MODULE SparseCache -----------------------------
(***************************************************************************)
(* The disk cache of bundles, over the files of one bundle.  A streamed    *)
(* bundle's chunks are packed into a file in the order in which they       *)
(* arrive; a table says in which slot each chunk is.  Once all the chunks  *)
(* are there the cache is promoted: copied in order to a new file, which   *)
(* is renamed to the bundle's own name.  A bundle that cannot be streamed  *)
(* is downloaded whole, to a new file that is renamed, or, failing that,   *)
(* into the file of that name itself.  A launch that finds a file of that  *)
(* name plays from it, if the server, should it answer, agrees.            *)
(*                                                                         *)
(* The tab or the I/O worker may die at any point, and the machine may     *)
(* stop.  What was written since the last flush of a file then survives in *)
(* part: each cell of it holds the old or the new value, or is torn.       *)
(* Renaming, removing and replacing a whole file are atomic and survive.   *)
(* A read or a truncation that fails while the cache is opened is left     *)
(* out: the cache is then emptied, as when its table makes no sense.       *)
(*                                                                         *)
(* An action does what lies between two points after which something new   *)
(* can be lost: a file is flushed together with the write to the next one, *)
(* as a crash between them leaves nothing that one after them could not.   *)
(*                                                                         *)
(* Writes and restoring are synchronous.  Promotion is not, but by then    *)
(* all the chunks are there and no write does anything.                    *)
(***************************************************************************)
EXTENDS Integers, FiniteSets

CONSTANTS
    N,              \* number of chunks of the bundle
    MaxVersion      \* bound: how often the bundle changes on the server

ASSUME SparseCacheConstants ==
    /\ N \in Nat \ {0}
    /\ MaxVersion \in Nat \ {0}

VARIABLES
    packed,         \* the file of chunks, "<key>.sparse"
    table,          \* the table of slots, "<key>.bitmap"
    part,           \* the new archive while it is made, "<key>.part"
    archive,        \* the whole bundle, "<key>", or NoArchive
    archiveVersion, \* the version in "<key>.version.json", or 0
    session,        \* the version the cache was opened for, 0 when it is not
    slots,          \* the table in memory
    complete,       \* promoted
    writable,       \* diskWritable of the runtime: no write has failed
    pc,             \* the step that is due
    arrived,        \* the chunk that is being written
    fetched,        \* the version downloaded, or that the server confirmed, or 0
    server,         \* the version the server has
    inPlace         \* history: the archive was downloaded into the file of its
                    \* own name, and not flushed

archiveVars == <<archive, archiveVersion, inPlace>>
fileVars == <<packed, table, part, archiveVars>>
memoryVars == <<session, slots, complete, writable, arrived, fetched>>
vars == <<fileVars, memoryVars, pc, server>>

Chunks == 1..N
Versions == 1..MaxVersion

\* The bytes of a chunk, and bytes that are no chunk's.
Bytes(v, ci) == [version |-> v, chunk |-> ci]
Torn == Bytes(0, 0)

\* A file as it is read now and as it was flushed last.
File(content) == [now |-> content, flushed |-> content]
Put(file, content) == [file EXCEPT !.now = content]
Flush(file) == File(file.now)

NoCells == [i \in Chunks |-> Torn]
NoData == [cells |-> NoCells, size |-> 0]
NoSlots == [ci \in Chunks |-> 0]
NoTable == [header |-> 0, slots |-> NoSlots]
NoArchive == File(NoData)

Init ==
    /\ packed = File(NoData)
    /\ table = File(NoTable)
    /\ part = File(NoData)
    /\ archive = NoArchive
    /\ archiveVersion = 0
    /\ session = 0
    /\ slots = NoSlots
    /\ complete = FALSE
    /\ writable = TRUE
    /\ pc = "closed"
    /\ arrived = 0
    /\ fetched = 0
    /\ server = 1
    /\ inPlace = FALSE

-----------------------------------------------------------------------------
(* What a crash leaves of a file.                                          *)

Between(a, b) == {n \in 0..N : (a <= n /\ n <= b) \/ (b <= n /\ n <= a)}

Leftovers(a, b, torn) == IF a = b THEN {a} ELSE {a, b, torn}

\* One of the functions whose value at each point is left over there.
Mixtures(f, g, torn) ==
    {h \in [Chunks -> UNION {Leftovers(f[i], g[i], torn) : i \in Chunks}] :
       \A i \in Chunks : h[i] \in Leftovers(f[i], g[i], torn)}

Truncated(data, n) ==
    [cells |-> [i \in Chunks |-> IF i <= n THEN data.cells[i] ELSE Torn], size |-> n]

DataSurvivors(file) ==
    {File(Truncated([cells |-> c], n)) :
       c \in Mixtures(file.flushed.cells, file.now.cells, Torn),
       n \in Between(file.flushed.size, file.now.size)}

\* Of an archive it matters only whether it is whole and whether it looks so:
\* what is left is the old one, the new one, or one with a hole before its end.
Holed == [cells |-> [NoCells EXCEPT ![N] = Bytes(0, N)], size |-> N]

ArchiveSurvivors ==
    {File(data) : data \in Leftovers(archive.flushed, archive.now, Holed)}

\* A torn slot is not told from an empty one, a torn header from none.
TableSurvivors(file) ==
    {File([header |-> h, slots |-> s]) :
       h \in Leftovers(file.flushed.header, file.now.header, 0),
       s \in Mixtures(file.flushed.slots, file.now.slots, 0)}

-----------------------------------------------------------------------------
(* Opening.                                                                *)

Step(from, to) == pc = from /\ pc' = to /\ UNCHANGED server

Present(s) == {ci \in Chunks : s[ci] > 0}
Downloaded(s) == Cardinality(Present(s))

\* The slots taken are the first ones, each taken once.
FirstSlots(s) == {s[ci] : ci \in Present(s)} = 1..Downloaded(s)

\* The table is one of version v, and its slots are in the packed file.
Consistent(t, data, v) ==
    /\ t.header = v
    /\ FirstSlots(t.slots)
    /\ Downloaded(t.slots) <= data.size

\* Every way to open the cache for version v starts here (restore).
Opened(v) ==
    /\ session' = v
    /\ slots' = NoSlots
    /\ complete' = FALSE
    /\ writable' = TRUE
    /\ arrived' = 0
    /\ fetched' = 0
    /\ pc' = IF Consistent(table.now, packed.now, v) THEN "tail" ELSE "reset"
    /\ part' = File(NoData)
    /\ UNCHANGED <<packed, table, archiveVersion, server>>

\* The chunk at the end of the file is the one with the end-of-directory record.
HasZipEocd(data) == data.size > 0 /\ data.cells[data.size].chunk = N

\* A server that answers confirms the size and the version (cacheMatchesServer).
MatchesServer == archive.now.size = N /\ archiveVersion = server

ArchiveUsable == MatchesServer /\ HasZipEocd(archive.now)

\* A launch plays from the archive, if the server agrees or cannot be asked.
OpenArchive ==
    /\ pc = "closed"
    /\ HasZipEocd(archive.now)
    /\ \/ MatchesServer /\ fetched' = server
       \/ fetched' = 0
    /\ pc' = "local"
    /\ UNCHANGED <<fileVars, session, slots, complete, writable, arrived, server>>

\* The archive is removed, if it can be.
Discard ==
    \/ archive' = NoArchive /\ inPlace' = FALSE
    \/ UNCHANGED <<archive, inPlace>>

\* The loader cannot read it.
LoaderFails ==
    /\ pc = "local"
    /\ Discard
    /\ fetched' = 0
    /\ pc' = "closed"
    /\ UNCHANGED <<packed, table, part, archiveVersion, session, slots, complete,
                   writable, arrived, server>>

\* An archive that is not of use is discarded, and the bundle is streamed.
Launch ==
    /\ pc = "closed"
    /\ ~ArchiveUsable
    /\ Discard
    /\ Opened(server)

\* The I/O worker is replaced while the bundle is played, and the cache opened
\* again, whatever the old worker was doing.
Restart ==
    /\ session = server
    /\ Opened(server)
    /\ UNCHANGED <<archive, inPlace>>

\* A consistent table is kept; data whose slot never committed is cut off.
KeepTableUnflushed ==           \* mutant
    /\ Step("tail", "open")
    /\ packed' = Flush(Put(packed, Truncated(packed.now, Downloaded(table.now.slots))))
    /\ slots' = table.now.slots
    /\ UNCHANGED <<table, part, archiveVars, session, complete, writable,
                   arrived, fetched>>

KeepTable ==
    /\ Step("tail", "open")
    /\ packed' = Flush(Put(packed, Truncated(packed.now, Downloaded(table.now.slots))))
    /\ table' = Flush(table)
    /\ slots' = table.now.slots
    /\ UNCHANGED <<part, archiveVars, session, complete, writable, arrived,
                   fetched>>

\* Any other is replaced by an empty one, after the data has gone.
ResetData ==
    /\ Step("reset", "rewrite")
    /\ packed' = Put(packed, NoData)
    /\ UNCHANGED <<table, part, archiveVars, memoryVars>>

RewriteTableUnflushed ==        \* mutant
    /\ Step("rewrite", "flushTable")
    /\ table' = Put(table, [header |-> session, slots |-> NoSlots])
    /\ UNCHANGED <<packed, part, archiveVars, memoryVars>>

RewriteTable ==
    /\ Step("rewrite", "flushTable")
    /\ packed' = Flush(packed)
    /\ table' = Put(table, [header |-> session, slots |-> NoSlots])
    /\ UNCHANGED <<part, archiveVars, memoryVars>>

FlushTable ==
    /\ Step("flushTable", "open")
    /\ table' = Flush(table)
    /\ slots' = NoSlots
    /\ UNCHANGED <<packed, part, archiveVars, session, complete, writable,
                   arrived, fetched>>

-----------------------------------------------------------------------------
(* Writing a chunk that arrived: its bytes, then its slot.                 *)

Has(ci) == slots[ci] > 0
NextSlot == Downloaded(slots) + 1

WriteData(ci) ==
    /\ Step("open", "writeSlot")
    /\ writable
    /\ ~Has(ci)
    /\ packed' = [packed EXCEPT !.now.cells[NextSlot] = Bytes(session, ci),
                              !.now.size = NextSlot]
    /\ arrived' = ci
    /\ UNCHANGED <<table, part, archiveVars, session, slots, complete, writable,
                   fetched>>

WriteSlot ==
    /\ Step("writeSlot", "commit")
    /\ packed' = Flush(packed)
    /\ table' = Put(table, [table.now EXCEPT !.slots[arrived] = NextSlot])
    /\ UNCHANGED <<part, archiveVars, memoryVars>>

Commit ==
    /\ Step("commit", "open")
    /\ table' = Flush(table)
    /\ slots' = [slots EXCEPT ![arrived] = NextSlot]
    /\ arrived' = 0
    /\ UNCHANGED <<packed, part, archiveVars, session, complete, writable,
                   fetched>>

\* The write throws: the runtime writes no more.
WriteFails ==
    /\ pc \in {"writeSlot", "commit"}
    /\ writable' = FALSE
    /\ arrived' = 0
    /\ pc' = "open"
    /\ UNCHANGED <<fileVars, session, slots, complete, fetched, server>>

-----------------------------------------------------------------------------
(* Promotion.                                                              *)

Promote ==
    /\ Step("open", "move")
    /\ ~complete
    /\ Downloaded(slots) = N
    /\ part' = Put(File(NoData), [cells |-> [ci \in Chunks |-> packed.now.cells[slots[ci]]], size |-> N])
    /\ UNCHANGED <<packed, table, archiveVars, memoryVars>>

MoveUnflushed ==        \* mutant
    /\ Step("move", "storeVersion")
    /\ archive' = part
    /\ part' = File(NoData)
    /\ inPlace' = FALSE
    /\ UNCHANGED <<packed, table, archiveVersion, memoryVars>>

Move ==
    /\ Step("move", "storeVersion")
    /\ archive' = Flush(part)
    /\ part' = File(NoData)
    /\ inPlace' = FALSE
    /\ UNCHANGED <<packed, table, archiveVersion, memoryVars>>

StoreVersion ==
    /\ Step("storeVersion", "reopen")
    /\ archiveVersion' = session
    /\ UNCHANGED <<packed, table, part, archive, inPlace, memoryVars>>

\* The archive is opened in place of the packed file.  This and the table are
\* removed, if they can be.
Reopen ==
    /\ Step("reopen", "open")
    /\ complete' = TRUE
    /\ packed' \in {packed, File(NoData)}
    /\ table' \in {table, File(NoTable)}
    /\ UNCHANGED <<part, archiveVars, session, slots, writable, arrived, fetched>>

\* Promotion throws, and may be tried again.
PromotionFails ==
    /\ pc \in {"move", "storeVersion", "reopen"}
    /\ pc' = "open"
    /\ UNCHANGED <<fileVars, memoryVars, server>>

-----------------------------------------------------------------------------
(* Downloading the whole bundle.                                           *)

Whole(v) == [cells |-> [i \in Chunks |-> Bytes(v, i)], size |-> N]

\* Streaming is not to be had; the bundle goes to a new file.
DownloadPart ==
    /\ Step("closed", "publish")
    /\ ~ArchiveUsable
    /\ Discard
    /\ part' = Put(File(NoData), Whole(server))
    /\ fetched' = server
    /\ UNCHANGED <<packed, table, archiveVersion, session, slots, complete,
                   writable, arrived>>

\* The new file takes the name of the old one, if any.
Publish ==
    /\ Step("publish", "storeFetched")
    /\ archive' = Flush(part)
    /\ part' = File(NoData)
    /\ inPlace' = FALSE
    /\ UNCHANGED <<packed, table, archiveVersion, memoryVars>>

StoreFetched ==
    /\ Step("storeFetched", "local")
    /\ archiveVersion' = fetched
    /\ UNCHANGED <<packed, table, part, archive, inPlace, memoryVars>>

\* The download, or what follows it, throws; the bundle is loaded into memory,
\* and from there written to the file of that name, which is emptied first.
DownloadInPlace ==
    /\ pc \in {"publish", "storeFetched"}
    /\ pc' = "inPlace"
    /\ archive' = Put(archive, NoData)
    /\ inPlace' = TRUE
    /\ fetched' = server
    /\ UNCHANGED <<packed, table, part, archiveVersion, session, slots, complete,
                   writable, arrived, server>>

\* A part of the bundle would not be taken for it, no more than an empty file.
WriteInPlace ==
    /\ Step("inPlace", "flushInPlace")
    /\ archive' = Put(archive, Whole(fetched))
    /\ UNCHANGED <<packed, table, part, archiveVersion, inPlace, memoryVars>>

\* The whole is flushed before its version is stored.
FlushInPlace ==
    /\ Step("flushInPlace", "storeInPlace")
    /\ archive' = Flush(archive)
    /\ inPlace' = FALSE
    /\ UNCHANGED <<packed, table, part, archiveVersion, memoryVars>>

\* Afterwards the launch looks for the archive once more.
StoreInPlace ==
    /\ Step("storeInPlace", "closed")
    /\ archiveVersion' = fetched
    /\ fetched' = 0
    /\ UNCHANGED <<packed, table, part, archive, inPlace, session, slots, complete,
                   writable, arrived>>

\* No space: what was written stays.
InPlaceFails ==
    /\ pc \in {"inPlace", "flushInPlace", "storeInPlace"}
    /\ pc' = "closed"
    /\ fetched' = 0
    /\ UNCHANGED <<fileVars, session, slots, complete, writable, arrived, server>>

-----------------------------------------------------------------------------
(* The world outside.                                                      *)

\* A ".part" file that is left over is removed, or emptied, before it is used.
Closed ==
    /\ session' = 0
    /\ slots' = NoSlots
    /\ complete' = FALSE
    /\ writable' = TRUE
    /\ arrived' = 0
    /\ fetched' = 0
    /\ pc' = "closed"
    /\ part' = File(NoData)
    /\ UNCHANGED <<archiveVersion, server>>

\* The tab is closed or crashes, or opening has failed: what was written is
\* there, but not safe yet.
TabDies ==
    /\ pc # "closed"
    /\ Closed
    /\ UNCHANGED <<packed, table, archive, inPlace>>

\* The machine stops.
MachineStops ==
    /\ packed' \in DataSurvivors(packed)
    /\ table' \in TableSurvivors(table)
    /\ archive' \in ArchiveSurvivors
    /\ inPlace' = (inPlace /\ archive' = File(Holed))
    /\ Closed

\* Space is made for another bundle: any file of this one may go.
Evict ==
    /\ pc = "closed"
    /\ \/ packed' = File(NoData) /\ UNCHANGED <<table, archiveVars>>
       \/ table' = File(NoTable) /\ UNCHANGED <<packed, archiveVars>>
       \/ Discard /\ UNCHANGED <<packed, table, archiveVersion>>
       \/ archiveVersion' = 0 /\ UNCHANGED <<packed, table, archive, inPlace>>
    /\ UNCHANGED <<part, memoryVars, pc, server>>

\* A new version of the bundle is put on the server.
Upgrade ==
    /\ server < MaxVersion
    /\ server' = server + 1
    /\ UNCHANGED <<fileVars, memoryVars, pc>>

-----------------------------------------------------------------------------
Next ==
    \/ OpenArchive \/ LoaderFails \/ Launch \/ Restart \/ KeepTable
    \/ ResetData \/ RewriteTable \/ FlushTable
    \/ \E ci \in Chunks : WriteData(ci)
    \/ WriteSlot \/ Commit \/ WriteFails
    \/ Promote \/ Move \/ StoreVersion \/ Reopen \/ PromotionFails
    \/ DownloadPart \/ Publish \/ StoreFetched
    \/ DownloadInPlace \/ WriteInPlace \/ FlushInPlace \/ StoreInPlace \/ InPlaceFails
    \/ TabDies \/ MachineStops \/ Evict \/ Upgrade

Spec == Init /\ [][Next]_vars

-----------------------------------------------------------------------------
(* Properties.                                                             *)

(* A chunk that the cache says it has is read back as the chunk of the     *)
(* version that is played, after any crash, failed write, replacement of   *)
(* the bundle or eviction before: never a hole, never another chunk, never *)
(* another version.                                                        *)
PresentIsRight ==
    \A ci \in Chunks :
        Has(ci) => (IF complete THEN archive.now.cells[ci]
                                ELSE packed.now.cells[slots[ci]]) = Bytes(session, ci)

(* A launch never takes less than a whole bundle of one version for the    *)
(* archive: not after any crash, failed download or failed promotion, with *)
(* or without the server; and what it plays from is the version that the   *)
(* server has confirmed.  Excepted is what a machine leaves that stops     *)
(* before a download in place was flushed: a hole is not looked for.       *)
ArchiveRight ==
    HasZipEocd(archive.now) =>
        \/ \E v \in Versions :
             /\ archive.now = Whole(v)
             /\ archiveVersion = server => v = server
             /\ pc = "local" /\ fetched # 0 => v = fetched
        \/ archive.now = Holed /\ inPlace

\* The chunks that are safe for a launch for version v.
BytesOf(v, chunks) == {Bytes(v, ci) : ci \in chunks}

InTable(v) ==
    IF Consistent(table.flushed, packed.flushed, v)
    THEN BytesOf(v, Present(table.flushed.slots)) ELSE {}

InArchive(v) ==
    IF HasZipEocd(archive.now) /\ HasZipEocd(archive.flushed) /\ archiveVersion = v
    THEN BytesOf(v, Chunks) ELSE {}

Opening == pc \in {"tail", "reset", "rewrite", "flushTable"}

InCache ==
    IF session = 0 THEN InTable(server) \cup InArchive(server)
    ELSE InArchive(session) \cup
         (IF Opening THEN InTable(session) ELSE BytesOf(session, Present(slots)))

Promise == INSTANCE ChunkStore WITH current <- server, wanted <- session, stored <- InCache

(* "Only flushed disk chunks publish residency" (SparseWgbCache): what the *)
(* cache has said it has is there after a crash at any point, promotion    *)
(* included, until it is evicted or another version is played.             *)
KeepsPromise == Promise!Spec
=============================================================================

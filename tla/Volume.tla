------------------------------- MODULE Volume -------------------------------
(***************************************************************************)
(* The session core of winluks: the block callbacks WinSpd calls           *)
(* (src/adapter.rs, src/adapter/windows.rs), the encrypted volume under    *)
(* them (src/volume.rs) and the image file at the bottom (src/image.rs),   *)
(* from opening the image to shutdown, across kills and power cuts.        *)
(*                                                                         *)
(* The unit of data is the 512-byte sector.  A request writes one value to *)
(* every sector of its range; the IV that encryption binds to a sector is  *)
(* kept in the cell, so a sector decrypted under another IV is Noise.      *)
(* "cache" is the image as every handle of the running system sees it,     *)
(* "disk" what a power cut leaves.                                         *)
(***************************************************************************)
EXTENDS Integers, Sequences

CONSTANTS
  Callers,       \* dispatcher threads of the storage unit (WinSpd: one)
  Main,          \* the thread of serve(), which shuts the session down
  ImageLen,      \* sectors of the image file
  DataOffset,    \* first sector of the encrypted payload
  DataLen,       \* sectors of the payload
  MaxTransfer,   \* MAX_TRANSFER, in sectors
  Lbas, Counts,  \* the block addresses and counts requests carry
  Vals,          \* contents a file system writes
  Noise,         \* what decrypting anything else gives
  Raw,           \* a cell outside the payload: LUKS2 header, keyslots, tail
  Torn,          \* a cell a write or its writeback was cut in
  NoThread

Threads == Callers \cup {Main}
Sectors == 0..(DataLen - 1)
Cells   == 0..(ImageLen - 1)
Payload == DataOffset..(DataOffset + DataLen - 1)
Enc(i, v) == [iv |-> i, val |-> v]
Encrypted == [iv : Sectors, val : Vals]

ASSUME VolumeAssumption ==
  /\ ImageLen \in Nat /\ DataOffset \in Nat /\ DataLen \in Nat /\ MaxTransfer \in Nat
  /\ DataOffset + DataLen <= ImageLen       \* Metadata::from_json
  /\ Lbas \subseteq Nat /\ Counts \subseteq Nat
  /\ Main \notin Callers /\ NoThread \notin Threads
  /\ Raw \notin Encrypted /\ Torn \notin Encrypted /\ Raw # Torn
  /\ Noise \notin Vals

NoReq   == [op |-> "none", lba |-> 0, count |-> 0, val |-> Noise]
NoReply == [code |-> "None", data |-> <<>>]
TheFlush == [op |-> "flush", lba |-> 0, count |-> 0, val |-> Noise]

Requests == [op : {"write"}, lba : Lbas, count : Counts, val : Vals]
            \cup [op : {"read", "flush", "unmap"}, lba : Lbas, count : Counts, val : {Noise}]

Codes == {"None", "Ok", "ReadOnly", "InvalidRange", "Stopping", "WritebackFailed",
          "UnsupportedOperation", "Other"}

VARIABLES
  mode,        \* Image.mode
  phase,       \* where serve() is
  faulted,     \* UnlockedVolume.faulted
  poisoned,    \* a thread panicked while it held UnlockedVolume.io
  holder,      \* the thread that holds UnlockedVolume.io
  stopping,    \* BlockAdapter.stopping
  syncFailed,  \* sync_failed of BlockAdapter::shutdown
  verdict,     \* what shutdown answered: "clean", "failed", or "none" yet
  pc,          \* where every thread is
  req,         \* the request every thread carries out
  buf,         \* its buffer of ciphertext
  done,        \* `done` of the loops of write_all_at and read_exact_at
  reply,       \* the last answer of every thread
  cache, disk, \* the image file
  acked,       \* history: the value last written with success, per sector
  suspect,     \* history: sectors with an accepted, unacknowledged write
  broken       \* history: a request of this session has failed

threadVars  == <<pc, req, buf, done, reply>>
faultVars   == <<faulted, poisoned, broken>>
serveVars   == <<phase, stopping, syncFailed, verdict>>
historyVars == <<acked, suspect>>
vars == <<mode, serveVars, faultVars, holder, threadVars, cache, disk, historyVars>>

Up == phase \in {"serving", "flushing", "draining"}

----------------------------------------------------------------------------
(* Ranges and cells.                                                      *)

\* MUTANT the classic off-by-one: one sector more than the payload has
CheckedRange_OffByOne(lba, count) ==
  count <= MaxTransfer /\ lba <= DataLen /\ count <= DataLen - lba + 1
CheckedRange(lba, count) ==
  count <= MaxTransfer /\ lba <= DataLen /\ count <= DataLen - lba

FlushRange(lba, count) == lba <= DataLen /\ count <= DataLen - lba

Span(r) == {r.lba + k : k \in 0..(r.count - 1)}

\* MUTANT the IV counts from the start of the request
EncryptSectors_RequestIv(first, count, v) == [k \in 1..count |-> Enc(k - 1, v)]
EncryptSectors(first, count, v) == [k \in 1..count |-> Enc(first + k - 1, v)]

Decrypt(i, cell) == IF \E v \in Vals : cell = Enc(i, v) THEN cell.val ELSE Noise
\* MUTANT the IV counts from the start of the image, not of the payload
DecryptSectors_ImageIv(first, cells) ==
  [k \in 1..Len(cells) |-> Decrypt(DataOffset + first + k - 1, cells[k])]
DecryptSectors(first, cells) == [k \in 1..Len(cells) |-> Decrypt(first + k - 1, cells[k])]

----------------------------------------------------------------------------
(* The callbacks up to the volume: the checks of the shim, of the Rust     *)
(* callback and of BlockAdapter, in their order.                           *)
Admission(r) ==
  IF r.op \in {"read", "write"} /\ r.count > MaxTransfer THEN "InvalidRange"
  ELSE IF r.op \in {"write", "unmap"} /\ mode = "ReadOnly" THEN "ReadOnly"
  ELSE IF r.op = "unmap" THEN "UnsupportedOperation"
  ELSE IF stopping THEN "Stopping"
  ELSE IF \/ r.op = "write" /\ ~CheckedRange(r.lba, r.count)
          \/ r.op = "flush" /\ ~FlushRange(r.lba, r.count) THEN "InvalidRange"
  ELSE "Ok"

(* The thread answers and is idle again. *)
Return(t, code, data) ==
  /\ pc' = [pc EXCEPT ![t] = "idle"]
  /\ req' = [req EXCEPT ![t] = NoReq]
  /\ buf' = [buf EXCEPT ![t] = <<>>]
  /\ done' = [done EXCEPT ![t] = 0]
  /\ reply' = [reply EXCEPT ![t] = [code |-> code, data |-> data]]

Refuse(t, r) ==
  /\ Up /\ pc[t] = "idle"
  /\ Admission(r) # "Ok"
  /\ Return(t, Admission(r), <<>>)
  /\ UNCHANGED <<mode, serveVars, faultVars, holder, cache, disk, historyVars>>

Enter(t, r) ==
  /\ Up /\ pc[t] = "idle"
  /\ Admission(r) = "Ok"
  /\ pc' = [pc EXCEPT ![t] = "wait"]
  /\ req' = [req EXCEPT ![t] = r]
  /\ reply' = [reply EXCEPT ![t] = NoReply]
  /\ UNCHANGED <<mode, serveVars, faultVars, holder, buf, done, cache, disk, historyVars>>

----------------------------------------------------------------------------
(* UnlockedVolume.io is taken.  What read_at, write_at and flush decide    *)
(* before any I/O, they decide in the step that takes the lock.            *)
\* MUTANT the callbacks do not exclude each other
CanLock_NoWait(t) == pc[t] = "wait"
CanLock(t) == pc[t] = "wait" /\ holder = NoThread

(* A poisoned lock faults the volume; a faulted volume refuses. *)
RefuseFaulted(t) ==
  /\ CanLock(t)
  /\ poisoned \/ faulted
  /\ faulted' = TRUE
  /\ Return(t, "WritebackFailed", <<>>)
  /\ UNCHANGED <<mode, serveVars, poisoned, broken, holder, cache, disk, historyVars>>

\* MUTANT a poisoned lock is used as if it were not
Sound_IgnoresPoison(t) == CanLock(t) /\ ~faulted
Sound(t) == CanLock(t) /\ ~poisoned /\ ~faulted

IsTransfer(r) == r.op \in {"read", "write"}
Applies(t) == Sound(t) /\ (IsTransfer(req[t]) => CheckedRange(req[t].lba, req[t].count))

(* read_at checks its range under the lock, write_at did before it. *)
RefuseRange(t) ==
  /\ Sound(t) /\ IsTransfer(req[t])
  /\ ~CheckedRange(req[t].lba, req[t].count)
  /\ Return(t, "InvalidRange", <<>>)
  /\ UNCHANGED <<mode, serveVars, faultVars, holder, cache, disk, historyVars>>

AnswerEmpty(t) ==
  /\ Applies(t) /\ IsTransfer(req[t]) /\ req[t].count = 0
  /\ Return(t, "Ok", <<>>)
  /\ UNCHANGED <<mode, serveVars, faultVars, holder, cache, disk, historyVars>>

(* encrypt_sectors fails: an error for this write, no fault. *)
EncryptFails(t) ==
  /\ Applies(t) /\ req[t].op = "write" /\ req[t].count > 0
  /\ Return(t, "Other", <<>>)
  /\ UNCHANGED <<mode, serveVars, faultVars, holder, cache, disk, historyVars>>

StartTransfer(t) ==
  /\ Applies(t) /\ IsTransfer(req[t]) /\ req[t].count > 0
  /\ holder' = t
  /\ pc' = [pc EXCEPT ![t] = "io"]
  /\ IF req[t].op = "write"
     THEN /\ buf' = [buf EXCEPT ![t] = EncryptSectors(req[t].lba, req[t].count, req[t].val)]
          /\ suspect' = suspect \cup Span(req[t])
     ELSE UNCHANGED <<buf, suspect>>
  /\ UNCHANGED <<mode, serveVars, faultVars, req, done, reply, cache, disk, acked>>

StartFlush(t) ==
  /\ Sound(t) /\ req[t].op = "flush"
  /\ holder' = t
  /\ pc' = [pc EXCEPT ![t] = "sync"]
  /\ UNCHANGED <<mode, serveVars, faultVars, req, buf, done, reply, cache, disk, historyVars>>

----------------------------------------------------------------------------
(* The image file.                                                        *)

Cell(t) == DataOffset + req[t].lba + done[t]
Transferring(t, op) == pc[t] = "io" /\ req[t].op = op

(* One round of the loop of read_exact_at. *)
ReadSome(t) ==
  /\ Transferring(t, "read") /\ done[t] < req[t].count
  /\ buf' = [buf EXCEPT ![t] = Append(buf[t], cache[Cell(t)])]
  /\ done' = [done EXCEPT ![t] = done[t] + 1]
  /\ UNCHANGED <<mode, serveVars, faultVars, holder, pc, req, reply, cache, disk, historyVars>>

ReadDone(t) ==
  /\ Transferring(t, "read") /\ done[t] = req[t].count
  /\ holder' = NoThread
  /\ Return(t, "Ok", DecryptSectors(req[t].lba, buf[t]))
  /\ UNCHANGED <<mode, serveVars, faultVars, cache, disk, historyVars>>

(* decrypt_sectors fails: an error for this read, no fault, no data. *)
DecryptFails(t) ==
  /\ Transferring(t, "read") /\ done[t] = req[t].count
  /\ holder' = NoThread
  /\ Return(t, "Other", <<>>)
  /\ UNCHANGED <<mode, serveVars, faultVars, cache, disk, historyVars>>

(* One round of the loop of write_all_at that ends at a sector boundary; *)
(* after the last one Image::sync is next.                               *)
WriteSome(t) ==
  /\ Transferring(t, "write") /\ done[t] < req[t].count
  /\ cache' = [cache EXCEPT ![Cell(t)] = buf[t][done[t] + 1]]
  /\ done' = [done EXCEPT ![t] = done[t] + 1]
  /\ pc' = [pc EXCEPT ![t] = IF done[t] + 1 = req[t].count THEN "sync" ELSE "io"]
  /\ UNCHANGED <<mode, serveVars, faultVars, holder, req, buf, reply, disk, historyVars>>

(* A short write that ends inside a sector. *)
WriteTorn(t) ==
  /\ Transferring(t, "write") /\ done[t] < req[t].count
  /\ cache[Cell(t)] # Torn
  /\ cache' = [cache EXCEPT ![Cell(t)] = Torn]
  /\ UNCHANGED <<mode, serveVars, faultVars, holder, threadVars, disk, historyVars>>

Acknowledge(t) ==
  IF req[t].op = "write"
  THEN /\ acked' = [s \in Sectors |-> IF s \in Span(req[t]) THEN req[t].val ELSE acked[s]]
       /\ suspect' = suspect \ Span(req[t])
  ELSE UNCHANGED historyVars

\* MUTANT the write is answered without sync_all
SyncOk_NoSync(t) ==
  /\ pc[t] = "sync"
  /\ holder' = NoThread
  /\ UNCHANGED disk
  /\ Acknowledge(t)
  /\ Return(t, "Ok", <<>>)
  /\ UNCHANGED <<mode, serveVars, faultVars, cache>>
(* Image::sync succeeds; a read-only image is not synced. *)
SyncOk(t) ==
  /\ pc[t] = "sync"
  /\ holder' = NoThread
  /\ disk' = IF mode = "ReadWrite" THEN cache ELSE disk
  /\ Acknowledge(t)
  /\ Return(t, "Ok", <<>>)
  /\ UNCHANGED <<mode, serveVars, faultVars, cache>>

Fatal(t) == req[t].op # "read" \/ mode = "ReadWrite"
\* MUTANT an error path returns with the lock still held
BackendFails_KeepsLock(t) ==
  /\ pc[t] \in {"io", "sync"}
  /\ req[t].op = "read" => done[t] < req[t].count
  /\ faulted' = (faulted \/ Fatal(t))
  /\ broken' = (broken \/ Fatal(t))
  /\ Return(t, IF Fatal(t) THEN "WritebackFailed" ELSE "Other", <<>>)
  /\ UNCHANGED <<mode, serveVars, poisoned, holder, cache, disk, historyVars>>
(* A read, a write, the sync or the check of the file's length fails. *)
BackendFails(t) ==
  /\ pc[t] \in {"io", "sync"}
  /\ req[t].op = "read" => done[t] < req[t].count
  /\ holder' = NoThread
  /\ faulted' = (faulted \/ Fatal(t))
  /\ broken' = (broken \/ Fatal(t))
  /\ Return(t, IF Fatal(t) THEN "WritebackFailed" ELSE "Other", <<>>)
  /\ UNCHANGED <<mode, serveVars, poisoned, cache, disk, historyVars>>

(* A panic in the backend unwinds through the lock guard, which poisons    *)
(* the lock, up to the callback's catch_unwind, which faults the volume.   *)
Panic(t) ==
  /\ t \in Callers
  /\ pc[t] \in {"io", "sync"}
  /\ holder' = NoThread
  /\ poisoned' = TRUE
  /\ broken' = TRUE
  /\ pc' = [pc EXCEPT ![t] = "unwinding"]
  /\ req' = [req EXCEPT ![t] = NoReq]
  /\ buf' = [buf EXCEPT ![t] = <<>>]
  /\ done' = [done EXCEPT ![t] = 0]
  /\ UNCHANGED <<mode, serveVars, faulted, reply, cache, disk, historyVars>>

Caught(t) ==
  /\ pc[t] = "unwinding"
  /\ faulted' = TRUE
  /\ Return(t, "WritebackFailed", <<>>)
  /\ UNCHANGED <<mode, serveVars, poisoned, broken, holder, cache, disk, historyVars>>

----------------------------------------------------------------------------
(* serve() and BlockAdapter::shutdown.                                    *)

(* The session is over: after CLOSE_FAILED serve faults the volume.  Then *)
(* shutdown calls flush(0, 0), which is admitted as any flush is.         *)
BeginShutdown(failed) ==
  /\ phase = "serving"
  /\ phase' = "flushing"
  /\ faulted' = (faulted \/ failed)
  /\ broken' = (broken \/ failed)
  /\ pc' = [pc EXCEPT ![Main] = "wait"]
  /\ req' = [req EXCEPT ![Main] = TheFlush]
  /\ UNCHANGED <<mode, poisoned, holder, stopping, syncFailed, verdict, buf, done, reply,
                 cache, disk, historyVars>>

Stop ==
  /\ phase = "flushing" /\ pc[Main] = "idle"
  /\ phase' = "draining"
  /\ stopping' = TRUE
  /\ syncFailed' = (reply[Main].code # "Ok")
  /\ UNCHANGED <<mode, faultVars, holder, verdict, threadVars, cache, disk, historyVars>>

\* MUTANT the fault flag is not read after the drain
Drained_SampledEarly(transportError) ==
  /\ phase = "draining"
  /\ \A t \in Callers : pc[t] = "idle"
  /\ phase' = "closed"
  /\ verdict' = IF syncFailed \/ transportError THEN "failed" ELSE "clean"
  /\ UNCHANGED <<mode, faultVars, holder, stopping, syncFailed, threadVars, cache, disk,
                 historyVars>>
(* wl_close has waited for the dispatcher; the fault flag is read now. *)
Drained(transportError) ==
  /\ phase = "draining"
  /\ \A t \in Callers : pc[t] = "idle"
  /\ phase' = "closed"
  /\ verdict' = IF syncFailed \/ transportError \/ faulted THEN "failed" ELSE "clean"
  /\ UNCHANGED <<mode, faultVars, holder, stopping, syncFailed, threadVars, cache, disk,
                 historyVars>>

(* The memory of a process that has no session. *)
NoSession ==
  /\ faulted' = FALSE /\ poisoned' = FALSE /\ broken' = FALSE
  /\ holder' = NoThread
  /\ stopping' = FALSE /\ syncFailed' = FALSE /\ verdict' = "none"
  /\ pc' = [t \in Threads |-> "idle"]
  /\ req' = [t \in Threads |-> NoReq]
  /\ buf' = [t \in Threads |-> <<>>]
  /\ done' = [t \in Threads |-> 0]
  /\ reply' = [t \in Threads |-> NoReply]

(* A new session on the image, after the last one ended in any way. *)
Open(m) ==
  /\ phase \in {"closed", "down"}
  /\ phase' = "serving"
  /\ mode' = m
  /\ NoSession
  /\ UNCHANGED <<cache, disk, historyVars>>

----------------------------------------------------------------------------
(* The environment.                                                       *)

(* The system writes a cached cell back on its own. *)
Writeback(i) ==
  /\ cache[i] # disk[i]
  /\ disk' = [disk EXCEPT ![i] = cache[i]]
  /\ UNCHANGED <<mode, serveVars, faultVars, holder, threadVars, cache, historyVars>>

(* The process is killed: what it wrote stays in the system's cache. *)
Kill ==
  /\ Up
  /\ phase' = "down"
  /\ NoSession
  /\ UNCHANGED <<mode, cache, disk, historyVars>>

(* The power fails: the cache is lost, and a cell on its way to the disk *)
(* may be torn.                                                          *)
PowerCut(torn) ==
  /\ torn \subseteq {i \in Cells : cache[i] # disk[i]}
  /\ phase' = "down"
  /\ NoSession
  /\ disk' = [i \in Cells |-> IF i \in torn THEN Torn ELSE disk[i]]
  /\ cache' = disk'
  /\ UNCHANGED <<mode, historyVars>>

----------------------------------------------------------------------------
Init ==
  /\ mode = "ReadOnly" /\ phase = "down"
  /\ faulted = FALSE /\ poisoned = FALSE /\ broken = FALSE
  /\ holder = NoThread
  /\ stopping = FALSE /\ syncFailed = FALSE /\ verdict = "none"
  /\ pc = [t \in Threads |-> "idle"]
  /\ req = [t \in Threads |-> NoReq]
  /\ buf = [t \in Threads |-> <<>>]
  /\ done = [t \in Threads |-> 0]
  /\ reply = [t \in Threads |-> NoReply]
  /\ acked \in [Sectors -> Vals]
  /\ suspect = {}
  /\ disk = [i \in Cells |-> IF i \in Payload THEN Enc(i - DataOffset, acked[i - DataOffset])
                             ELSE Raw]
  /\ cache = disk

(* The steps of a thread that holds or waits for the lock. *)
Step(t) ==
  \/ RefuseFaulted(t) \/ RefuseRange(t) \/ AnswerEmpty(t) \/ EncryptFails(t)
  \/ StartTransfer(t) \/ StartFlush(t)
  \/ ReadSome(t) \/ ReadDone(t) \/ DecryptFails(t)
  \/ WriteSome(t) \/ WriteTorn(t) \/ SyncOk(t) \/ BackendFails(t)
  \/ Panic(t) \/ Caught(t)

Serve == \/ \E failed \in BOOLEAN : BeginShutdown(failed)
         \/ Stop
         \/ \E err \in BOOLEAN : Drained(err)
         \/ \E m \in {"ReadOnly", "ReadWrite"} : Open(m)

Environment == \/ \E i \in Cells : Writeback(i)
               \/ Kill
               \/ \E torn \in SUBSET Cells : PowerCut(torn)

Next == \/ \E t \in Callers, r \in Requests : Refuse(t, r) \/ Enter(t, r)
        \/ \E t \in Threads : Step(t)
        \/ Serve
        \/ Environment

Spec == Init /\ [][Next]_vars

(* A thread inside a callback runs on, and so does serve() once it has     *)
(* begun to close.  Nothing makes a new request or a new session happen.   *)
Fairness == /\ \A t \in Threads : WF_vars(Step(t))
            /\ WF_vars(Stop)
            /\ WF_vars(\E err \in BOOLEAN : Drained(err))

LiveSpec == Spec /\ Fairness

----------------------------------------------------------------------------
(* Properties.                                                            *)

Busy(t) == pc[t] \in {"io", "sync"}
CellType == Encrypted \cup {Raw, Torn}

(* The type of every variable, and who can hold the session lock. *)
TypeOK ==
  /\ mode \in {"ReadOnly", "ReadWrite"}
  /\ phase \in {"serving", "flushing", "draining", "closed", "down"}
  /\ faulted \in BOOLEAN /\ poisoned \in BOOLEAN /\ broken \in BOOLEAN
  /\ stopping \in BOOLEAN /\ syncFailed \in BOOLEAN
  /\ verdict \in {"none", "clean", "failed"}
  /\ holder \in Threads \cup {NoThread}
  /\ pc \in [Threads -> {"idle", "wait", "io", "sync", "unwinding"}]
  /\ req \in [Threads -> Requests \cup {NoReq, TheFlush}]
  /\ buf \in [Threads -> Seq(CellType)]
  /\ done \in [Threads -> Nat]
  /\ reply \in [Threads -> [code : Codes, data : Seq(Vals \cup {Noise})]]
  /\ cache \in [Cells -> CellType]
  /\ disk \in [Cells -> CellType]
  /\ acked \in [Sectors -> Vals]
  /\ suspect \subseteq Sectors

(* The header, the keyslots and what follows the payload never change: no  *)
(* request, whatever its range, reaches them through write_at's            *)
(* checked_range, and no failed, killed or torn write does either.         *)
HeadersIntact == \A i \in Cells \ Payload : cache[i] = Raw /\ disk[i] = Raw

(* What write_at answered with success is on the disk, encrypted for its   *)
(* sector, until the next write to that sector is accepted: through        *)
(* failed requests, panics, kills, power cuts and later sessions.          *)
AckedSurvive ==
  \A s \in Sectors \ suspect : disk[DataOffset + s] = Enc(s, acked[s])

(* A read that read_at answers with success returns the last acknowledged  *)
(* write of every sector that has no unacknowledged one, whatever other    *)
(* callbacks, failures and sessions came between.                          *)
ReadsSeeAcked ==
  [][\A t \in Threads :
       Transferring(t, "read") /\ pc'[t] = "idle" /\ reply'[t].code = "Ok" =>
         \A k \in 0..(req[t].count - 1) :
           req[t].lba + k \notin suspect =>
             reply'[t].data[k + 1] = acked[req[t].lba + k]]_vars

(* Once a request of the session has failed, or panicked, no thread starts *)
(* I/O on the image: not those that wait for the lock, not those between   *)
(* the panic and the callback's mark_faulted, not the flush of shutdown.   *)
NoIoAfterFailure ==
  [][broken /\ broken' => \A t \in Threads : Busy(t)' => Busy(t)]_vars

(* shutdown reports a clean close only if nothing failed up to the end of  *)
(* the drain, no callback is left, and a read-write image is all on disk,  *)
(* what an earlier, killed session left in the cache included.             *)
CleanVerdict ==
  phase = "closed" /\ verdict = "clean" =>
    /\ ~broken
    /\ \A t \in Threads : pc[t] = "idle"
    /\ mode = "ReadWrite" => cache = disk

(* The inductive invariant behind them.  A thread doing I/O holds the lock, *)
(* so it is alone; a write in flight lies inside the payload, covers only   *)
(* suspect sectors and has its first done[t] cells in the cache; a read has *)
(* the cells of the cache in its buffer; settled sectors agree on disk, in  *)
(* the cache and with the history.                                          *)
LockHeld == \A t \in Threads : Busy(t) => holder = t

WriteInFlight(t) ==
  /\ mode = "ReadWrite" /\ CheckedRange(req[t].lba, req[t].count)
  /\ Busy(t) => /\ Span(req[t]) \subseteq suspect
                /\ buf[t] = EncryptSectors(req[t].lba, req[t].count, req[t].val)
                /\ done[t] <= req[t].count
                /\ pc[t] = "sync" <=> done[t] = req[t].count
                /\ \A k \in 1..done[t] : cache[DataOffset + req[t].lba + k - 1] = buf[t][k]

ReadInFlight(t) ==
  Busy(t) => /\ CheckedRange(req[t].lba, req[t].count)
             /\ pc[t] = "io"
             /\ done[t] = Len(buf[t]) /\ done[t] <= req[t].count
             /\ \A k \in 1..done[t] : buf[t][k] = cache[DataOffset + req[t].lba + k - 1]

ThreadInFlight(t) ==
  /\ ~Busy(t) => done[t] = 0 /\ buf[t] = <<>>
  /\ pc[t] = "wait" \/ Busy(t) => /\ req[t].op \in {"read", "write", "flush"}
                                  /\ req[t].op = "write" => WriteInFlight(t)
                                  /\ req[t].op = "read" => ReadInFlight(t)
                                  /\ req[t].op = "flush" => pc[t] # "io"
InFlight == \A t \in Threads : ThreadInFlight(t)

Settled ==
  \A s \in Sectors \ suspect :
    cache[DataOffset + s] = Enc(s, acked[s]) /\ disk[DataOffset + s] = Enc(s, acked[s])

FailureKnown ==
  /\ broken => faulted \/ (poisoned /\ \E t \in Callers : pc[t] = "unwinding")
  /\ pc[Main] # "unwinding"

Flushed == \/ phase = "flushing" /\ pc[Main] = "idle" /\ reply[Main].code = "Ok"
           \/ phase \in {"draining", "closed"} /\ ~syncFailed

Synced ==
  /\ Flushed /\ mode = "ReadWrite" /\ ~broken
     /\ (\A t \in Threads : Busy(t) => req[t].op # "write") => cache = disk
  /\ phase \in {"serving", "draining", "closed", "down"} => pc[Main] = "idle"
  /\ phase \in {"closed", "down"} => \A t \in Threads : pc[t] = "idle"
  /\ req[Main].op \in {"none", "flush"}
  /\ verdict = "clean" => phase = "closed" /\ ~syncFailed /\ ~faulted

IInv == TypeOK /\ HeadersIntact /\ LockHeld /\ InFlight /\ Settled /\ FailureKnown /\ Synced

(* docs/RW-v0.3.ko.md:26-27: a write or a flush that fails puts the        *)
(* session in a permanent error state.                                     *)
FailedWriteFaults ==
  [][\A t \in Threads :
       /\ req[t].op \in {"write", "flush"} /\ pc[t] # "idle"
       /\ pc'[t] = "idle" /\ reply'[t].code \notin {"Ok", "None"}
       => faulted']_vars

(* The drain ends: wl_close's wait for the dispatcher is over once the     *)
(* callbacks it found are, and no callback is admitted to I/O behind it.   *)
DrainEnds == (phase = "draining") ~> (phase \in {"closed", "down"})

(* Every callback is answered, in a session that lives: no error path      *)
(* leaves the lock held, and a panic is caught.                            *)
CallbacksAnswered == \A t \in Callers : (pc[t] # "idle") ~> (pc[t] = "idle")

(* The session implements the disk of DurableDisk: what is accepted there  *)
(* is what does I/O here, and the disk content is the decrypted image.     *)
Disk == INSTANCE DurableDisk WITH
  Clients   <- Threads,
  content   <- [s \in Sectors |-> Decrypt(s, disk[DataOffset + s])],
  unsettled <- suspect,
  active    <- [t \in Threads |-> IF Busy(t) THEN req[t] ELSE NoReq],
  answer    <- reply,
  failed    <- broken,
  writable  <- (mode = "ReadWrite")
ImplementsDisk == Disk!Spec

============================================================================

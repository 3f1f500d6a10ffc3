---------------------------- MODULE VolumeProofs ----------------------------
(***************************************************************************)
(* Proofs about Volume for every size of the image, of the payload and of  *)
(* a transfer, every number of dispatcher threads and every content.       *)
(***************************************************************************)
EXTENDS Volume, SequenceTheorems, TLAPS

Image == <<cache, disk, historyVars>>

(* Facts about requests and ranges. *)
LEMMA RequestFacts ==
  ASSUME NEW r \in Requests \cup {NoReq, TheFlush}
  PROVE  /\ r.lba \in Nat /\ r.count \in Nat
         /\ r.op = "write" => r.val \in Vals
         /\ r.op \in {"write", "read", "flush", "unmap", "none"}
<1>1. CASE r \in [op : {"write"}, lba : Lbas, count : Counts, val : Vals]
  BY <1>1, VolumeAssumption
<1>2. CASE r \in [op : {"read", "flush", "unmap"}, lba : Lbas, count : Counts, val : {Noise}]
  BY <1>2, VolumeAssumption
<1>3. CASE r \in {NoReq, TheFlush}
  BY <1>3 DEF NoReq, TheFlush
<1> QED
  BY <1>1, <1>2, <1>3 DEF Requests

(* A transfer that passed checked_range stays inside the payload. *)
LEMMA RangeInside ==
  ASSUME NEW r \in Requests \cup {NoReq, TheFlush},
         CheckedRange(r.lba, r.count)
  PROVE  /\ Span(r) \subseteq Sectors
         /\ \A k \in 1..r.count : /\ r.lba + k - 1 \in Span(r)
                                  /\ DataOffset + r.lba + k - 1 \in Payload
  BY VolumeAssumption, RequestFacts DEF CheckedRange, Span, Sectors, Payload

LEMMA PayloadInside == Payload \subseteq Cells
  BY VolumeAssumption DEF Payload, Cells

(* encrypt_sectors fills a buffer of ciphertext for the sectors written. *)
LEMMA EncryptType ==
  ASSUME NEW r \in Requests \cup {NoReq, TheFlush},
         CheckedRange(r.lba, r.count), r.op = "write"
  PROVE  /\ EncryptSectors(r.lba, r.count, r.val) \in Seq(Encrypted)
         /\ Len(EncryptSectors(r.lba, r.count, r.val)) = r.count
         /\ \A k \in 1..r.count :
              EncryptSectors(r.lba, r.count, r.val)[k] = Enc(r.lba + k - 1, r.val)
<1> DEFINE e(k) == Enc(r.lba + k - 1, r.val)
<1>1. r.count \in Nat
  BY RequestFacts
<1>2. \A k \in 1..r.count : e(k) \in Encrypted
  BY RequestFacts, RangeInside DEF Enc, Encrypted
<1>3. [k \in 1..r.count |-> e(k)] \in Seq(Encrypted)
  BY <1>1, <1>2
<1>4. Len([k \in 1..r.count |-> e(k)]) = r.count
  BY <1>1
<1> QED
  BY <1>3, <1>4 DEF EncryptSectors

(* decrypt_sectors turns any cells into contents or noise. *)
LEMMA DecryptType ==
  ASSUME NEW first \in Nat, NEW cells \in Seq(CellType)
  PROVE  /\ DecryptSectors(first, cells) \in Seq(Vals \cup {Noise})
         /\ \A k \in 1..Len(cells) :
              DecryptSectors(first, cells)[k] = Decrypt(first + k - 1, cells[k])
<1> DEFINE d(k) == Decrypt(first + k - 1, cells[k])
<1>1. Len(cells) \in Nat
  OBVIOUS
<1>2. \A i, c : Decrypt(i, c) \in Vals \cup {Noise}
  BY DEF Decrypt, Enc
<1>3. \A k \in 1..Len(cells) : d(k) \in Vals \cup {Noise}
  BY <1>2
<1>4. [k \in 1..Len(cells) |-> d(k)] \in Seq(Vals \cup {Noise})
  BY <1>1, <1>3
<1> QED
  BY <1>4 DEF DecryptSectors

LEMMA InitInv == Init => IInv
<1> SUFFICES ASSUME Init PROVE IInv
  OBVIOUS
<1>1. \A i \in Cells : (IF i \in Payload THEN Enc(i - DataOffset, acked[i - DataOffset]) ELSE Raw)
                           \in CellType
  <2>1. SUFFICES ASSUME NEW i \in Payload
                 PROVE  Enc(i - DataOffset, acked[i - DataOffset]) \in Encrypted
    BY DEF CellType
  <2>2. i - DataOffset \in Sectors
    BY VolumeAssumption DEF Payload, Sectors
  <2>3. acked[i - DataOffset] \in Vals
    BY <2>2 DEF Init
  <2> QED
    BY <2>2, <2>3 DEF Enc, Encrypted
<1>2. disk \in [Cells -> CellType] /\ cache \in [Cells -> CellType]
  BY <1>1 DEF Init
<1>3. TypeOK
  <2>1. reply \in [Threads -> [code : Codes, data : Seq(Vals \cup {Noise})]]
    BY DEF Init, NoReply, Codes
  <2>2. /\ buf \in [Threads -> Seq(CellType)]
        /\ done \in [Threads -> Nat]
        /\ req \in [Threads -> Requests \cup {NoReq, TheFlush}]
        /\ pc \in [Threads -> {"idle", "wait", "io", "sync", "unwinding"}]
    BY DEF Init
  <2> QED
    BY <1>2, <2>1, <2>2 DEF Init, TypeOK
<1>4. HeadersIntact
  BY DEF Init, HeadersIntact
<1>5. LockHeld /\ InFlight
  BY DEF Init, LockHeld, InFlight, ThreadInFlight, Busy
<1>6. Settled
  <2>1. SUFFICES ASSUME NEW s \in Sectors
                 PROVE  disk[DataOffset + s] = Enc(s, acked[s])
    BY DEF Init, Settled
  <2>2. DataOffset + s \in Payload
    BY VolumeAssumption DEF Sectors, Payload
  <2>3. DataOffset + s \in Cells
    BY <2>2, PayloadInside
  <2> DEFINE i == DataOffset + s
  <2>4. disk[i] = Enc(i - DataOffset, acked[i - DataOffset])
    BY <2>2, <2>3 DEF Init
  <2>5. i - DataOffset = s
    BY VolumeAssumption DEF Sectors
  <2> HIDE DEF i
  <2>6. disk[i] = Enc(s, acked[s])
    BY <2>4, <2>5
  <2> QED
    BY <2>6 DEF i
<1>7. FailureKnown /\ Synced
  BY DEF Init, FailureKnown, Synced, Flushed, Threads, NoReq
<1> QED
  BY <1>3, <1>4, <1>5, <1>6, <1>7 DEF IInv

----------------------------------------------------------------------------
(* A thread that does not move keeps its transfer while the cache does. *)
LEMMA FrameInFlight ==
  ASSUME NEW u \in Threads,
         pc'[u] = pc[u], req'[u] = req[u], buf'[u] = buf[u], done'[u] = done[u],
         mode' = mode,
         Busy(u) => cache' = cache /\ suspect \subseteq suspect'
  PROVE  ThreadInFlight(u) => ThreadInFlight(u)'
<1>1. Busy(u)' <=> Busy(u)
  BY DEF Busy
<1>2. Span(req[u])' = Span(req[u])
  BY DEF Span
<1>3. WriteInFlight(u) => WriteInFlight(u)'
  BY <1>1, <1>2 DEF WriteInFlight
<1>4. ReadInFlight(u) => ReadInFlight(u)'
  BY <1>1 DEF ReadInFlight
<1> QED
  BY <1>1, <1>3, <1>4 DEF ThreadInFlight

(* A thread that answers and goes idle, and touches no image: whatever the *)
(* answer, if it held the lock it gives it back.                           *)
LEMMA ReturnKeeps ==
  ASSUME IInv, NEW t \in Threads, NEW code \in Codes, NEW data \in Seq(Vals \cup {Noise}),
         Return(t, code, data),
         UNCHANGED <<mode, serveVars, poisoned, Image>>,
         faulted' \in BOOLEAN, broken' \in BOOLEAN,
         holder' = holder \/ (Busy(t) /\ holder' = NoThread)
  PROVE  TypeOK' /\ HeadersIntact' /\ LockHeld' /\ InFlight' /\ Settled'
<1> USE DEF Image, historyVars, serveVars
<1>1. /\ pc' = [pc EXCEPT ![t] = "idle"] /\ req' = [req EXCEPT ![t] = NoReq]
      /\ buf' = [buf EXCEPT ![t] = <<>>] /\ done' = [done EXCEPT ![t] = 0]
      /\ reply' = [reply EXCEPT ![t] = [code |-> code, data |-> data]]
  BY DEF Return
<1>2. TypeOK
  BY DEF IInv
<1>3. TypeOK'
  <2>1. <<>> \in Seq(CellType)
    OBVIOUS
  <2>2. buf' \in [Threads -> Seq(CellType)] /\ done' \in [Threads -> Nat]
    BY <1>1, <1>2, <2>1 DEF TypeOK
  <2>3. req' \in [Threads -> Requests \cup {NoReq, TheFlush}]
    BY <1>1, <1>2 DEF TypeOK
  <2>4. reply' \in [Threads -> [code : Codes, data : Seq(Vals \cup {Noise})]]
    BY <1>1, <1>2 DEF TypeOK
  <2>5. pc' \in [Threads -> {"idle", "wait", "io", "sync", "unwinding"}]
    BY <1>1, <1>2 DEF TypeOK
  <2> QED
    BY <1>2, <2>2, <2>3, <2>4, <2>5 DEF TypeOK
<1>4. HeadersIntact'
  BY DEF IInv, HeadersIntact
<1>5. \A u \in Threads : (Busy(u)' => u # t) /\ (pc'[u] # "idle" => u # t)
  BY <1>1, <1>2 DEF TypeOK, Busy
<1>6. \A u \in Threads : u # t => /\ pc'[u] = pc[u] /\ req'[u] = req[u] /\ buf'[u] = buf[u]
                                 /\ done'[u] = done[u]
  BY <1>1, <1>2 DEF TypeOK
<1>7. LockHeld'
  BY <1>5, <1>6 DEF IInv, LockHeld, Busy
<1>8. InFlight'
  <2>1. pc'[t] = "idle" /\ done'[t] = 0 /\ buf'[t] = <<>>
    BY <1>1, <1>2 DEF TypeOK
  <2> QED
    BY <1>6, <2>1, FrameInFlight DEF IInv, InFlight, ThreadInFlight, Busy
<1>9. Settled'
  BY DEF IInv, Settled
<1> QED
  BY <1>3, <1>4, <1>7, <1>8, <1>9

(* If, besides, it did not give up a write in a session that goes on, and  *)
(* is not serve with a flush that succeeded, Synced holds on.              *)
LEMMA ReturnSynced ==
  ASSUME IInv, NEW t \in Threads, NEW code \in Codes, NEW data \in Seq(Vals \cup {Noise}),
         Return(t, code, data),
         UNCHANGED <<mode, serveVars, Image>>,
         broken => broken',
         broken' \/ ~(Busy(t) /\ req[t].op = "write"),
         t = Main => code # "Ok",
         faulted' = faulted \/ pc[t] # "idle"
  PROVE  Synced'
<1> USE DEF Image, historyVars, serveVars
<1>1. TypeOK /\ Synced
  BY DEF IInv
<1>2. /\ pc' = [pc EXCEPT ![t] = "idle"] /\ req' = [req EXCEPT ![t] = NoReq]
      /\ reply' = [reply EXCEPT ![t] = [code |-> code, data |-> data]]
  BY DEF Return
<1>3. Main \in Threads
  BY DEF Threads
<1>4. Flushed' => Flushed
  BY <1>1, <1>2, <1>3 DEF TypeOK, Flushed
<1>5. \A u \in Threads : u # t => pc'[u] = pc[u] /\ req'[u] = req[u]
  BY <1>1, <1>2 DEF TypeOK
<1>6. pc'[t] = "idle" /\ req'[t] = NoReq
  BY <1>1, <1>2 DEF TypeOK
<1>7. (\A u \in Threads : Busy(u)' => req'[u].op # "write") /\ ~broken' =>
        \A u \in Threads : Busy(u) => req[u].op # "write"
  BY <1>5 DEF Busy
<1>8. Flushed' /\ mode' = "ReadWrite" /\ ~broken'
      /\ (\A u \in Threads : Busy(u)' => req'[u].op # "write") => cache' = disk'
  BY <1>1, <1>4, <1>7 DEF Synced
<1>9. /\ phase' \in {"serving", "draining", "closed", "down"} => pc'[Main] = "idle"
      /\ phase' \in {"closed", "down"} => \A u \in Threads : pc'[u] = "idle"
      /\ req'[Main].op \in {"none", "flush"}
  BY <1>1, <1>3, <1>5, <1>6 DEF Synced, NoReq
<1>10. verdict' = "clean" => phase' = "closed" /\ ~syncFailed' /\ ~faulted'
  BY <1>1 DEF Synced
<1> QED
  BY <1>8, <1>9, <1>10 DEF Synced

(* Together: the invariant holds after every such answer. *)
LEMMA ReturnInv ==
  ASSUME IInv, NEW t \in Threads, NEW code \in Codes, NEW data \in Seq(Vals \cup {Noise}),
         Return(t, code, data),
         UNCHANGED <<mode, serveVars, poisoned, Image>>,
         holder' = holder \/ (Busy(t) /\ holder' = NoThread),
         broken' \in BOOLEAN, broken => broken', broken' => broken \/ faulted',
         broken' \/ ~(Busy(t) /\ req[t].op = "write"),
         t = Main => code # "Ok",
         faulted' \in BOOLEAN, faulted => faulted',
         faulted' = faulted \/ pc[t] # "idle",
         pc[t] = "unwinding" => faulted'
  PROVE  IInv'
<1>1. TypeOK' /\ HeadersIntact' /\ LockHeld' /\ InFlight' /\ Settled'
  BY ReturnKeeps
<1>2. Synced'
  BY ReturnSynced
<1>3. FailureKnown'
  <2>1. \A u \in Threads : u # t => pc'[u] = pc[u]
    BY DEF IInv, TypeOK, Return
  <2>2. pc'[t] = "idle"
    BY DEF IInv, TypeOK, Return
  <2> QED
    BY <2>1, <2>2 DEF IInv, FailureKnown, Threads
<1> QED
  BY <1>1, <1>2, <1>3 DEF IInv

LEMMA RefuseInv ==
  ASSUME IInv, NEW t \in Callers, NEW r \in Requests, Refuse(t, r)
  PROVE  IInv'
<1>1. Admission(r) \in Codes
  BY DEF Admission, Codes
<1>2. <<>> \in Seq(Vals \cup {Noise})
  OBVIOUS
<1>3. t \in Threads /\ t # Main
  BY VolumeAssumption DEF Threads
<1>4. /\ Return(t, Admission(r), <<>>) /\ pc[t] = "idle"
      /\ UNCHANGED <<mode, serveVars, poisoned, Image, holder, broken, faulted>>
  BY DEF Refuse, Image, faultVars
<1>5. faulted \in BOOLEAN /\ broken \in BOOLEAN
  BY DEF IInv, TypeOK
<1> QED
  BY <1>1, <1>2, <1>3, <1>4, <1>5, ReturnInv DEF Busy

(* What a thread that takes the lock decides before any I/O. *)
LEMMA LockedRefusalInv ==
  ASSUME IInv, NEW t \in Threads,
         RefuseFaulted(t) \/ RefuseRange(t) \/ AnswerEmpty(t) \/ EncryptFails(t)
  PROVE  IInv'
<1>1. <<>> \in Seq(Vals \cup {Noise})
  OBVIOUS
<1>2. pc[t] = "wait"
  BY DEF RefuseFaulted, RefuseRange, AnswerEmpty, EncryptFails, Applies, Sound, CanLock
<1>3. faulted \in BOOLEAN /\ broken \in BOOLEAN
  BY DEF IInv, TypeOK
<1>4. UNCHANGED <<mode, serveVars, poisoned, Image, holder, broken>>
      /\ (faulted' = faulted \/ faulted' = TRUE)
  BY DEF RefuseFaulted, RefuseRange, AnswerEmpty, EncryptFails, Image, faultVars
<1>5. PICK code \in Codes : Return(t, code, <<>>) /\ (t = Main => code # "Ok")
  <2>1. t = Main => ~IsTransfer(req[t])
    BY DEF IInv, Synced, IsTransfer
  <2> QED
    BY <2>1 DEF RefuseFaulted, RefuseRange, AnswerEmpty, EncryptFails, Codes, IsTransfer
<1> QED
  BY <1>1, <1>2, <1>3, <1>4, <1>5, ReturnInv DEF Busy

LEMMA CaughtInv ==
  ASSUME IInv, NEW t \in Threads, Caught(t)
  PROVE  IInv'
<1>1. <<>> \in Seq(Vals \cup {Noise}) /\ "WritebackFailed" \in Codes
  BY DEF Codes
<1>2. broken \in BOOLEAN
  BY DEF IInv, TypeOK
<1> QED
  BY <1>1, <1>2, ReturnInv DEF Caught, Image, Busy

(* A read that ends, with its data or with an error of decrypt_sectors. *)
LEMMA ReadEndInv ==
  ASSUME IInv, NEW t \in Threads, ReadDone(t) \/ DecryptFails(t)
  PROVE  IInv'
<1>1. pc[t] = "io" /\ req[t].op = "read" /\ Busy(t)
  BY DEF ReadDone, DecryptFails, Transferring, Busy
<1>2. t # Main
  BY <1>1 DEF IInv, Synced
<1>3. req[t].lba \in Nat /\ buf[t] \in Seq(CellType)
  BY RequestFacts DEF IInv, TypeOK
<1>4. PICK code \in Codes, data \in Seq(Vals \cup {Noise}) : Return(t, code, data)
  <2>1. CASE ReadDone(t)
    <3>1. DecryptSectors(req[t].lba, buf[t]) \in Seq(Vals \cup {Noise}) /\ "Ok" \in Codes
      BY <1>3, DecryptType DEF Codes
    <3> QED
      BY <2>1, <3>1 DEF ReadDone
  <2>2. CASE DecryptFails(t)
    <3>1. <<>> \in Seq(Vals \cup {Noise}) /\ "Other" \in Codes
      BY DEF Codes
    <3> QED
      BY <2>2, <3>1 DEF DecryptFails
  <2> QED
    BY <2>1, <2>2
<1>5. UNCHANGED <<mode, serveVars, poisoned, Image, faulted, broken>> /\ holder' = NoThread
  BY DEF ReadDone, DecryptFails, Image, faultVars
<1>6. faulted \in BOOLEAN /\ broken \in BOOLEAN
  BY DEF IInv, TypeOK
<1> QED
  BY <1>1, <1>2, <1>4, <1>5, <1>6, ReturnInv

LEMMA BackendFailsInv ==
  ASSUME IInv, NEW t \in Threads, BackendFails(t)
  PROVE  IInv'
<1>1. Busy(t) /\ holder' = NoThread
  BY DEF BackendFails, Busy
<1>2. PICK code \in Codes : Return(t, code, <<>>) /\ code # "Ok"
  BY DEF BackendFails, Codes
<1>3. <<>> \in Seq(Vals \cup {Noise})
  OBVIOUS
<1>4. UNCHANGED <<mode, serveVars, poisoned, Image>>
  BY DEF BackendFails, Image
<1>5. faulted' \in BOOLEAN /\ broken' \in BOOLEAN
  BY DEF BackendFails, Fatal, IInv, TypeOK
<1>6. (faulted => faulted') /\ (broken => broken') /\ (broken' => broken \/ faulted')
  BY DEF BackendFails
<1>7. broken' \/ ~(Busy(t) /\ req[t].op = "write")
  BY DEF BackendFails, Fatal
<1>8. (faulted' = faulted \/ pc[t] # "idle") /\ (pc[t] = "unwinding" => faulted')
  BY DEF BackendFails
<1> QED
  BY <1>1, <1>2, <1>3, <1>4, <1>5, <1>6, <1>7, <1>8, ReturnInv

----------------------------------------------------------------------------
(* A callback is admitted, and starts its I/O.                            *)

LEMMA EnterInv ==
  ASSUME IInv, NEW t \in Callers, NEW r \in Requests, Enter(t, r)
  PROVE  IInv'
<1>1. TypeOK /\ InFlight /\ Synced
  BY DEF IInv
<1>2. t \in Threads /\ t # Main
  BY VolumeAssumption DEF Threads
<1>3. /\ pc' = [pc EXCEPT ![t] = "wait"] /\ req' = [req EXCEPT ![t] = r]
      /\ reply' = [reply EXCEPT ![t] = NoReply]
      /\ UNCHANGED <<mode, serveVars, faultVars, holder, buf, done, cache, disk, historyVars>>
      /\ pc[t] = "idle" /\ Up
  BY DEF Enter
<1>4. \A u \in Threads : u # t => /\ pc'[u] = pc[u] /\ req'[u] = req[u] /\ reply'[u] = reply[u]
                                 /\ buf'[u] = buf[u] /\ done'[u] = done[u]
  BY <1>1, <1>2, <1>3 DEF TypeOK
<1>5. /\ pc'[t] = "wait" /\ req'[t] = r /\ ~Busy(t) /\ ~Busy(t)'
      /\ done'[t] = 0 /\ buf'[t] = <<>>
  BY <1>1, <1>2, <1>3 DEF TypeOK, InFlight, ThreadInFlight, Busy
<1>6. TypeOK'
  <2>1. reply' \in [Threads -> [code : Codes, data : Seq(Vals \cup {Noise})]]
    <3>1. NoReply \in [code : Codes, data : Seq(Vals \cup {Noise})]
      BY DEF NoReply, Codes
    <3> QED
      BY <1>1, <1>3, <3>1 DEF TypeOK
  <2>2. req' \in [Threads -> Requests \cup {NoReq, TheFlush}]
    BY <1>1, <1>3 DEF TypeOK
  <2>3. pc' \in [Threads -> {"idle", "wait", "io", "sync", "unwinding"}]
    BY <1>1, <1>3 DEF TypeOK
  <2> QED
    BY <1>1, <1>3, <2>1, <2>2, <2>3 DEF TypeOK, serveVars, faultVars, historyVars
<1>7. HeadersIntact' /\ Settled'
  BY <1>3 DEF IInv, HeadersIntact, Settled, historyVars
<1>8. LockHeld'
  BY <1>3, <1>4, <1>5 DEF IInv, LockHeld, Busy
<1>9. InFlight'
  <2>1. r.op \in {"read", "write", "flush"}
        /\ (r.op = "write" => mode = "ReadWrite" /\ CheckedRange(r.lba, r.count))
    BY <1>1 DEF Enter, Admission, Requests, TypeOK
  <2>2. ThreadInFlight(t)'
    BY <1>3, <1>5, <2>1 DEF ThreadInFlight, WriteInFlight, ReadInFlight
  <2>3. \A u \in Threads : u # t => ThreadInFlight(u)'
    BY <1>1, <1>3, <1>4, FrameInFlight DEF InFlight, historyVars
  <2> QED
    BY <2>2, <2>3 DEF InFlight
<1>10. FailureKnown'
  BY <1>2, <1>3, <1>4, <1>5 DEF IInv, FailureKnown, Threads, faultVars
<1>11. Synced'
  <2>1. Main \in Threads
    BY DEF Threads
  <2>2. \A u \in Threads : Busy(u) => Busy(u)' /\ req'[u] = req[u]
    BY <1>4, <1>5 DEF Busy
  <2> QED
    BY <1>1, <1>2, <1>3, <1>4, <2>1, <2>2 DEF Synced, Flushed, Up, serveVars, faultVars
<1> QED
  BY <1>6, <1>7, <1>8, <1>9, <1>10, <1>11 DEF IInv

(* Who takes the lock finds nobody doing I/O. *)
LEMMA LockFree ==
  ASSUME IInv, NEW t \in Threads, CanLock(t)
  PROVE  \A u \in Threads : ~Busy(u)
BY VolumeAssumption DEF IInv, LockHeld, CanLock

LEMMA StartTransferInv ==
  ASSUME IInv, NEW t \in Threads, StartTransfer(t)
  PROVE  IInv'
<1>1. TypeOK /\ InFlight /\ Synced
  BY DEF IInv
<1>2. /\ pc[t] = "wait" /\ CanLock(t) /\ CheckedRange(req[t].lba, req[t].count)
      /\ req[t].op \in {"read", "write"} /\ req[t].count > 0
      /\ holder' = t /\ pc' = [pc EXCEPT ![t] = "io"]
      /\ UNCHANGED <<mode, serveVars, faultVars, req, done, reply, cache, disk, acked>>
  BY DEF StartTransfer, Applies, Sound, CanLock, IsTransfer
<1>3. /\ \A u \in Threads : ~Busy(u)
      /\ \A u \in Threads : u # t => pc'[u] = pc[u] /\ ~Busy(u)'
      /\ pc'[t] = "io" /\ Busy(t)'
  BY <1>1, <1>2, LockFree DEF TypeOK, Busy
<1>4. req[t] \in Requests \cup {NoReq, TheFlush}
  BY <1>1 DEF TypeOK
<1>5. req[t].lba \in Nat /\ req[t].count \in Nat /\ Span(req[t]) \subseteq Sectors
  BY <1>2, <1>4, RequestFacts, RangeInside
<1>6. suspect \subseteq suspect' /\ suspect' \subseteq Sectors
  BY <1>1, <1>5 DEF StartTransfer, TypeOK
<1>7. \/ req[t].op = "write" /\ suspect' = suspect \cup Span(req[t])
         /\ buf' = [buf EXCEPT ![t] = EncryptSectors(req[t].lba, req[t].count, req[t].val)]
      \/ req[t].op = "read" /\ suspect' = suspect /\ buf' = buf
  BY <1>2 DEF StartTransfer
<1>8. TypeOK'
  <2>1. req[t].op = "write" =>
          EncryptSectors(req[t].lba, req[t].count, req[t].val) \in Seq(CellType)
    <3>1. Seq(Encrypted) \subseteq Seq(CellType)
      BY DEF CellType
    <3> QED
      BY <1>2, <1>4, <3>1, EncryptType
  <2>2. buf' \in [Threads -> Seq(CellType)]
    BY <1>1, <1>7, <2>1 DEF TypeOK
  <2>3. pc' \in [Threads -> {"idle", "wait", "io", "sync", "unwinding"}]
    BY <1>1, <1>2 DEF TypeOK
  <2> QED
    BY <1>1, <1>2, <1>6, <2>2, <2>3 DEF TypeOK, serveVars, faultVars
<1>9. HeadersIntact' /\ Settled'
  BY <1>2, <1>6 DEF IInv, HeadersIntact, Settled
<1>10. LockHeld'
  BY <1>2, <1>3 DEF LockHeld
<1>11. InFlight'
  <2>1. \A u \in Threads : u # t => ThreadInFlight(u)'
    <3>1. SUFFICES ASSUME NEW u \in Threads, u # t PROVE ThreadInFlight(u)'
      OBVIOUS
    <3>2. buf'[u] = buf[u]
      BY <1>1, <1>7, <3>1 DEF TypeOK
    <3> QED
      BY <1>1, <1>2, <1>3, <1>6, <3>1, <3>2, FrameInFlight DEF InFlight
  <2>2. done[t] = 0 /\ buf[t] = <<>>
    BY <1>1, <1>3 DEF InFlight, ThreadInFlight
  <2>3. CASE req[t].op = "write"
    <3>1. buf'[t] = EncryptSectors(req[t].lba, req[t].count, req[t].val)
      BY <1>1, <1>7, <2>3 DEF TypeOK
    <3>2. Span(req'[t]) \subseteq suspect'
      BY <1>2, <1>7, <2>3
    <3>3. mode = "ReadWrite"
      BY <1>1, <1>2, <2>3 DEF InFlight, ThreadInFlight, WriteInFlight
    <3>4. done'[t] = 0 /\ req'[t] = req[t] /\ mode' = mode
      BY <1>2, <2>2
    <3>5. done'[t] <= req'[t].count /\ (pc'[t] = "sync" <=> done'[t] = req'[t].count)
      BY <1>2, <1>3, <1>5, <3>4
    <3>6. \A k \in 1..done'[t] : cache'[DataOffset + req'[t].lba + k - 1] = buf'[t][k]
      BY <3>4
    <3>7. WriteInFlight(t)'
      BY <1>2, <3>1, <3>2, <3>3, <3>4, <3>5, <3>6 DEF WriteInFlight
    <3> QED
      BY <1>2, <1>3, <2>1, <2>3, <3>7 DEF InFlight, ThreadInFlight
  <2>4. CASE req[t].op = "read"
    <3>1. done'[t] = 0 /\ buf'[t] = <<>> /\ req'[t] = req[t] /\ Len(<<>>) = 0
      BY <1>2, <1>7, <2>2, <2>4
    <3>2. ReadInFlight(t)'
      BY <1>2, <1>3, <1>5, <3>1 DEF ReadInFlight
    <3> QED
      BY <1>2, <1>3, <2>1, <2>4, <3>2 DEF InFlight, ThreadInFlight
  <2> QED
    BY <1>2, <2>3, <2>4
<1>12. FailureKnown'
  BY <1>2, <1>3 DEF IInv, FailureKnown, Threads, faultVars
<1>13. Synced'
  <2>1. Main \in Threads /\ t # Main
    BY <1>1, <1>2 DEF Threads, Synced
  <2>2. (\A u \in Threads : Busy(u)' => req'[u].op # "write") => req[t].op # "write"
    BY <1>2, <1>3
  <2> QED
    BY <1>1, <1>2, <1>3, <2>1, <2>2 DEF Synced, Flushed, serveVars, faultVars
<1> QED
  BY <1>8, <1>9, <1>10, <1>11, <1>12, <1>13 DEF IInv

LEMMA StartFlushInv ==
  ASSUME IInv, NEW t \in Threads, StartFlush(t)
  PROVE  IInv'
<1>1. TypeOK /\ InFlight /\ Synced
  BY DEF IInv
<1>2. /\ pc[t] = "wait" /\ CanLock(t) /\ req[t].op = "flush"
      /\ holder' = t /\ pc' = [pc EXCEPT ![t] = "sync"]
      /\ UNCHANGED <<mode, serveVars, faultVars, req, buf, done, reply, cache, disk, historyVars>>
  BY DEF StartFlush, Sound, CanLock
<1>3. /\ \A u \in Threads : ~Busy(u)
      /\ \A u \in Threads : u # t => pc'[u] = pc[u] /\ ~Busy(u)'
      /\ pc'[t] = "sync" /\ Busy(t)'
  BY <1>1, <1>2, LockFree DEF TypeOK, Busy
<1>4. TypeOK'
  BY <1>1, <1>2 DEF TypeOK, serveVars, faultVars, historyVars
<1>5. HeadersIntact' /\ Settled'
  BY <1>2 DEF IInv, HeadersIntact, Settled, historyVars
<1>6. LockHeld'
  BY <1>2, <1>3 DEF LockHeld
<1>7. InFlight'
  <2>1. \A u \in Threads : u # t => ThreadInFlight(u)'
    BY <1>1, <1>2, <1>3, FrameInFlight DEF InFlight, historyVars
  <2>2. ThreadInFlight(t)'
    BY <1>2, <1>3 DEF ThreadInFlight
  <2> QED
    BY <2>1, <2>2 DEF InFlight
<1>8. FailureKnown'
  BY <1>2, <1>3 DEF IInv, FailureKnown, Threads, faultVars
<1>9. Synced'
  <2>1. Main \in Threads
    BY DEF Threads
  <2>2. phase \notin {"serving", "draining", "closed", "down"} \/ t # Main
    BY <1>1, <1>2 DEF Synced
  <2>3. Flushed' => Flushed
    BY <1>2, <1>3, <2>1 DEF Flushed, serveVars
  <2> QED
    BY <1>1, <1>2, <1>3, <2>1, <2>2, <2>3 DEF Synced, serveVars, faultVars
<1> QED
  BY <1>4, <1>5, <1>6, <1>7, <1>8, <1>9 DEF IInv

----------------------------------------------------------------------------
(* The loops of read_exact_at and write_all_at.                           *)

(* Only the holder of the lock does I/O. *)
LEMMA AloneInIo ==
  ASSUME IInv, NEW t \in Threads, Busy(t)
  PROVE  holder = t /\ \A u \in Threads : Busy(u) => u = t
BY DEF IInv, LockHeld

(* The cell a loop is at lies in the payload. *)
LEMMA CellInside ==
  ASSUME IInv, NEW t \in Threads, pc[t] = "io", done[t] < req[t].count
  PROVE  /\ req[t].lba \in Nat /\ req[t].count \in Nat /\ done[t] \in Nat
         /\ CheckedRange(req[t].lba, req[t].count)
         /\ Cell(t) \in Payload /\ Cell(t) \in Cells
         /\ Cell(t) = DataOffset + req[t].lba + (done[t] + 1) - 1
         /\ req[t].lba + done[t] \in Span(req[t])
<1>1. req[t] \in Requests \cup {NoReq, TheFlush} /\ done[t] \in Nat
  BY DEF IInv, TypeOK
<1>2. req[t].lba \in Nat /\ req[t].count \in Nat
  BY <1>1, RequestFacts
<1>3. CheckedRange(req[t].lba, req[t].count)
  BY DEF IInv, InFlight, ThreadInFlight, WriteInFlight, ReadInFlight, Busy
<1>4. done[t] + 1 \in 1..req[t].count
  BY <1>1, <1>2
<1>5. Cell(t) = DataOffset + req[t].lba + (done[t] + 1) - 1
      /\ req[t].lba + done[t] = req[t].lba + (done[t] + 1) - 1
  BY <1>1, <1>2, VolumeAssumption DEF Cell
<1>6. Cell(t) \in Payload /\ req[t].lba + done[t] \in Span(req[t])
  BY <1>1, <1>3, <1>4, <1>5, RangeInside
<1> QED
  BY <1>1, <1>2, <1>3, <1>5, <1>6, PayloadInside

LEMMA ReadSomeInv ==
  ASSUME IInv, NEW t \in Threads, ReadSome(t)
  PROVE  IInv'
<1>1. TypeOK /\ InFlight /\ Synced
  BY DEF IInv
<1>2. /\ pc[t] = "io" /\ req[t].op = "read" /\ done[t] < req[t].count /\ Busy(t)
      /\ buf' = [buf EXCEPT ![t] = Append(buf[t], cache[Cell(t)])]
      /\ done' = [done EXCEPT ![t] = done[t] + 1]
      /\ UNCHANGED <<mode, serveVars, faultVars, holder, pc, req, reply, cache, disk, historyVars>>
  BY DEF ReadSome, Transferring, Busy
<1>3. /\ req[t].lba \in Nat /\ req[t].count \in Nat /\ done[t] \in Nat
      /\ CheckedRange(req[t].lba, req[t].count) /\ Cell(t) \in Cells
      /\ Cell(t) = DataOffset + req[t].lba + (done[t] + 1) - 1
  BY <1>2, CellInside
<1>4. cache[Cell(t)] \in CellType /\ buf[t] \in Seq(CellType)
  BY <1>1, <1>3 DEF TypeOK
<1>5. /\ buf'[t] = Append(buf[t], cache[Cell(t)]) /\ done'[t] = done[t] + 1
      /\ \A u \in Threads : u # t => buf'[u] = buf[u] /\ done'[u] = done[u]
  BY <1>1, <1>2 DEF TypeOK
<1>6. TypeOK'
  <2>1. Append(buf[t], cache[Cell(t)]) \in Seq(CellType) /\ done[t] + 1 \in Nat
    BY <1>3, <1>4
  <2>2. buf' \in [Threads -> Seq(CellType)] /\ done' \in [Threads -> Nat]
    BY <1>1, <1>2, <2>1 DEF TypeOK
  <2> QED
    BY <1>1, <1>2, <2>2 DEF TypeOK, serveVars, faultVars, historyVars
<1>7. HeadersIntact' /\ Settled' /\ LockHeld' /\ FailureKnown' /\ Synced'
  BY <1>2 DEF IInv, HeadersIntact, Settled, LockHeld, FailureKnown, Synced, Flushed, Busy,
              historyVars, serveVars, faultVars
<1>8. ThreadInFlight(t)'
  <2>1. done[t] = Len(buf[t]) /\ \A k \in 1..done[t] : buf[t][k] = cache[DataOffset + req[t].lba + k - 1]
    BY <1>1, <1>2 DEF InFlight, ThreadInFlight, ReadInFlight
  <2>2. Len(buf'[t]) = done'[t] /\ done'[t] <= req[t].count
    BY <1>2, <1>3, <1>4, <1>5, <2>1
  <2>3. ASSUME NEW k \in 1..done'[t]
        PROVE  buf'[t][k] = cache[DataOffset + req[t].lba + k - 1]
    <3>1. CASE k = done[t] + 1
      BY <1>3, <1>4, <1>5, <2>1, <3>1
    <3>2. CASE k # done[t] + 1
      <4>1. k \in 1..done[t]
        BY <1>3, <1>5, <3>2
      <4>2. buf'[t][k] = buf[t][k]
        BY <1>4, <1>5, <2>1, <4>1
      <4> QED
        BY <2>1, <4>1, <4>2
    <3> QED
      BY <3>1, <3>2
  <2>4. ReadInFlight(t)'
    BY <1>2, <1>3, <2>2, <2>3 DEF ReadInFlight
  <2> QED
    BY <1>2, <2>4 DEF ThreadInFlight, Busy
<1>9. InFlight'
  BY <1>1, <1>2, <1>5, <1>8, FrameInFlight DEF InFlight, historyVars
<1> QED
  BY <1>6, <1>7, <1>9 DEF IInv

(* A step of a write changes one cell, of a suspect sector. *)
LEMMA WriteCell ==
  ASSUME IInv, NEW t \in Threads, pc[t] = "io", req[t].op = "write", done[t] < req[t].count,
         NEW c \in CellType, cache' = [cache EXCEPT ![Cell(t)] = c],
         UNCHANGED <<mode, serveVars, faultVars, holder, req, buf, reply, disk, historyVars>>,
         Busy(t)', \A u \in Threads : u # t => pc'[u] = pc[u] /\ done'[u] = done[u]
  PROVE  /\ cache' \in [Cells -> CellType]
         /\ HeadersIntact' /\ Settled' /\ LockHeld' /\ Synced'
         /\ \A u \in Threads : u # t => ThreadInFlight(u)'
<1> USE DEF historyVars, serveVars, faultVars
<1>1. TypeOK /\ InFlight /\ Synced /\ Busy(t)
  BY DEF IInv, Busy
<1>2. Cell(t) \in Payload /\ Cell(t) \in Cells /\ req[t].lba + done[t] \in Span(req[t])
      /\ req[t].lba \in Nat /\ done[t] \in Nat
  BY CellInside
<1>3. cache' \in [Cells -> CellType]
  BY <1>1 DEF TypeOK
<1>4. HeadersIntact'
  BY <1>1, <1>2 DEF IInv, HeadersIntact, TypeOK
<1>5. Settled'
  <2>1. Span(req[t]) \subseteq suspect
    BY <1>1 DEF InFlight, ThreadInFlight, WriteInFlight
  <2>2. SUFFICES ASSUME NEW s \in Sectors \ suspect
                 PROVE  cache'[DataOffset + s] = cache[DataOffset + s]
    BY DEF IInv, Settled
  <2>3. s # req[t].lba + done[t]
    BY <1>2, <2>1
  <2>4. DataOffset + s # Cell(t)
    BY <1>2, <2>3, VolumeAssumption DEF Cell, Sectors
  <2>5. DataOffset + s \in Cells
    BY VolumeAssumption DEF Sectors, Cells
  <2> QED
    BY <1>1, <2>4, <2>5 DEF TypeOK
<1>6. LockHeld'
  <2>1. \A u \in Threads : u # t => ~Busy(u)'
    BY <1>1, AloneInIo DEF Busy
  <2> QED
    BY <1>1, <2>1, AloneInIo DEF LockHeld
<1>7. Synced'
  <2>1. ~(\A u \in Threads : Busy(u)' => req'[u].op # "write")
    OBVIOUS
  <2>2. t # Main /\ Main \in Threads
    BY <1>1 DEF Synced, Threads
  <2>3. phase \notin {"closed", "down"}
    BY <1>1 DEF Synced, Busy
  <2> QED
    BY <1>1, <2>1, <2>2, <2>3 DEF Synced
<1>8. ASSUME NEW u \in Threads, u # t PROVE ThreadInFlight(u)'
  BY <1>1, <1>8, AloneInIo, FrameInFlight DEF InFlight
<1> QED
  BY <1>3, <1>4, <1>5, <1>6, <1>7, <1>8

LEMMA WriteSomeInv ==
  ASSUME IInv, NEW t \in Threads, WriteSome(t)
  PROVE  IInv'
<1>1. TypeOK /\ InFlight
  BY DEF IInv
<1>2. /\ pc[t] = "io" /\ req[t].op = "write" /\ done[t] < req[t].count /\ Busy(t)
      /\ cache' = [cache EXCEPT ![Cell(t)] = buf[t][done[t] + 1]]
      /\ done' = [done EXCEPT ![t] = done[t] + 1]
      /\ pc' = [pc EXCEPT ![t] = IF done[t] + 1 = req[t].count THEN "sync" ELSE "io"]
      /\ UNCHANGED <<mode, serveVars, faultVars, holder, req, buf, reply, disk, historyVars>>
  BY DEF WriteSome, Transferring, Busy
<1>3. /\ req[t].lba \in Nat /\ req[t].count \in Nat /\ done[t] \in Nat
      /\ CheckedRange(req[t].lba, req[t].count)
      /\ Cell(t) \in Cells /\ Cell(t) = DataOffset + req[t].lba + (done[t] + 1) - 1
  BY <1>2, CellInside
<1>4. WriteInFlight(t)
  BY <1>1, <1>2 DEF InFlight, ThreadInFlight
<1>5. buf[t][done[t] + 1] \in CellType
  <2>1. buf[t] \in Seq(CellType) /\ req[t] \in Requests \cup {NoReq, TheFlush}
    BY <1>1 DEF TypeOK
  <2>2. Len(buf[t]) = req[t].count
    BY <1>2, <1>3, <1>4, <2>1, EncryptType DEF WriteInFlight
  <2> QED
    BY <1>2, <1>3, <2>1, <2>2
<1>6. /\ done'[t] = done[t] + 1
      /\ pc'[t] = IF done[t] + 1 = req[t].count THEN "sync" ELSE "io"
      /\ \A u \in Threads : u # t => pc'[u] = pc[u] /\ done'[u] = done[u]
  BY <1>1, <1>2 DEF TypeOK
<1>7. Busy(t)'
  BY <1>6 DEF Busy
<1>8. /\ cache' \in [Cells -> CellType]
      /\ HeadersIntact' /\ Settled' /\ LockHeld' /\ Synced'
      /\ \A u \in Threads : u # t => ThreadInFlight(u)'
  BY <1>2, <1>5, <1>6, <1>7, WriteCell
<1>9. TypeOK'
  <2>1. done' \in [Threads -> Nat] /\ pc' \in [Threads -> {"idle", "wait", "io", "sync", "unwinding"}]
    BY <1>1, <1>2, <1>3 DEF TypeOK
  <2> QED
    BY <1>1, <1>2, <1>8, <2>1 DEF TypeOK, serveVars, faultVars, historyVars
<1>10. FailureKnown'
  BY <1>2, <1>6, <1>7 DEF IInv, FailureKnown, Busy, Threads, faultVars
<1>11. ThreadInFlight(t)'
  <2>1. done'[t] <= req[t].count /\ (pc'[t] = "sync" <=> done'[t] = req[t].count)
    BY <1>2, <1>3, <1>6
  <2>2. ASSUME NEW k \in 1..done'[t]
        PROVE  cache'[DataOffset + req[t].lba + k - 1] = buf[t][k]
    <3>1. CASE k = done[t] + 1
      <4>1. DataOffset + req[t].lba + k - 1 = Cell(t)
        BY <1>3, <3>1
      <4> QED
        BY <1>1, <1>2, <1>3, <3>1, <4>1 DEF TypeOK
    <3>2. CASE k # done[t] + 1
      <4>1. k \in 1..done[t]
        BY <1>3, <1>6, <3>2
      <4>2. DataOffset + req[t].lba + k - 1 # Cell(t)
        BY <1>3, <3>2, <4>1, VolumeAssumption
      <4>3. k \in 1..req[t].count
        BY <1>2, <1>3, <4>1
      <4>4. DataOffset + req[t].lba + k - 1 \in Cells
        BY <1>1, <1>3, <4>3, RangeInside, PayloadInside DEF TypeOK
      <4>5. cache[DataOffset + req[t].lba + k - 1] = buf[t][k]
        BY <1>2, <1>4, <4>1 DEF WriteInFlight
      <4> QED
        BY <1>1, <1>2, <4>2, <4>4, <4>5 DEF TypeOK
    <3> QED
      BY <3>1, <3>2
  <2>3. WriteInFlight(t)'
    <3>1. /\ mode = "ReadWrite" /\ Span(req[t]) \subseteq suspect
          /\ buf[t] = EncryptSectors(req[t].lba, req[t].count, req[t].val)
      BY <1>2, <1>4 DEF WriteInFlight
    <3> QED
      BY <1>2, <1>3, <2>1, <2>2, <3>1 DEF WriteInFlight, historyVars
  <2> QED
    BY <1>2, <1>7, <2>3 DEF ThreadInFlight
<1>12. InFlight'
  BY <1>8, <1>11 DEF InFlight
<1> QED
  BY <1>8, <1>9, <1>10, <1>12 DEF IInv

LEMMA WriteTornInv ==
  ASSUME IInv, NEW t \in Threads, WriteTorn(t)
  PROVE  IInv'
<1>1. TypeOK /\ InFlight
  BY DEF IInv
<1>2. /\ pc[t] = "io" /\ req[t].op = "write" /\ done[t] < req[t].count /\ Busy(t) /\ Busy(t)'
      /\ cache' = [cache EXCEPT ![Cell(t)] = Torn]
      /\ UNCHANGED <<mode, serveVars, faultVars, holder, threadVars, disk, historyVars>>
  BY DEF WriteTorn, Transferring, Busy, threadVars
<1>3. /\ cache' \in [Cells -> CellType]
      /\ HeadersIntact' /\ Settled' /\ LockHeld' /\ Synced'
      /\ \A u \in Threads : u # t => ThreadInFlight(u)'
  BY <1>2, WriteCell DEF CellType, threadVars
<1>4. TypeOK'
  BY <1>1, <1>2, <1>3 DEF TypeOK, serveVars, faultVars, threadVars, historyVars
<1>5. FailureKnown'
  BY <1>2 DEF IInv, FailureKnown, faultVars, threadVars
<1>6. ThreadInFlight(t)'
  <2>1. WriteInFlight(t) /\ req[t] \in Requests \cup {NoReq, TheFlush} /\ done[t] \in Nat
    BY <1>1, <1>2 DEF InFlight, ThreadInFlight, TypeOK
  <2>2. /\ req[t].lba \in Nat /\ req[t].count \in Nat
        /\ Cell(t) = DataOffset + req[t].lba + (done[t] + 1) - 1
    BY <1>2, CellInside
  <2>3. ASSUME NEW k \in 1..done[t]
        PROVE  cache'[DataOffset + req[t].lba + k - 1] = buf[t][k]
    <3>1. DataOffset + req[t].lba + k - 1 # Cell(t)
      BY <2>1, <2>2, VolumeAssumption
    <3>2. k \in 1..req[t].count
      BY <1>2, <2>1, <2>2
    <3>3. DataOffset + req[t].lba + k - 1 \in Cells
      BY <2>1, <3>2, RangeInside, PayloadInside DEF WriteInFlight
    <3>4. cache[DataOffset + req[t].lba + k - 1] = buf[t][k]
      BY <1>2, <2>1 DEF WriteInFlight
    <3> QED
      BY <1>1, <1>2, <3>1, <3>3, <3>4 DEF TypeOK
  <2>4. WriteInFlight(t)'
    BY <1>2, <2>1, <2>3 DEF WriteInFlight, threadVars, historyVars
  <2> QED
    BY <1>2, <2>4 DEF ThreadInFlight, threadVars
<1>7. InFlight'
  BY <1>3, <1>6 DEF InFlight
<1> QED
  BY <1>3, <1>4, <1>5, <1>7 DEF IInv

----------------------------------------------------------------------------
(* Image::sync, and the panic that poisons the lock.                      *)

LEMMA SyncOkInv ==
  ASSUME IInv, NEW t \in Threads, SyncOk(t)
  PROVE  IInv'
<1>1. TypeOK /\ InFlight /\ Synced
  BY DEF IInv
<1>2. /\ pc[t] = "sync" /\ Busy(t) /\ holder' = NoThread
      /\ disk' = IF mode = "ReadWrite" THEN cache ELSE disk
      /\ Acknowledge(t) /\ Return(t, "Ok", <<>>)
      /\ UNCHANGED <<mode, serveVars, faultVars, cache>>
  BY DEF SyncOk, Busy
<1>3. /\ pc' = [pc EXCEPT ![t] = "idle"] /\ req' = [req EXCEPT ![t] = NoReq]
      /\ buf' = [buf EXCEPT ![t] = <<>>] /\ done' = [done EXCEPT ![t] = 0]
      /\ reply' = [reply EXCEPT ![t] = [code |-> "Ok", data |-> <<>>]]
  BY <1>2 DEF Return
<1>4. /\ pc'[t] = "idle" /\ req'[t] = NoReq /\ buf'[t] = <<>> /\ done'[t] = 0 /\ ~Busy(t)'
      /\ \A u \in Threads : u # t => /\ pc'[u] = pc[u] /\ req'[u] = req[u] /\ buf'[u] = buf[u]
                                    /\ done'[u] = done[u] /\ ~Busy(u) /\ ~Busy(u)'
  BY <1>1, <1>2, <1>3, AloneInIo DEF TypeOK, Busy
<1>5. req[t] \in Requests \cup {NoReq, TheFlush} /\ req[t].op \in {"write", "flush"}
  BY <1>1, <1>2 DEF TypeOK, InFlight, ThreadInFlight, ReadInFlight
<1>6. req[t].op = "write" => WriteInFlight(t) /\ mode = "ReadWrite"
  BY <1>1, <1>2 DEF InFlight, ThreadInFlight, WriteInFlight
<1>7. \/ /\ req[t].op = "write" /\ suspect' = suspect \ Span(req[t])
         /\ acked' = [s \in Sectors |-> IF s \in Span(req[t]) THEN req[t].val ELSE acked[s]]
      \/ req[t].op = "flush" /\ UNCHANGED historyVars
  BY <1>2, <1>5 DEF Acknowledge
<1>8. TypeOK'
  <2>1. acked' \in [Sectors -> Vals] /\ suspect' \subseteq Sectors
    BY <1>1, <1>5, <1>7, RequestFacts DEF TypeOK, historyVars
  <2>2. [code |-> "Ok", data |-> <<>>] \in [code : Codes, data : Seq(Vals \cup {Noise})]
    BY DEF Codes
  <2>3. reply' \in [Threads -> [code : Codes, data : Seq(Vals \cup {Noise})]]
    BY <1>1, <1>3, <2>2 DEF TypeOK
  <2>4. <<>> \in Seq(CellType)
    OBVIOUS
  <2>5. /\ buf' \in [Threads -> Seq(CellType)] /\ done' \in [Threads -> Nat]
        /\ req' \in [Threads -> Requests \cup {NoReq, TheFlush}]
        /\ pc' \in [Threads -> {"idle", "wait", "io", "sync", "unwinding"}]
    BY <1>1, <1>3, <2>4 DEF TypeOK
  <2>6. disk' \in [Cells -> CellType]
    BY <1>1, <1>2 DEF TypeOK
  <2> QED
    BY <1>1, <1>2, <2>1, <2>3, <2>5, <2>6 DEF TypeOK, serveVars, faultVars
<1>9. HeadersIntact'
  BY <1>2 DEF IInv, HeadersIntact
<1>10. Settled'
  <2>1. SUFFICES ASSUME NEW s \in Sectors \ suspect'
                 PROVE  /\ cache[DataOffset + s] = Enc(s, acked'[s])
                        /\ disk'[DataOffset + s] = cache[DataOffset + s]
    BY <1>2 DEF Settled
  <2>2. CASE req[t].op = "write" /\ s \in Span(req[t])
    <3>1. /\ req[t].lba \in Nat /\ req[t].count \in Nat
          /\ done[t] = req[t].count
          /\ buf[t] = EncryptSectors(req[t].lba, req[t].count, req[t].val)
          /\ CheckedRange(req[t].lba, req[t].count)
          /\ \A k \in 1..done[t] : cache[DataOffset + req[t].lba + k - 1] = buf[t][k]
      BY <1>2, <1>5, <1>6, <2>2, RequestFacts DEF WriteInFlight
    <3>2. PICK j \in 0..(req[t].count - 1) : s = req[t].lba + j
      BY <2>2 DEF Span
    <3> DEFINE k == j + 1
    <3>3. k \in 1..done[t] /\ DataOffset + req[t].lba + k - 1 = DataOffset + s
          /\ req[t].lba + k - 1 = s
      BY <3>1, <3>2, VolumeAssumption
    <3>4. buf[t][k] = Enc(req[t].lba + k - 1, req[t].val)
      BY <1>5, <2>2, <3>1, <3>3, EncryptType
    <3>5. cache[DataOffset + s] = Enc(s, req[t].val)
      BY <3>1, <3>3, <3>4
    <3> QED
      BY <1>2, <1>6, <1>7, <2>2, <3>5
  <2>3. CASE ~(req[t].op = "write" /\ s \in Span(req[t]))
    <3>1. s \in Sectors \ suspect /\ acked'[s] = acked[s]
      BY <1>7, <2>3 DEF historyVars
    <3> QED
      BY <1>2, <3>1 DEF IInv, Settled
  <2> QED
    BY <2>2, <2>3
<1>11. LockHeld'
  BY <1>4 DEF LockHeld
<1>12. InFlight'
  <2>1. ThreadInFlight(t)'
    BY <1>4 DEF ThreadInFlight
  <2> QED
    BY <1>1, <1>2, <1>4, <2>1, FrameInFlight DEF InFlight
<1>13. FailureKnown'
  BY <1>2, <1>4 DEF IInv, FailureKnown, Threads, faultVars
<1>14. Synced'
  <2>1. Main \in Threads /\ NoReq.op = "none"
    BY DEF Threads, NoReq
  <2>2. mode' = "ReadWrite" => cache' = disk'
    BY <1>2
  <2> QED
    BY <1>1, <1>2, <1>4, <2>1, <2>2 DEF Synced, serveVars, faultVars
<1> QED
  BY <1>8, <1>9, <1>10, <1>11, <1>12, <1>13, <1>14 DEF IInv

LEMMA PanicInv ==
  ASSUME IInv, NEW t \in Threads, Panic(t)
  PROVE  IInv'
<1>1. TypeOK /\ InFlight /\ Synced
  BY DEF IInv
<1>2. /\ t \in Callers /\ Busy(t) /\ holder' = NoThread /\ poisoned' = TRUE /\ broken' = TRUE
      /\ pc' = [pc EXCEPT ![t] = "unwinding"] /\ req' = [req EXCEPT ![t] = NoReq]
      /\ buf' = [buf EXCEPT ![t] = <<>>] /\ done' = [done EXCEPT ![t] = 0]
      /\ UNCHANGED <<mode, serveVars, faulted, reply, cache, disk, historyVars>>
  BY DEF Panic, Busy
<1>3. /\ pc'[t] = "unwinding" /\ buf'[t] = <<>> /\ done'[t] = 0 /\ ~Busy(t)'
      /\ \A u \in Threads : u # t => /\ pc'[u] = pc[u] /\ req'[u] = req[u] /\ buf'[u] = buf[u]
                                    /\ done'[u] = done[u] /\ ~Busy(u) /\ ~Busy(u)'
  BY <1>1, <1>2, AloneInIo DEF TypeOK, Busy
<1>4. TypeOK'
  <2>1. <<>> \in Seq(CellType)
    OBVIOUS
  <2>2. /\ buf' \in [Threads -> Seq(CellType)] /\ done' \in [Threads -> Nat]
        /\ req' \in [Threads -> Requests \cup {NoReq, TheFlush}]
        /\ pc' \in [Threads -> {"idle", "wait", "io", "sync", "unwinding"}]
    BY <1>1, <1>2, <2>1 DEF TypeOK
  <2> QED
    BY <1>1, <1>2, <2>2 DEF TypeOK, serveVars, historyVars
<1>5. HeadersIntact' /\ Settled'
  BY <1>2 DEF IInv, HeadersIntact, Settled, historyVars
<1>6. LockHeld'
  BY <1>3 DEF LockHeld
<1>7. InFlight'
  <2>1. ThreadInFlight(t)'
    BY <1>3 DEF ThreadInFlight
  <2> QED
    BY <1>1, <1>2, <1>3, <2>1, FrameInFlight DEF InFlight
<1>8. FailureKnown' /\ Synced'
  <2>1. Main \in Threads /\ t # Main
    BY <1>2, VolumeAssumption DEF Threads
  <2>2. phase \notin {"closed", "down"}
    BY <1>1, <1>2 DEF Synced, Busy
  <2> QED
    BY <1>1, <1>2, <1>3, <2>1, <2>2 DEF IInv, FailureKnown, Synced, serveVars
<1> QED
  BY <1>4, <1>5, <1>6, <1>7, <1>8 DEF IInv

----------------------------------------------------------------------------
(* serve() and the environment.                                           *)

LEMMA BeginShutdownInv ==
  ASSUME IInv, NEW failed \in BOOLEAN, BeginShutdown(failed)
  PROVE  IInv'
<1>1. TypeOK /\ InFlight /\ Synced
  BY DEF IInv
<1>2. /\ phase = "serving" /\ phase' = "flushing"
      /\ faulted' = (faulted \/ failed) /\ broken' = (broken \/ failed)
      /\ pc' = [pc EXCEPT ![Main] = "wait"] /\ req' = [req EXCEPT ![Main] = TheFlush]
      /\ UNCHANGED <<mode, poisoned, holder, stopping, syncFailed, verdict, buf, done, reply,
                     cache, disk, historyVars>>
  BY DEF BeginShutdown
<1>3. Main \in Threads /\ pc[Main] = "idle"
  BY <1>1, <1>2 DEF Threads, Synced
<1>4. /\ pc'[Main] = "wait" /\ req'[Main] = TheFlush /\ ~Busy(Main)' /\ ~Busy(Main)
      /\ \A u \in Threads : u # Main => pc'[u] = pc[u] /\ req'[u] = req[u]
  BY <1>1, <1>2, <1>3 DEF TypeOK, Busy
<1>5. TypeOK'
  <2>1. /\ req' \in [Threads -> Requests \cup {NoReq, TheFlush}]
        /\ pc' \in [Threads -> {"idle", "wait", "io", "sync", "unwinding"}]
    BY <1>1, <1>2 DEF TypeOK
  <2>2. faulted' \in BOOLEAN /\ broken' \in BOOLEAN
    BY <1>1, <1>2 DEF TypeOK
  <2> QED
    BY <1>1, <1>2, <2>1, <2>2 DEF TypeOK, historyVars
<1>6. HeadersIntact' /\ Settled'
  BY <1>2 DEF IInv, HeadersIntact, Settled, historyVars
<1>7. LockHeld'
  BY <1>2, <1>4 DEF IInv, LockHeld, Busy
<1>8. InFlight'
  <2>1. ThreadInFlight(Main)'
    <3>1. buf'[Main] = <<>> /\ done'[Main] = 0
      BY <1>1, <1>2, <1>3, <1>4 DEF InFlight, ThreadInFlight
    <3> QED
      BY <1>4, <3>1 DEF ThreadInFlight, TheFlush
  <2> QED
    BY <1>1, <1>2, <1>4, <2>1, FrameInFlight DEF InFlight, historyVars
<1>9. FailureKnown'
  BY <1>2, <1>4, VolumeAssumption DEF IInv, FailureKnown, Threads
<1>10. Synced'
  BY <1>1, <1>2, <1>3, <1>4 DEF Synced, Flushed, TheFlush
<1> QED
  BY <1>5, <1>6, <1>7, <1>8, <1>9, <1>10 DEF IInv

LEMMA StopInv ==
  ASSUME IInv, Stop
  PROVE  IInv'
<1>1. /\ phase = "flushing" /\ pc[Main] = "idle" /\ phase' = "draining" /\ stopping' = TRUE
      /\ syncFailed' = (reply[Main].code # "Ok")
      /\ UNCHANGED <<mode, faultVars, holder, verdict, threadVars, cache, disk, historyVars>>
  BY DEF Stop
<1> USE <1>1 DEF IInv, historyVars, faultVars, threadVars
<1>2. TypeOK'
  BY DEF TypeOK
<1>3. HeadersIntact' /\ Settled' /\ LockHeld' /\ FailureKnown'
  BY DEF HeadersIntact, Settled, LockHeld, FailureKnown, Busy
<1>4. InFlight'
  BY FrameInFlight DEF InFlight
<1>5. Synced'
  <2>1. Flushed' => Flushed
    BY DEF Flushed
  <2> QED
    BY <2>1 DEF Synced, Busy
<1> QED
  BY <1>2, <1>3, <1>4, <1>5

LEMMA DrainedInv ==
  ASSUME IInv, NEW err \in BOOLEAN, Drained(err)
  PROVE  IInv'
<1>1. /\ phase = "draining" /\ phase' = "closed" /\ \A t \in Callers : pc[t] = "idle"
      /\ verdict' = IF syncFailed \/ err \/ faulted THEN "failed" ELSE "clean"
      /\ UNCHANGED <<mode, faultVars, holder, stopping, syncFailed, threadVars, cache, disk,
                     historyVars>>
  BY DEF Drained
<1> USE <1>1 DEF IInv, historyVars, faultVars, threadVars
<1>2. TypeOK'
  BY DEF TypeOK
<1>3. HeadersIntact' /\ Settled' /\ LockHeld' /\ FailureKnown'
  BY DEF HeadersIntact, Settled, LockHeld, FailureKnown, Busy
<1>4. InFlight'
  BY FrameInFlight DEF InFlight
<1>5. Synced'
  <2>1. Flushed' => Flushed
    BY DEF Flushed
  <2>2. \A t \in Threads : pc'[t] = "idle"
    BY DEF Threads, Synced
  <2> QED
    BY <2>1, <2>2 DEF Synced, Busy
<1> QED
  BY <1>2, <1>3, <1>4, <1>5

(* A process without a session satisfies all that concerns the session. *)
LEMMA NoSessionInv ==
  ASSUME IInv, NoSession, phase' \in {"serving", "down"}, mode' \in {"ReadOnly", "ReadWrite"},
         cache' \in [Cells -> CellType], disk' \in [Cells -> CellType],
         UNCHANGED historyVars, HeadersIntact', Settled'
  PROVE  IInv'
<1>1. TypeOK'
  <2>1. NoReply \in [code : Codes, data : Seq(Vals \cup {Noise})]
    BY DEF NoReply, Codes
  <2>2. reply' \in [Threads -> [code : Codes, data : Seq(Vals \cup {Noise})]]
    BY <2>1 DEF NoSession
  <2>3. <<>> \in Seq(CellType)
    OBVIOUS
  <2>4. /\ buf' \in [Threads -> Seq(CellType)] /\ done' \in [Threads -> Nat]
        /\ req' \in [Threads -> Requests \cup {NoReq, TheFlush}]
        /\ pc' \in [Threads -> {"idle", "wait", "io", "sync", "unwinding"}]
    BY <2>3 DEF NoSession
  <2> QED
    BY <2>2, <2>4 DEF IInv, TypeOK, NoSession, historyVars
<1>2. \A t \in Threads : pc'[t] = "idle" /\ ~Busy(t)' /\ done'[t] = 0 /\ buf'[t] = <<>>
  BY DEF NoSession, Busy
<1>3. LockHeld' /\ InFlight'
  BY <1>2 DEF LockHeld, InFlight, ThreadInFlight
<1>4. FailureKnown' /\ Synced'
  <2>1. Main \in Threads
    BY DEF Threads
  <2>2. req'[Main].op = "none"
    BY <2>1 DEF NoSession, NoReq
  <2> QED
    BY <1>2, <2>1, <2>2 DEF FailureKnown, Synced, Flushed, NoSession
<1> QED
  BY <1>1, <1>3, <1>4 DEF IInv

LEMMA OpenKillInv ==
  ASSUME IInv, Kill \/ \E m \in {"ReadOnly", "ReadWrite"} : Open(m)
  PROVE  IInv'
<1>1. NoSession /\ phase' \in {"serving", "down"} /\ UNCHANGED <<cache, disk, historyVars>>
      /\ mode' \in {"ReadOnly", "ReadWrite"}
  BY DEF Kill, Open, IInv, TypeOK
<1>2. HeadersIntact' /\ Settled' /\ cache' \in [Cells -> CellType] /\ disk' \in [Cells -> CellType]
  BY <1>1 DEF IInv, TypeOK, HeadersIntact, Settled, historyVars
<1> QED
  BY <1>1, <1>2, NoSessionInv

LEMMA WritebackInv ==
  ASSUME IInv, NEW i \in Cells, Writeback(i)
  PROVE  IInv'
<1>1. /\ cache[i] # disk[i] /\ disk' = [disk EXCEPT ![i] = cache[i]]
      /\ UNCHANGED <<mode, serveVars, faultVars, holder, threadVars, cache, historyVars>>
  BY DEF Writeback
<1> USE <1>1 DEF IInv, historyVars, faultVars, threadVars, serveVars
<1>2. TypeOK'
  BY DEF TypeOK
<1>3. HeadersIntact'
  BY DEF HeadersIntact, TypeOK
<1>4. Settled'
  <2>1. SUFFICES ASSUME NEW s \in Sectors \ suspect
                 PROVE  disk'[DataOffset + s] = disk[DataOffset + s]
    BY DEF Settled
  <2>2. DataOffset + s # i
    BY DEF Settled
  <2>3. DataOffset + s \in Cells
    BY VolumeAssumption DEF Sectors, Cells
  <2> QED
    BY <2>2, <2>3 DEF TypeOK
<1>5. LockHeld' /\ FailureKnown'
  BY DEF LockHeld, FailureKnown, Busy
<1>6. InFlight'
  BY FrameInFlight DEF InFlight
<1>7. Synced'
  BY DEF Synced, Flushed, Busy
<1> QED
  BY <1>2, <1>3, <1>4, <1>5, <1>6, <1>7

LEMMA PowerCutInv ==
  ASSUME IInv, NEW torn \in SUBSET Cells, PowerCut(torn)
  PROVE  IInv'
<1>1. /\ torn \subseteq {i \in Cells : cache[i] # disk[i]} /\ phase' = "down" /\ NoSession
      /\ disk' = [i \in Cells |-> IF i \in torn THEN Torn ELSE disk[i]] /\ cache' = disk'
      /\ UNCHANGED <<mode, historyVars>>
  BY DEF PowerCut
<1>2. disk' \in [Cells -> CellType] /\ cache' \in [Cells -> CellType]
  BY <1>1 DEF IInv, TypeOK, CellType
<1>3. HeadersIntact'
  BY <1>1 DEF IInv, HeadersIntact
<1>4. Settled'
  <2>1. SUFFICES ASSUME NEW s \in Sectors \ suspect
                 PROVE  disk'[DataOffset + s] = disk[DataOffset + s]
    BY <1>1 DEF IInv, Settled, historyVars
  <2>2. DataOffset + s \notin torn
    BY <1>1 DEF IInv, Settled
  <2>3. DataOffset + s \in Cells
    BY VolumeAssumption DEF Sectors, Cells
  <2> QED
    BY <1>1, <2>2, <2>3
<1>5. mode' \in {"ReadOnly", "ReadWrite"}
  BY <1>1 DEF IInv, TypeOK
<1> QED
  BY <1>1, <1>2, <1>3, <1>4, <1>5, NoSessionInv

LEMMA StutterInv ==
  ASSUME IInv, UNCHANGED vars
  PROVE  IInv'
<1> USE DEF IInv, vars, historyVars, faultVars, threadVars, serveVars
<1>1. TypeOK'
  BY DEF TypeOK
<1>2. HeadersIntact' /\ Settled' /\ LockHeld' /\ FailureKnown'
  BY DEF HeadersIntact, Settled, LockHeld, FailureKnown, Busy
<1>3. InFlight'
  BY FrameInFlight DEF InFlight
<1>4. Synced'
  BY DEF Synced, Flushed, Busy
<1> QED
  BY <1>1, <1>2, <1>3, <1>4

----------------------------------------------------------------------------
(* Every step keeps the invariant. *)
LEMMA NextInv == IInv /\ [Next]_vars => IInv'
<1> SUFFICES ASSUME IInv, [Next]_vars PROVE IInv'
  OBVIOUS
<1>1. ASSUME NEW t \in Callers, NEW r \in Requests, Refuse(t, r) PROVE IInv'
  BY <1>1, RefuseInv
<1>2. ASSUME NEW t \in Callers, NEW r \in Requests, Enter(t, r) PROVE IInv'
  BY <1>2, EnterInv
<1>3. ASSUME NEW t \in Threads, Step(t) PROVE IInv'
  <2>1. CASE RefuseFaulted(t) \/ RefuseRange(t) \/ AnswerEmpty(t) \/ EncryptFails(t)
    BY <2>1, LockedRefusalInv
  <2>2. CASE StartTransfer(t)
    BY <2>2, StartTransferInv
  <2>3. CASE StartFlush(t)
    BY <2>3, StartFlushInv
  <2>4. CASE ReadSome(t)
    BY <2>4, ReadSomeInv
  <2>5. CASE ReadDone(t) \/ DecryptFails(t)
    BY <2>5, ReadEndInv
  <2>6. CASE WriteSome(t)
    BY <2>6, WriteSomeInv
  <2>7. CASE WriteTorn(t)
    BY <2>7, WriteTornInv
  <2>8. CASE SyncOk(t)
    BY <2>8, SyncOkInv
  <2>9. CASE BackendFails(t)
    BY <2>9, BackendFailsInv
  <2>10. CASE Panic(t)
    BY <2>10, PanicInv
  <2>11. CASE Caught(t)
    BY <2>11, CaughtInv
  <2> QED
    BY <1>3, <2>1, <2>2, <2>3, <2>4, <2>5, <2>6, <2>7, <2>8, <2>9, <2>10, <2>11 DEF Step
<1>4. CASE Serve
  <2>1. ASSUME NEW failed \in BOOLEAN, BeginShutdown(failed) PROVE IInv'
    BY <2>1, BeginShutdownInv
  <2>2. ASSUME NEW err \in BOOLEAN, Drained(err) PROVE IInv'
    BY <2>2, DrainedInv
  <2> QED
    BY <1>4, <2>1, <2>2, StopInv, OpenKillInv DEF Serve
<1>5. CASE Environment
  <2>1. ASSUME NEW i \in Cells, Writeback(i) PROVE IInv'
    BY <2>1, WritebackInv
  <2>2. ASSUME NEW torn \in SUBSET Cells, PowerCut(torn) PROVE IInv'
    BY <2>2, PowerCutInv
  <2> QED
    BY <1>5, <2>1, <2>2, OpenKillInv DEF Environment
<1>6. CASE UNCHANGED vars
  BY <1>6, StutterInv
<1> QED
  BY <1>1, <1>2, <1>3, <1>4, <1>5, <1>6 DEF Next

----------------------------------------------------------------------------
(* The inductive invariant holds in every reachable state of the session. *)
THEOREM Invariant == Spec => []IInv
BY InitInv, NextInv, PTL DEF Spec

(* Every variable keeps its type, for every image and every request. *)
THEOREM TypeCorrect == Spec => []TypeOK
<1>1. IInv => TypeOK
  BY DEF IInv
<1> QED
  BY <1>1, Invariant, PTL

(* write_at and write_all_at never touch a cell outside the payload. *)
THEOREM HeadersNeverWritten == Spec => []HeadersIntact
<1>1. IInv => HeadersIntact
  BY DEF IInv
<1> QED
  BY <1>1, Invariant, PTL

(* What write_at acknowledged stays on the disk through every failure, *)
(* kill and power cut, until another write to the sector is accepted.  *)
THEOREM AcknowledgedWritesSurvive == Spec => []AckedSurvive
<1>1. IInv => AckedSurvive
  BY DEF IInv, Settled, AckedSurvive
<1> QED
  BY <1>1, Invariant, PTL

(* A clean verdict of shutdown means that nothing failed, nobody is left   *)
(* and nothing is only in the cache.                                       *)
THEOREM CleanIsClean == Spec => []CleanVerdict
<1>1. IInv => CleanVerdict
  <2>1. SUFFICES ASSUME IInv, phase = "closed", verdict = "clean"
                 PROVE  /\ ~broken
                        /\ \A t \in Threads : pc[t] = "idle"
                        /\ mode = "ReadWrite" => cache = disk
    BY DEF CleanVerdict
  <2>2. \A t \in Threads : pc[t] = "idle" /\ ~Busy(t)
    BY <2>1 DEF IInv, Synced, Busy
  <2>3. ~broken
    BY <2>1, <2>2 DEF IInv, FailureKnown, Synced, Threads
  <2> QED
    BY <2>1, <2>2, <2>3 DEF IInv, Synced, Flushed
<1> QED
  BY <1>1, Invariant, PTL

(* After a failure, no thread passes from waiting to I/O. *)
THEOREM NoIoOnceFailed == Spec => NoIoAfterFailure
<1> DEFINE Quiet == broken /\ broken' => \A t \in Threads : Busy(t)' => Busy(t)
<1>1. IInv /\ [Next]_vars => Quiet
  <2>1. SUFFICES ASSUME IInv, [Next]_vars, broken, NEW t \in Threads, ~Busy(t)
                 PROVE  ~Busy(t)'
    OBVIOUS
  <2>2. TypeOK /\ (faulted \/ poisoned)
    BY <2>1 DEF IInv, FailureKnown
  <2>3. ASSUME NEW u \in Threads, NEW code, NEW data, Return(u, code, data)
        PROVE  ~Busy(t)'
    BY <2>1, <2>2, <2>3 DEF TypeOK, Busy, Return
  <2>4. ASSUME NEW u \in Callers, NEW r \in Requests, Refuse(u, r) \/ Enter(u, r)
        PROVE  ~Busy(t)'
    <3>1. CASE Refuse(u, r)
      BY <2>3, <3>1 DEF Refuse, Threads
    <3>2. CASE Enter(u, r)
      BY <2>1, <2>2, <3>2 DEF Enter, TypeOK, Busy, Threads
    <3> QED
      BY <2>4, <3>1, <3>2
  <2>5. ASSUME NEW u \in Threads, Step(u)
        PROVE  ~Busy(t)'
    <3>1. ~StartTransfer(u) /\ ~StartFlush(u)
      BY <2>2 DEF StartTransfer, StartFlush, Applies, Sound
    <3>2. CASE RefuseFaulted(u) \/ RefuseRange(u) \/ AnswerEmpty(u) \/ EncryptFails(u)
      BY <2>3, <3>2 DEF RefuseFaulted, RefuseRange, AnswerEmpty, EncryptFails
    <3>3. CASE ReadDone(u) \/ DecryptFails(u) \/ SyncOk(u) \/ BackendFails(u) \/ Caught(u)
      BY <2>3, <3>3 DEF ReadDone, DecryptFails, SyncOk, BackendFails, Caught
    <3>4. CASE ReadSome(u) \/ WriteTorn(u)
      BY <2>1, <3>4 DEF ReadSome, WriteTorn, threadVars, Busy
    <3>5. CASE WriteSome(u) \/ Panic(u)
      BY <2>1, <2>2, <3>5 DEF WriteSome, Panic, Transferring, TypeOK, Busy
    <3> QED
      BY <2>5, <3>1, <3>2, <3>3, <3>4, <3>5 DEF Step
  <2>6. CASE Serve
    <3>1. CASE \E failed \in BOOLEAN : BeginShutdown(failed)
      BY <2>1, <2>2, <3>1 DEF BeginShutdown, TypeOK, Busy
    <3>2. CASE Stop \/ \E err \in BOOLEAN : Drained(err)
      BY <2>1, <3>2 DEF Stop, Drained, threadVars, Busy
    <3>3. CASE \E m \in {"ReadOnly", "ReadWrite"} : Open(m)
      BY <3>3 DEF Open, NoSession, Busy
    <3> QED
      BY <2>6, <3>1, <3>2, <3>3 DEF Serve
  <2>7. CASE Environment
    <3>1. CASE \E i \in Cells : Writeback(i)
      BY <2>1, <3>1 DEF Writeback, threadVars, Busy
    <3>2. CASE Kill \/ \E torn \in SUBSET Cells : PowerCut(torn)
      BY <3>2 DEF Kill, PowerCut, NoSession, Busy
    <3> QED
      BY <2>7, <3>1, <3>2 DEF Environment
  <2>8. CASE UNCHANGED vars
    BY <2>1, <2>8 DEF vars, threadVars, Busy
  <2> QED
    BY <2>1, <2>4, <2>5, <2>6, <2>7, <2>8 DEF Next
<1> QED
  BY <1>1, Invariant, PTL DEF Spec, NoIoAfterFailure

(* A read that succeeds hands out what was last acknowledged. *)
LEMMA ReadBuffer ==
  ASSUME IInv, NEW t \in Threads, ReadDone(t), NEW k \in 0..(req[t].count - 1),
         req[t].lba + k \notin suspect
  PROVE  DecryptSectors(req[t].lba, buf[t])[k + 1] = acked[req[t].lba + k]
<1> DEFINE s == req[t].lba + k
<1>1. /\ req[t] \in Requests \cup {NoReq, TheFlush} /\ buf[t] \in Seq(CellType)
      /\ req[t].lba \in Nat /\ req[t].count \in Nat
  BY RequestFacts DEF IInv, TypeOK
<1>2. /\ Len(buf[t]) = req[t].count /\ CheckedRange(req[t].lba, req[t].count)
      /\ \A j \in 1..req[t].count : buf[t][j] = cache[DataOffset + req[t].lba + j - 1]
  BY DEF ReadDone, Transferring, IInv, InFlight, ThreadInFlight, ReadInFlight, Busy
<1>3. k + 1 \in 1..req[t].count /\ req[t].lba + (k + 1) - 1 = s
      /\ DataOffset + req[t].lba + (k + 1) - 1 = DataOffset + s
  BY <1>1, VolumeAssumption
<1>4. s \in Sectors \ suspect
  BY <1>1, <1>2, <1>3, RangeInside
<1>5. cache[DataOffset + s] = Enc(s, acked[s]) /\ acked[s] \in Vals
  BY <1>4 DEF IInv, Settled, TypeOK
<1>6. buf[t][k + 1] = Enc(s, acked[s])
  BY <1>2, <1>3, <1>5
<1>7. DecryptSectors(req[t].lba, buf[t])[k + 1] = Decrypt(s, buf[t][k + 1])
  <2>1. k + 1 \in 1..Len(buf[t])
    BY <1>2, <1>3
  <2>2. DecryptSectors(req[t].lba, buf[t])[k + 1] = Decrypt(req[t].lba + (k + 1) - 1, buf[t][k + 1])
    BY <1>1, <2>1, DecryptType
  <2> QED
    BY <1>3, <2>2
<1>8. Decrypt(s, Enc(s, acked[s])) = acked[s]
  BY <1>5 DEF Decrypt, Enc
<1> QED
  BY <1>6, <1>7, <1>8

(* Only the reader itself ends its read, and with the acknowledged data. *)
THEOREM ReadsReturnAcknowledged == Spec => ReadsSeeAcked
<1> DEFINE Right(t) ==
      Transferring(t, "read") /\ pc'[t] = "idle" /\ reply'[t].code = "Ok" =>
        \A k \in 0..(req[t].count - 1) :
          req[t].lba + k \notin suspect => reply'[t].data[k + 1] = acked[req[t].lba + k]
<1>1. IInv /\ [Next]_vars => \A t \in Threads : Right(t)
  <2>1. SUFFICES ASSUME IInv, [Next]_vars, NEW t \in Threads,
                        pc[t] = "io", req[t].op = "read", pc'[t] = "idle", reply'[t].code = "Ok"
                 PROVE  Right(t)
    BY DEF Transferring
  <2>2. TypeOK /\ \A x : pc' # [pc EXCEPT ![t] = x] \/ x = "idle"
    BY <2>1 DEF IInv, TypeOK
  <2>3. ASSUME NEW u \in Threads, NEW x, pc' = [pc EXCEPT ![u] = x]
        PROVE  u = t /\ x = "idle"
    BY <2>1, <2>2, <2>3 DEF TypeOK
  <2>4. pc' # pc
    BY <2>1
  <2>5. ASSUME NEW u \in Callers, NEW r \in Requests PROVE ~Refuse(u, r) /\ ~Enter(u, r)
    BY <2>1, <2>3 DEF Refuse, Enter, Return, Threads
  <2>6. ASSUME NEW u \in Threads, Step(u)
        PROVE  ReadDone(t)
    <3>1. CASE RefuseFaulted(u) \/ RefuseRange(u) \/ AnswerEmpty(u) \/ EncryptFails(u)
               \/ StartTransfer(u) \/ StartFlush(u)
      BY <2>1, <2>3, <3>1 DEF RefuseFaulted, RefuseRange, AnswerEmpty, EncryptFails, Return,
                              StartTransfer, StartFlush, Applies, Sound, CanLock
    <3>2. CASE ReadDone(u)
      BY <2>3, <3>2 DEF ReadDone, Return
    <3>3. CASE SyncOk(u) \/ Caught(u)
      BY <2>1, <2>3, <3>3 DEF SyncOk, Caught, Return
    <3>4. CASE DecryptFails(u) \/ BackendFails(u)
      <4>1. PICK code \in {"Other", "WritebackFailed"} : Return(u, code, <<>>)
        BY <3>4 DEF DecryptFails, BackendFails
      <4> QED
        BY <2>1, <2>2, <2>3, <4>1 DEF Return, TypeOK
    <3>5. CASE ReadSome(u) \/ WriteTorn(u)
      BY <2>4, <3>5 DEF ReadSome, WriteTorn, threadVars
    <3>6. CASE WriteSome(u) \/ Panic(u)
      BY <2>1, <2>3, <3>6 DEF WriteSome, Panic, Transferring
    <3> QED
      BY <2>6, <3>1, <3>2, <3>3, <3>4, <3>5, <3>6 DEF Step
  <2>7. ~Serve /\ ~Environment
    <3>1. ~(Stop \/ \E err \in BOOLEAN : Drained(err)) /\ ~\E i \in Cells : Writeback(i)
      BY <2>4 DEF Stop, Drained, Writeback, threadVars
    <3>2. ~\E failed \in BOOLEAN : BeginShutdown(failed)
      BY <2>3 DEF BeginShutdown, Threads
    <3>3. ~NoSession
      BY <2>1 DEF NoSession, NoReply
    <3> QED
      BY <3>1, <3>2, <3>3 DEF Serve, Environment, Open, Kill, PowerCut
  <2>8. ReadDone(t)
    <3>1. ~UNCHANGED vars
      BY <2>4 DEF vars, threadVars
    <3> QED
      BY <2>1, <2>5, <2>6, <2>7, <3>1 DEF Next
  <2>9. reply'[t].data = DecryptSectors(req[t].lba, buf[t])
    BY <2>2, <2>8 DEF ReadDone, Return, TypeOK
  <2> QED
    BY <2>1, <2>8, <2>9, ReadBuffer
<1> QED
  BY <1>1, Invariant, PTL DEF Spec, ReadsSeeAcked

----------------------------------------------------------------------------
(* The session of Volume implements DurableDisk: every step of the         *)
(* callbacks, of the image file, of serve() and of the environment is a    *)
(* step of the abstract disk or none, seen through the refinement mapping  *)
(* at the end of Volume.                                                   *)

(* The two parts of the mapping that are computed. *)
Content == [s \in Sectors |-> Decrypt(s, disk[DataOffset + s])]
Active  == [t \in Threads |-> IF Busy(t) THEN req[t] ELSE NoReq]

(* A callback that is under way has no answer yet.  (The flush of shutdown *)
(* runs on the thread of serve(), whose last answer nobody has cleared.)   *)
Unanswered == \A t \in Callers : pc[t] # "idle" => reply[t] = NoReply

RInv == IInv /\ Unanswered

----------------------------------------------------------------------------
(* Facts about the mapping. *)

(* A sector holds what was encrypted for it, or noise. *)
LEMMA ContentType ==
  /\ Content \in [Sectors -> Vals \cup {Noise}]
  /\ Content' \in [Sectors -> Vals \cup {Noise}]
<1>1. \A i, c : Decrypt(i, c) \in Vals \cup {Noise}
  BY DEF Decrypt, Enc
<1> QED
  BY <1>1 DEF Content

LEMMA DecryptEnc ==
  ASSUME NEW s, NEW v \in Vals
  PROVE  Decrypt(s, Enc(s, v)) = v
BY DEF Decrypt, Enc

(* A settled sector decrypts to what was last acknowledged. *)
LEMMA SettledContent ==
  ASSUME IInv, NEW s \in Sectors \ suspect
  PROVE  Content[s] = acked[s]
<1>1. disk[DataOffset + s] = Enc(s, acked[s]) /\ acked[s] \in Vals
  BY DEF IInv, Settled, TypeOK
<1> QED
  BY <1>1, DecryptEnc DEF Content

(* Where every settled cell stays, so does every settled sector. *)
LEMMA SettledKept ==
  ASSUME \A s \in Sectors \ suspect : disk'[DataOffset + s] = disk[DataOffset + s]
  PROVE  Disk!KeepsAllBut(suspect)
<1>1. \A s \in Sectors \ suspect : Content'[s] = Content[s]
  BY DEF Content
<1> QED
  BY <1>1, ContentType DEF Disk!KeepsAllBut, Content

LEMMA SameContent ==
  ASSUME disk' = disk
  PROVE  Content' = Content
BY DEF Content

(* Requests that are accepted differ from none at all. *)
LEMMA ActiveIsRequest ==
  ASSUME IInv, NEW t \in Threads, pc[t] = "wait" \/ Busy(t)
  PROVE  req[t] # NoReq /\ req[t].op \in {"read", "write", "flush"}
BY DEF IInv, InFlight, ThreadInFlight, NoReq

(* The thread that does I/O is the only one the abstract disk sees. *)
LEMMA ActiveAlone ==
  ASSUME IInv, NEW t \in Threads, Busy(t)
  PROVE  Active = [u \in Threads |-> IF u = t THEN req[t] ELSE NoReq]
BY AloneInIo DEF Active

----------------------------------------------------------------------------
(* Steps of the callbacks. *)

(* Who answers without having been accepted changes nothing else: a         *)
(* refusal before or under the lock, an empty transfer, a caught panic.     *)
LEMMA AnswerStep ==
  ASSUME IInv, NEW t \in Threads, ~Busy(t), NEW code, NEW data, Return(t, code, data),
         UNCHANGED <<mode, broken, disk, suspect>>
  PROVE  Disk!Next
<1>1. TypeOK
  BY DEF IInv
<1>2. reply' = [reply EXCEPT ![t] = reply'[t]]
  BY <1>1 DEF Return, TypeOK
<1>3. \A u \in Threads : /\ Busy(u)' <=> Busy(u)
                         /\ Busy(u) => req'[u] = req[u]
  BY <1>1 DEF Return, TypeOK, Busy
<1>4. Active' = Active
  BY <1>3 DEF Active
<1>5. Active[t] = NoReq
  BY DEF Active
<1>6. Content' = Content
  BY SameContent
<1>7. Disk!Answer(t)
  BY <1>2, <1>4, <1>5, <1>6 DEF Disk!Answer, Disk!Same, Active, Content
<1> QED
  BY <1>7 DEF Disk!Next

LEMMA RefuseStep ==
  ASSUME IInv, NEW t \in Callers, NEW r \in Requests, Refuse(t, r)
  PROVE  Disk!Next
<1>1. t \in Threads /\ ~Busy(t)
  BY DEF Refuse, Threads, Busy
<1>2. UNCHANGED <<mode, broken, disk, suspect>>
  BY DEF Refuse, faultVars, historyVars
<1> QED
  BY <1>1, <1>2, AnswerStep DEF Refuse

LEMMA RefusedStep ==
  ASSUME IInv, NEW t \in Threads,
         \/ RefuseFaulted(t) \/ RefuseRange(t) \/ AnswerEmpty(t) \/ EncryptFails(t) \/ Caught(t)
  PROVE  Disk!Next
<1> USE DEF RefuseFaulted, RefuseRange, AnswerEmpty, EncryptFails, Caught
<1>1. ~Busy(t)
  BY DEF Applies, Sound, CanLock, Busy
<1>2. UNCHANGED <<mode, broken, disk, suspect>>
  BY DEF faultVars, historyVars
<1>3. PICK code, data : Return(t, code, data)
  OBVIOUS
<1> QED
  BY <1>1, <1>2, <1>3, AnswerStep

(* A request that only waits is not on the abstract disk; the old answer   *)
(* is cleared.                                                             *)
LEMMA EnterStep ==
  ASSUME IInv, NEW t \in Callers, NEW r \in Requests, Enter(t, r)
  PROVE  Disk!Next
<1>1. TypeOK /\ t \in Threads
  BY DEF IInv, Threads
<1>2. reply' = [reply EXCEPT ![t] = reply'[t]]
  BY <1>1 DEF Enter, TypeOK
<1>3. \A u \in Threads : /\ Busy(u)' <=> Busy(u)
                         /\ Busy(u) => req'[u] = req[u]
  BY <1>1 DEF Enter, TypeOK, Busy
<1>4. Active' = Active
  BY <1>3 DEF Active
<1>5. Active[t] = NoReq
  BY <1>1 DEF Active, Enter, Busy
<1>6. Content' = Content /\ UNCHANGED <<mode, broken, suspect>>
  BY SameContent DEF Enter, faultVars, historyVars
<1>7. Disk!Answer(t)
  BY <1>2, <1>4, <1>5, <1>6 DEF Disk!Answer, Disk!Same, Active, Content
<1> QED
  BY <1>1, <1>7 DEF Disk!Next

(* Taking the lock accepts the request: nobody else has one, nothing has    *)
(* failed, and a transfer lies on the disk.                                 *)
LEMMA StartStep ==
  ASSUME IInv, NEW t \in Threads, StartTransfer(t) \/ StartFlush(t)
  PROVE  Disk!Next
<1> DEFINE r == req[t]
<1>1. TypeOK /\ InFlight
  BY DEF IInv
<1>2. /\ pc[t] = "wait" /\ Sound(t)
      /\ pc' = [pc EXCEPT ![t] = "io"] \/ pc' = [pc EXCEPT ![t] = "sync"]
      /\ UNCHANGED <<mode, broken, req, reply, disk>>
  BY DEF StartTransfer, StartFlush, Applies, Sound, CanLock, faultVars, historyVars
<1>3. \A u \in Threads : ~Busy(u)
  BY <1>2, LockFree DEF Sound
<1>4. Busy(t)' /\ \A u \in Threads : u # t => ~Busy(u)'
  BY <1>1, <1>2, <1>3 DEF TypeOK, Busy
<1>5. r \in Requests \cup {NoReq, TheFlush} /\ r # NoReq
  BY <1>1, <1>2, ActiveIsRequest DEF TypeOK
<1>6. Active = [u \in Threads |-> NoReq]
  BY <1>3 DEF Active
<1>7. Active' = [u \in Threads |-> IF u = t THEN r ELSE NoReq]
  BY <1>2, <1>4 DEF Active
<1>8. Active' = [Active EXCEPT ![t] = Active'[t]] /\ Active'[t] = r
  BY <1>6, <1>7
<1>9. ~broken
  BY <1>2 DEF IInv, FailureKnown, Sound
<1>10. r.op \in {"read", "write"} => Span(r) \subseteq Sectors
  BY <1>2, <1>5, RangeInside DEF StartTransfer, StartFlush, Applies, Sound, IsTransfer
<1>11. IF r.op = "write" THEN mode = "ReadWrite" /\ suspect' = suspect \cup Span(r)
                         ELSE suspect' = suspect
  <2>1. r.op = "write" => mode = "ReadWrite"
    BY <1>1, <1>2 DEF InFlight, ThreadInFlight, WriteInFlight
  <2> QED
    BY <2>1 DEF StartTransfer, StartFlush, historyVars
<1>12. Content' = Content
  BY <1>2, SameContent
<1>13. Disk!Span(r) = Span(r)
  BY DEF Disk!Span, Span
<1> HIDE DEF r
<1>14. Disk!Accept(t)
  <2>1. \A d \in Threads : Active[d] = NoReq
    BY <1>6
  <2>2. /\ ~broken
        /\ Active'[t] # NoReq
        /\ Active' = [Active EXCEPT ![t] = Active'[t]]
        /\ Active'[t].op \in {"read", "write"} => Disk!Span(Active'[t]) \subseteq Sectors
        /\ IF Active'[t].op = "write"
           THEN (mode = "ReadWrite") /\ suspect' = suspect \cup Disk!Span(Active'[t])
           ELSE suspect' = suspect
    BY <1>5, <1>8, <1>9, <1>10, <1>11, <1>13
  <2>3. Content' = Content /\ reply' = reply /\ broken' = broken /\ mode' = mode
    BY <1>2, <1>12
  <2> QED
    BY <2>1, <2>2, <2>3 DEF Disk!Accept, Disk!Same, Active, Content
<1> QED
  BY <1>14 DEF Disk!Next

----------------------------------------------------------------------------
(* Steps under the lock. *)

(* The thread that does I/O answers and leaves the abstract disk. *)
LEMMA LeaveActive ==
  ASSUME IInv, NEW t \in Threads, Busy(t), ~Busy(t)',
         \A u \in Threads : u # t => pc'[u] = pc[u] /\ req'[u] = req[u]
  PROVE  /\ Active[t] = req[t] /\ Active[t] # NoReq
         /\ Active' = [Active EXCEPT ![t] = NoReq]
<1>1. Active[t] = req[t] /\ req[t] # NoReq
  BY ActiveIsRequest DEF Active
<1>2. \A u \in Threads : ~Busy(u)'
  BY AloneInIo DEF Busy
<1>3. Active' = [u \in Threads |-> NoReq]
  BY <1>2 DEF Active
<1> QED
  BY <1>1, <1>3, ActiveAlone

LEMMA ReturnLeaves ==
  ASSUME IInv, NEW t \in Threads, Busy(t), NEW code, NEW data, Return(t, code, data)
  PROVE  /\ Active[t] = req[t] /\ Active[t] # NoReq
         /\ Active' = [Active EXCEPT ![t] = NoReq]
         /\ reply' = [reply EXCEPT ![t] = reply'[t]]
         /\ reply'[t] = [code |-> code, data |-> data]
<1>1. TypeOK
  BY DEF IInv
<1>2. /\ ~Busy(t)'
      /\ \A u \in Threads : u # t => pc'[u] = pc[u] /\ req'[u] = req[u]
  BY <1>1 DEF Return, TypeOK, Busy
<1>3. /\ reply' = [reply EXCEPT ![t] = reply'[t]]
      /\ reply'[t] = [code |-> code, data |-> data]
  BY <1>1 DEF Return, TypeOK
<1> QED
  BY <1>2, <1>3, LeaveActive

(* A round of read_exact_at or of write_all_at is not seen: it changes the *)
(* cache, which a power cut takes.                                         *)
LEMMA RoundStep ==
  ASSUME IInv, NEW t \in Threads, ReadSome(t) \/ WriteSome(t) \/ WriteTorn(t)
  PROVE  UNCHANGED Disk!dvars
<1>1. TypeOK
  BY DEF IInv
<1>2. /\ UNCHANGED <<mode, broken, req, reply, disk, suspect>>
      /\ Busy(t)
      /\ pc' = pc \/ pc' = [pc EXCEPT ![t] = "io"] \/ pc' = [pc EXCEPT ![t] = "sync"]
  BY DEF ReadSome, WriteSome, WriteTorn, Transferring, Busy, faultVars, historyVars, threadVars
<1>3. \A u \in Threads : Busy(u)' <=> Busy(u)
  BY <1>1, <1>2 DEF TypeOK, Busy
<1>4. Active' = Active /\ Content' = Content
  BY <1>2, <1>3, SameContent DEF Active
<1> QED
  BY <1>2, <1>4 DEF Disk!dvars, Active, Content

(* A read that succeeds hands out the content of every settled sector. *)
LEMMA ReadDoneStep ==
  ASSUME IInv, NEW t \in Threads, ReadDone(t)
  PROVE  Disk!Next
<1>1. /\ Busy(t) /\ req[t].op = "read"
      /\ Return(t, "Ok", DecryptSectors(req[t].lba, buf[t]))
      /\ UNCHANGED <<mode, broken, disk, suspect>>
  BY DEF ReadDone, Transferring, Busy, faultVars, historyVars
<1>2. /\ Active[t] = req[t] /\ Active[t] # NoReq
      /\ Active' = [Active EXCEPT ![t] = NoReq]
      /\ reply' = [reply EXCEPT ![t] = reply'[t]]
      /\ reply'[t] = [code |-> "Ok", data |-> DecryptSectors(req[t].lba, buf[t])]
  BY <1>1, ReturnLeaves
<1>3. ASSUME NEW k \in 0..(req[t].count - 1), req[t].lba + k \notin suspect
      PROVE  reply'[t].data[k + 1] = Content[req[t].lba + k]
  <2>1. reply'[t].data[k + 1] = acked[req[t].lba + k]
    BY <1>2, <1>3, ReadBuffer
  <2>2. req[t] \in Requests \cup {NoReq, TheFlush} /\ CheckedRange(req[t].lba, req[t].count)
    BY <1>1 DEF IInv, TypeOK, InFlight, ThreadInFlight, ReadInFlight
  <2>3. req[t].lba + k \in Span(req[t])
    BY DEF Span
  <2>4. req[t].lba + k \in Sectors \ suspect
    BY <1>3, <2>2, <2>3, RangeInside
  <2> QED
    BY <2>1, <2>4, SettledContent
<1>4. Content' = Content
  BY <1>1, SameContent
<1>5. Disk!Complete(t)
  <2>1. Active[t].op = "read"
    BY <1>1, <1>2
  <2>2. \A k \in 0..(Active[t].count - 1) :
          Active[t].lba + k \notin suspect =>
            reply'[t].data[k + 1] = Content[Active[t].lba + k]
    BY <1>2, <1>3
  <2>3. reply'[t].code = "Ok"
    BY <1>2
  <2> QED
    BY <1>1, <1>2, <1>4, <2>1, <2>2, <2>3 DEF Disk!Complete, Disk!Same, Active, Content
<1> QED
  BY <1>5 DEF Disk!Next

(* The sync of a flush, or the last step of a write: what was written is    *)
(* the content now, and nothing settled has changed.                        *)
LEMMA SyncOkStep ==
  ASSUME IInv, NEW t \in Threads, SyncOk(t)
  PROVE  Disk!Next
<1>1. /\ Busy(t) /\ pc[t] = "sync" /\ Return(t, "Ok", <<>>) /\ Acknowledge(t)
      /\ disk' = IF mode = "ReadWrite" THEN cache ELSE disk
      /\ UNCHANGED <<mode, broken, cache>>
  BY DEF SyncOk, Busy, faultVars
<1>2. /\ Active[t] = req[t] /\ Active[t] # NoReq
      /\ Active' = [Active EXCEPT ![t] = NoReq]
      /\ reply' = [reply EXCEPT ![t] = reply'[t]]
      /\ reply'[t] = [code |-> "Ok", data |-> <<>>]
  BY <1>1, ReturnLeaves
<1>3. Disk!KeepsAllBut(suspect)
  <2>1. \A s \in Sectors \ suspect : disk'[DataOffset + s] = disk[DataOffset + s]
    BY <1>1 DEF IInv, Settled
  <2> QED
    BY <2>1, SettledKept
<1>4. req[t].op = "write" =>
        /\ \A s \in Span(req[t]) : Content'[s] = req[t].val
        /\ suspect' = suspect \ Span(req[t])
  <2>1. SUFFICES ASSUME req[t].op = "write", NEW s \in Span(req[t])
                 PROVE  Content'[s] = req[t].val
    BY <1>1 DEF Acknowledge
  <2> DEFINE k == s - req[t].lba + 1
  <2>2. req[t] \in Requests \cup {NoReq, TheFlush} /\ WriteInFlight(t) /\ mode = "ReadWrite"
    BY <1>1, <2>1 DEF IInv, TypeOK, InFlight, ThreadInFlight, WriteInFlight
  <2>3. req[t].lba \in Nat /\ req[t].count \in Nat /\ req[t].val \in Vals
    BY <2>1, <2>2, RequestFacts
  <2>4. /\ k \in 1..req[t].count /\ s = req[t].lba + k - 1
        /\ DataOffset + s = DataOffset + req[t].lba + k - 1
    BY <2>1, <2>3, VolumeAssumption DEF Span
  <2>5. CheckedRange(req[t].lba, req[t].count) /\ s \in Sectors
    BY <2>1, <2>2, RangeInside DEF WriteInFlight
  <2>6. /\ buf[t] = EncryptSectors(req[t].lba, req[t].count, req[t].val)
        /\ done[t] = req[t].count
        /\ \A j \in 1..done[t] : cache[DataOffset + req[t].lba + j - 1] = buf[t][j]
    BY <1>1, <2>2 DEF WriteInFlight
  <2> HIDE DEF k
  <2>7. buf[t][k] = Enc(s, req[t].val)
    BY <2>1, <2>2, <2>4, <2>5, <2>6, EncryptType
  <2>8. disk'[DataOffset + s] = Enc(s, req[t].val)
    BY <1>1, <2>2, <2>4, <2>6, <2>7
  <2> QED
    BY <2>3, <2>5, <2>8, DecryptEnc DEF Content
<1>5. req[t].op = "flush" => suspect' = suspect
  BY <1>1 DEF Acknowledge, historyVars
<1>6. req[t].op \in {"write", "flush"}
  BY <1>1, ActiveIsRequest DEF IInv, InFlight, ThreadInFlight, ReadInFlight
<1>7. Disk!Span(req[t]) = Span(req[t])
  BY DEF Disk!Span, Span
<1>8. Disk!Complete(t)
  <2>1. reply'[t].code = "Ok"
    BY <1>2
  <2>2. CASE req[t].op = "write"
    <3>1. /\ \A s \in Disk!Span(Active[t]) : Content'[s] = Active[t].val
          /\ suspect' = suspect \ Disk!Span(Active[t])
          /\ Active[t].op = "write"
      BY <1>2, <1>4, <1>7, <2>2
    <3> QED
      BY <1>1, <1>2, <1>3, <2>1, <3>1 DEF Disk!Complete, Disk!Same, Active, Content
  <2>3. CASE req[t].op = "flush"
    <3>1. Active[t].op = "flush"
      BY <1>2, <2>3
    <3> QED
      BY <1>1, <1>2, <1>3, <1>5, <2>1, <2>3, <3>1 DEF Disk!Complete, Disk!Same, Active, Content
  <2> QED
    BY <1>6, <2>2, <2>3
<1> QED
  BY <1>8 DEF Disk!Next

(* A read that fails in a read-only session is given up; any other failure *)
(* breaks the session.                                                     *)
LEMMA FailStep ==
  ASSUME IInv, NEW t \in Threads, DecryptFails(t) \/ BackendFails(t)
  PROVE  Disk!Next
<1>1. TypeOK
  BY DEF IInv
<1>2. /\ Busy(t) /\ UNCHANGED <<mode, disk, suspect>>
      /\ \/ req[t].op = "read" /\ broken' = broken
         \/ broken' = TRUE
  <2>1. CASE DecryptFails(t)
    BY <2>1 DEF DecryptFails, Transferring, Busy, faultVars, historyVars
  <2>2. CASE BackendFails(t) /\ Fatal(t)
    BY <2>2 DEF BackendFails, Busy, historyVars
  <2>3. CASE BackendFails(t) /\ ~Fatal(t)
    <3>1. broken' = (broken \/ Fatal(t)) /\ broken \in BOOLEAN
      BY <1>1, <2>3 DEF BackendFails, TypeOK
    <3>2. broken' = broken
      BY <2>3, <3>1, Zenon
    <3> QED
      BY <2>3, <3>2 DEF BackendFails, Busy, Fatal, historyVars
  <2> QED
    BY <2>1, <2>2, <2>3
<1>3. PICK code \in {"Other", "WritebackFailed"} : Return(t, code, <<>>)
  BY DEF DecryptFails, BackendFails
<1>4. /\ Active[t] = req[t] /\ Active[t] # NoReq
      /\ Active' = [Active EXCEPT ![t] = NoReq]
      /\ reply' = [reply EXCEPT ![t] = reply'[t]]
      /\ reply'[t] = [code |-> code, data |-> <<>>]
  BY <1>2, <1>3, ReturnLeaves
<1>5. reply'[t].code # "Ok"
  BY <1>3, <1>4
<1>6. Content' = Content
  BY <1>2, SameContent
<1>7. CASE req[t].op = "read" /\ broken' = broken
  <2>1. Active[t].op = "read"
    BY <1>4, <1>7
  <2>2. Disk!GiveUp(t)
    BY <1>2, <1>4, <1>5, <1>6, <1>7, <2>1 DEF Disk!GiveUp, Disk!Same, Active, Content
  <2> QED
    BY <2>2 DEF Disk!Next
<1>8. CASE broken' = TRUE
  <2>1. Disk!Break(t)
    BY <1>2, <1>4, <1>5, <1>6, <1>8 DEF Disk!Break, Disk!Same, Active, Content
  <2> QED
    BY <2>1 DEF Disk!Next
<1> QED
  BY <1>2, <1>7, <1>8

(* A panic breaks the session before the callback has any answer. *)
LEMMA PanicStep ==
  ASSUME RInv, NEW t \in Threads, Panic(t)
  PROVE  Disk!Next
<1>1. IInv /\ TypeOK
  BY DEF RInv, IInv
<1>2. /\ t \in Callers /\ Busy(t) /\ pc[t] # "idle" /\ broken' = TRUE
      /\ pc' = [pc EXCEPT ![t] = "unwinding"] /\ req' = [req EXCEPT ![t] = NoReq]
      /\ UNCHANGED <<mode, reply, disk, suspect>>
  BY DEF Panic, Busy, historyVars
<1>3. /\ ~Busy(t)'
      /\ \A u \in Threads : u # t => pc'[u] = pc[u] /\ req'[u] = req[u]
  BY <1>1, <1>2 DEF TypeOK, Busy
<1>4. /\ Active[t] # NoReq /\ Active' = [Active EXCEPT ![t] = NoReq]
  BY <1>1, <1>2, <1>3, LeaveActive
<1>5. reply' = [reply EXCEPT ![t] = reply'[t]] /\ reply'[t] = NoReply
  BY <1>1, <1>2 DEF RInv, Unanswered, TypeOK
<1>6. Content' = Content
  BY <1>2, SameContent
<1>7. Disk!Break(t)
  BY <1>2, <1>4, <1>5, <1>6 DEF Disk!Break, Disk!Same, Active, Content
<1> QED
  BY <1>7 DEF Disk!Next

----------------------------------------------------------------------------
(* Steps of serve() and of the environment. *)

(* A close after CLOSE_FAILED condemns the session; otherwise the flush of  *)
(* shutdown only begins to wait.                                            *)
LEMMA BeginShutdownStep ==
  ASSUME IInv, NEW failed \in BOOLEAN, BeginShutdown(failed)
  PROVE  Disk!Next \/ UNCHANGED Disk!dvars
<1>1. TypeOK /\ Main \in Threads
  BY DEF IInv, Threads
<1>2. /\ pc' = [pc EXCEPT ![Main] = "wait"] /\ req' = [req EXCEPT ![Main] = TheFlush]
      /\ UNCHANGED <<mode, reply, disk, suspect>>
      /\ pc[Main] = "idle"
  BY DEF BeginShutdown, historyVars, IInv, Synced
<1>3. \A u \in Threads : /\ Busy(u)' <=> Busy(u)
                         /\ Busy(u) => req'[u] = req[u]
  BY <1>1, <1>2 DEF TypeOK, Busy
<1>4. Active' = Active /\ Content' = Content
  BY <1>2, <1>3, SameContent DEF Active
<1>5. CASE failed = TRUE
  <2>1. broken' = TRUE
    BY <1>5 DEF BeginShutdown
  <2>2. Disk!Condemn
    BY <1>2, <1>4, <2>1 DEF Disk!Condemn, Active, Content
  <2> QED
    BY <2>2 DEF Disk!Next
<1>6. CASE failed = FALSE
  <2>1. broken' = (broken \/ failed) /\ broken \in BOOLEAN
    BY <1>1 DEF BeginShutdown, TypeOK
  <2>2. broken' = broken
    BY <1>6, <2>1, Zenon
  <2> QED
    BY <1>2, <1>4, <2>2 DEF Disk!dvars, Active, Content
<1> QED
  BY <1>5, <1>6

(* Stop, the end of the drain and a stuttering step leave the abstract disk *)
(* alone.                                                                   *)
LEMMA UnseenStep ==
  ASSUME Stop \/ (\E err \in BOOLEAN : Drained(err)) \/ UNCHANGED vars
  PROVE  UNCHANGED Disk!dvars
<1>1. UNCHANGED <<mode, broken, pc, req, reply, disk, suspect>>
  BY DEF Stop, Drained, vars, threadVars, faultVars, historyVars
<1>2. Active' = Active /\ Content' = Content
  BY <1>1, SameContent DEF Active, Busy
<1> QED
  BY <1>1, <1>2 DEF Disk!dvars, Active, Content

(* A new session, a kill and a power cut empty the memory and touch only   *)
(* sectors that are not settled.                                           *)
LEMMA TurnoverStep ==
  ASSUME NoSession, suspect' = suspect,
         \A s \in Sectors \ suspect : disk'[DataOffset + s] = disk[DataOffset + s]
  PROVE  Disk!Next
<1>1. /\ reply' = [t \in Threads |-> NoReply] /\ broken' = FALSE
      /\ \A t \in Threads : ~Busy(t)'
  BY DEF NoSession, Busy
<1>2. Active' = [t \in Threads |-> NoReq]
  BY <1>1 DEF Active
<1>3. Disk!KeepsAllBut(suspect)
  BY SettledKept
<1>4. (mode' = "ReadWrite") \in BOOLEAN
  BY Zenon
<1>5. Disk!Turnover
  BY <1>1, <1>2, <1>3, <1>4 DEF Disk!Turnover, Active
<1> QED
  BY <1>5 DEF Disk!Next

LEMMA NewSessionStep ==
  ASSUME Kill \/ \E m \in {"ReadOnly", "ReadWrite"} : Open(m)
  PROVE  Disk!Next
BY TurnoverStep DEF Kill, Open, historyVars

LEMMA PowerCutStep ==
  ASSUME IInv, NEW torn \in SUBSET Cells, PowerCut(torn)
  PROVE  Disk!Next
<1>1. ASSUME NEW s \in Sectors \ suspect
      PROVE  disk'[DataOffset + s] = disk[DataOffset + s]
  <2>1. DataOffset + s \notin torn
    BY <1>1 DEF PowerCut, IInv, Settled
  <2>2. DataOffset + s \in Cells
    BY VolumeAssumption DEF Sectors, Cells
  <2> QED
    BY <2>1, <2>2 DEF PowerCut
<1>2. NoSession /\ suspect' = suspect
  BY DEF PowerCut, historyVars
<1> QED
  BY <1>1, <1>2, TurnoverStep

(* The system writes back a cell that differs, which no settled one does. *)
LEMMA WritebackStep ==
  ASSUME IInv, NEW i \in Cells, Writeback(i)
  PROVE  Disk!Next
<1>1. /\ cache[i] # disk[i] /\ disk' = [disk EXCEPT ![i] = cache[i]]
      /\ UNCHANGED <<mode, broken, pc, req, reply, suspect>>
  BY DEF Writeback, threadVars, faultVars, historyVars
<1>2. ASSUME NEW s \in Sectors \ suspect
      PROVE  disk'[DataOffset + s] = disk[DataOffset + s]
  <2>1. DataOffset + s # i
    BY <1>1, <1>2 DEF IInv, Settled
  <2>2. DataOffset + s \in Cells
    BY VolumeAssumption DEF Sectors, Cells
  <2> QED
    BY <1>1, <2>1, <2>2 DEF IInv, TypeOK
<1>3. Disk!KeepsAllBut(suspect)
  BY <1>2, SettledKept
<1>4. Active' = Active
  BY <1>1 DEF Active, Busy
<1>5. Disk!Settle
  BY <1>1, <1>3, <1>4 DEF Disk!Settle, Active
<1> QED
  BY <1>5 DEF Disk!Next

----------------------------------------------------------------------------
(* The invariant, and the whole session. *)

(* Only Enter takes a callback out of idle, and it clears the answer; every *)
(* answer goes with the way back to idle.                                   *)
LEMMA UnansweredKept ==
  ASSUME IInv, Unanswered, [Next]_vars
  PROVE  Unanswered'
<1>1. TypeOK /\ \A t \in Callers : t \in Threads /\ t # Main
  BY VolumeAssumption DEF IInv, Threads
<1>2. ASSUME NEW u \in Threads, NEW code, NEW data, Return(u, code, data)
      PROVE  Unanswered'
  BY <1>1, <1>2 DEF Unanswered, Return, TypeOK
<1>3. ASSUME NEW t \in Callers, NEW r \in Requests, Refuse(t, r) \/ Enter(t, r)
      PROVE  Unanswered'
  <2>1. CASE Refuse(t, r)
    BY <1>1, <1>2, <2>1 DEF Refuse
  <2>2. CASE Enter(t, r)
    BY <1>1, <2>2 DEF Enter, Unanswered, TypeOK
  <2> QED
    BY <1>3, <2>1, <2>2
<1>4. ASSUME NEW t \in Threads, Step(t)
      PROVE  Unanswered'
  <2>1. CASE \/ RefuseFaulted(t) \/ RefuseRange(t) \/ AnswerEmpty(t) \/ EncryptFails(t)
             \/ ReadDone(t) \/ DecryptFails(t) \/ SyncOk(t) \/ BackendFails(t) \/ Caught(t)
    <3>1. \E code, data : Return(t, code, data)
      BY <2>1 DEF RefuseFaulted, RefuseRange, AnswerEmpty, EncryptFails, ReadDone, DecryptFails,
                  SyncOk, BackendFails, Caught
    <3> QED
      BY <1>2, <3>1
  <2>2. CASE \/ StartTransfer(t) \/ StartFlush(t) \/ ReadSome(t) \/ WriteSome(t) \/ WriteTorn(t)
             \/ Panic(t)
    <3>1. /\ reply' = reply
          /\ pc[t] # "idle" /\ \A u \in Threads : u # t => pc'[u] = pc[u]
      BY <1>1, <2>2 DEF StartTransfer, StartFlush, ReadSome, WriteSome, WriteTorn, Panic, Applies,
                        Sound, CanLock, Transferring, threadVars, TypeOK
    <3> QED
      BY <1>1, <3>1 DEF Unanswered
  <2> QED
    BY <1>4, <2>1, <2>2 DEF Step
<1>5. CASE NoSession
  BY <1>1, <1>5 DEF NoSession, Unanswered
<1>6. ASSUME NEW failed \in BOOLEAN, BeginShutdown(failed)
      PROVE  Unanswered'
  BY <1>1, <1>6 DEF BeginShutdown, Unanswered, TypeOK
<1>7. CASE UNCHANGED threadVars
  BY <1>7 DEF threadVars, Unanswered
<1>8. CASE Serve
  BY <1>5, <1>6, <1>7, <1>8 DEF Serve, Stop, Drained, Open
<1>9. CASE Environment
  BY <1>5, <1>7, <1>9 DEF Environment, Writeback, Kill, PowerCut
<1>10. CASE UNCHANGED vars
  BY <1>7, <1>10 DEF vars
<1> QED
  BY <1>3, <1>4, <1>8, <1>9, <1>10 DEF Next

(* A callback has no answer as long as it is under way. *)
THEOREM RefinementInvariant == Spec => []RInv
<1>1. Init => Unanswered
  BY DEF Init, Unanswered, Threads
<1>2. Init => RInv
  BY <1>1, InitInv DEF RInv
<1>3. RInv /\ [Next]_vars => RInv'
  BY NextInv, UnansweredKept DEF RInv
<1> QED
  BY <1>2, <1>3, PTL DEF Spec

(* The image of the first session decrypts to what the history says. *)
LEMMA InitStep == Init => Disk!Init
<1> SUFFICES ASSUME Init PROVE Disk!Init
  OBVIOUS
<1>1. IInv /\ suspect = {}
  BY InitInv DEF Init
<1>2. Content \in [Sectors -> Vals]
  <2>1. \A s \in Sectors : Content[s] = acked[s] /\ acked[s] \in Vals
    BY <1>1, SettledContent DEF IInv, TypeOK
  <2> QED
    BY <2>1 DEF Content
<1>3. Active = [t \in Threads |-> NoReq]
  BY DEF Init, Active, Busy
<1>4. reply = [t \in Threads |-> NoReply] /\ broken = FALSE
  BY DEF Init
<1>5. (mode = "ReadWrite") \in BOOLEAN
  BY Zenon
<1> QED
  BY <1>1, <1>2, <1>3, <1>4, <1>5 DEF Disk!Init, Active, Content

LEMMA NextStep == RInv /\ [Next]_vars => [Disk!Next]_(Disk!dvars)
<1> SUFFICES ASSUME RInv, [Next]_vars PROVE Disk!Next \/ UNCHANGED Disk!dvars
  OBVIOUS
<1>1. IInv
  BY DEF RInv
<1>2. ASSUME NEW t \in Callers, NEW r \in Requests, Refuse(t, r) \/ Enter(t, r)
      PROVE  Disk!Next
  BY <1>1, <1>2, RefuseStep, EnterStep
<1>3. ASSUME NEW t \in Threads, Step(t)
      PROVE  Disk!Next \/ UNCHANGED Disk!dvars
  <2>1. CASE RefuseFaulted(t) \/ RefuseRange(t) \/ AnswerEmpty(t) \/ EncryptFails(t) \/ Caught(t)
    BY <1>1, <2>1, RefusedStep
  <2>2. CASE StartTransfer(t) \/ StartFlush(t)
    BY <1>1, <2>2, StartStep
  <2>3. CASE ReadSome(t) \/ WriteSome(t) \/ WriteTorn(t)
    BY <1>1, <2>3, RoundStep
  <2>4. CASE ReadDone(t)
    BY <1>1, <2>4, ReadDoneStep
  <2>5. CASE SyncOk(t)
    BY <1>1, <2>5, SyncOkStep
  <2>6. CASE DecryptFails(t) \/ BackendFails(t)
    BY <1>1, <2>6, FailStep
  <2>7. CASE Panic(t)
    BY <2>7, PanicStep
  <2> QED
    BY <1>3, <2>1, <2>2, <2>3, <2>4, <2>5, <2>6, <2>7 DEF Step
<1>4. CASE Serve
  <2>1. ASSUME NEW failed \in BOOLEAN, BeginShutdown(failed)
        PROVE  Disk!Next \/ UNCHANGED Disk!dvars
    BY <1>1, <2>1, BeginShutdownStep
  <2> QED
    BY <1>4, <2>1, UnseenStep, NewSessionStep DEF Serve
<1>5. CASE Environment
  <2>1. ASSUME NEW i \in Cells, Writeback(i) PROVE Disk!Next
    BY <1>1, <2>1, WritebackStep
  <2>2. ASSUME NEW torn \in SUBSET Cells, PowerCut(torn) PROVE Disk!Next
    BY <1>1, <2>2, PowerCutStep
  <2> QED
    BY <1>5, <2>1, <2>2, NewSessionStep DEF Environment
<1>6. CASE UNCHANGED vars
  BY <1>6, UnseenStep
<1> QED
  BY <1>2, <1>3, <1>4, <1>5, <1>6 DEF Next

(* The published disk keeps what DurableDisk promises, through every        *)
(* interleaving of callbacks, every failure, kill and power cut: what       *)
(* write_at, read_at and flush do is a behaviour of the abstract disk.      *)
THEOREM SessionImplementsDisk == Spec => ImplementsDisk
BY InitStep, NextStep, RefinementInvariant, PTL DEF Spec, ImplementsDisk, Disk!Spec
=============================================================================

--------------------------- MODULE ImageUpload_proofs ---------------------------
(***************************************************************************)
(* Proofs about ImageUpload, for every set of file sizes, block size,      *)
(* number of goroutines and size of the buffer.                            *)
(***************************************************************************)
EXTENDS ImageUpload, TLAPS

(* The first goroutine starts at the beginning of the file, and all of them *)
(* at a position of it.                                                     *)
LEMMA Starts ==
  ASSUME NEW s \in Nat
  PROVE  /\ 0 \in Threads
         /\ ChunkStart(0, s) = 0
         /\ \A t \in Threads : ChunkStart(t, s) \in Nat
<1>1. /\ Blocksize \in Nat \ {0}
      /\ Parallelism \in Nat \ {0}
  BY SizeAssumption
<1>2. TotalBlocks(s) \in Nat
  BY <1>1 DEF TotalBlocks
<1>3. ParallelSize(s) \in Nat
  <2>1. TotalBlocks(s) \div Parallelism \in Nat
    BY <1>1, <1>2
  <2>2. QED
    BY <2>1, <1>1 DEF ParallelSize
<1>4. ExtraSize(s) \in Nat
  <2>1. TotalBlocks(s) % Parallelism \in Nat
    BY <1>1, <1>2
  <2>2. QED
    BY <2>1, <1>1 DEF ExtraSize
<1>5. \A t \in Threads : ChunkSize(t, s) \in Nat
  BY <1>3, <1>4 DEF ChunkSize
<1>6. 0 \in Threads
  BY <1>1 DEF Threads
<1>7. ChunkStart(0, s) = 0
  BY <1>5, <1>6 DEF ChunkStart
<1>8. \A t \in Threads : ChunkStart(t, s) \in Nat
  BY <1>1, <1>5 DEF ChunkStart, Threads
<1>9. QED
  BY <1>6, <1>7, <1>8
----------------------------------------------------------------------------
(* What the goroutines keep, and that the first of them covers the file.   *)
LEMMA UploadInit == Init => UploadInv
<1> SUFFICES ASSUME Init
             PROVE  UploadInv
  OBVIOUS
<1>1. size \in Nat \ {0}
  BY SizeAssumption DEF Init
<1>2. TypeOK
  BY <1>1, Starts DEF Init, TypeOK
<1>3. offset[0] = 0 /\ pc[0] = "check"
  BY <1>1, Starts DEF Init
<1>4. FirstThreadCovers
  BY <1>3 DEF Init, FirstThreadCovers
<1>5. OnlyTailMissing
  BY DEF Init, OnlyTailMissing
<1>6. QED
  BY <1>2, <1>4, <1>5 DEF UploadInv

LEMMA UploadStep == UploadInv /\ [Next]_vars => UploadInv'
<1> SUFFICES ASSUME UploadInv, [Next]_vars
             PROVE  UploadInv'
  OBVIOUS
<1> USE DEF UploadInv
<1>1. size \in Nat \ {0} /\ Buffer \in Nat \ {0} /\ 0 \in Threads
  BY SizeAssumption, Starts DEF TypeOK
<1>2. ASSUME NEW t \in Threads, Read(t)
      PROVE  UploadInv'
  <2>1. TypeOK'
    BY <1>2 DEF Read, TypeOK
  <2>2. FirstThreadCovers'
    BY <1>1, <1>2 DEF Read, BufferLeft, TypeOK, FirstThreadCovers
  <2>3. OnlyTailMissing'
    BY <1>2 DEF Read, OnlyTailMissing
  <2>4. QED
    BY <2>1, <2>2, <2>3
<1>3. ASSUME NEW t \in Threads, EndOfFile(t)
      PROVE  UploadInv'
  <2>1. TypeOK'
    BY <1>3 DEF EndOfFile, TypeOK
  <2>2. FirstThreadCovers'
    BY <1>1, <1>3 DEF EndOfFile, BufferLeft, TypeOK, FirstThreadCovers
  <2>3. OnlyTailMissing'
    BY <1>3 DEF EndOfFile, OnlyTailMissing
  <2>4. QED
    BY <2>1, <2>2, <2>3
<1>4. ASSUME NEW t \in Threads, Cancelled(t)
      PROVE  UploadInv'
  <2>1. TypeOK'
    BY <1>4 DEF Cancelled, TypeOK
  <2>2. FirstThreadCovers'
    BY <1>1, <1>4 DEF Cancelled, TypeOK, FirstThreadCovers
  <2>3. OnlyTailMissing'
    BY <1>4 DEF Cancelled, OnlyTailMissing
  <2>4. QED
    BY <2>1, <2>2, <2>3
<1>5. ASSUME NEW t \in Threads, Write(t)
      PROVE  UploadInv'
  <2>1. offset[t] \in Nat /\ offset[t] + Buffer <= size
    BY <1>5 DEF Write, TypeOK, FirstThreadCovers
  <2>2. TypeOK'
    <3>1. offset[t]..(offset[t] + Buffer - 1) \subseteq 0..(size - 1)
      BY <1>1, <2>1
    <3>2. written' \subseteq 0..(size' - 1)
      BY <1>5, <3>1 DEF Write, TypeOK
    <3>3. offset' \in [Threads -> Nat] /\ pc' \in [Threads -> {"check", "write", "done", "failed"}]
      BY <1>1, <1>5 DEF Write, TypeOK
    <3>4. QED
      BY <1>5, <3>2, <3>3 DEF Write, TypeOK
  <2>3. outcome # "stopped"
    BY <1>5 DEF Write, FirstThreadCovers
  <2>4. \A p \in 0..(offset'[0] - 1) : p \in written'
    <3>1. CASE t = 0
      BY <1>1, <1>5, <2>1, <3>1 DEF Write, TypeOK, FirstThreadCovers
    <3>2. CASE t # 0
      BY <1>1, <1>5, <3>2 DEF Write, TypeOK, FirstThreadCovers
    <3>3. QED
      BY <3>1, <3>2
  <2>5. FirstThreadCovers'
    BY <1>1, <1>5, <2>3, <2>4 DEF Write, TypeOK, FirstThreadCovers
  <2>6. OnlyTailMissing'
    BY <1>5, <2>3 DEF Write, OnlyTailMissing
  <2>7. QED
    BY <2>2, <2>5, <2>6
<1>6. ASSUME NEW t \in Threads, WriteRefused(t)
      PROVE  UploadInv'
  <2>1. TypeOK'
    BY <1>6 DEF WriteRefused, TypeOK
  <2>2. outcome # "stopped"
    BY <1>6 DEF WriteRefused, FirstThreadCovers
  <2>3. FirstThreadCovers'
    BY <1>1, <1>6, <2>2 DEF WriteRefused, TypeOK, FirstThreadCovers
  <2>4. OnlyTailMissing'
    BY <1>6, <2>2 DEF WriteRefused, OnlyTailMissing
  <2>5. QED
    BY <2>1, <2>3, <2>4
<1>7. ASSUME Wait
      PROVE  UploadInv'
  <2>1. TypeOK'
    BY <1>7 DEF Wait, TypeOK
  <2>2. FirstThreadCovers'
    BY <1>7 DEF Wait, TypeOK, FirstThreadCovers
  <2>3. ASSUME outcome' = "stopped", NEW p \in 0..(size - 1), p + Buffer <= size
        PROVE  p \in written
    <3>1. pc[0] = "done"
      BY <1>1, <1>7, <2>3 DEF Wait
    <3>2. p \in 0..(offset[0] - 1)
      BY <1>1, <2>3, <3>1 DEF TypeOK, FirstThreadCovers
    <3>3. QED
      BY <3>2 DEF FirstThreadCovers
  <2>4. OnlyTailMissing'
    BY <1>7, <2>3 DEF Wait, OnlyTailMissing
  <2>5. QED
    BY <2>1, <2>2, <2>4
<1>8. CASE UNCHANGED vars
  BY <1>8 DEF vars, TypeOK, FirstThreadCovers, OnlyTailMissing
<1>9. QED
  BY <1>2, <1>3, <1>4, <1>5, <1>6, <1>7, <1>8 DEF Next, Thread

(* The positions, offsets and outcomes of every upload are what the         *)
(* declarations say, in particular no write goes beyond the file.           *)
THEOREM UploadTypeCorrect == Spec => []TypeOK
<1>1. UploadInv => TypeOK
  BY DEF UploadInv
<1>2. QED
  BY UploadInit, UploadStep, <1>1, PTL DEF Spec

(* A finished import lacks at most the last incomplete buffer of the file:  *)
(* no division into chunks and no interleaving leaves a gap before it.      *)
THEOREM NoGapBeforeTail == Spec => []OnlyTailMissing
<1>1. UploadInv => OnlyTailMissing
  BY DEF UploadInv
<1>2. QED
  BY UploadInit, UploadStep, <1>1, PTL DEF Spec
----------------------------------------------------------------------------
LEMMA RefusalInit == Init => RefusalInv
BY DEF Init, RefusalInv

LEMMA RefusalStep == TypeOK /\ RefusalInv /\ [Next]_vars => RefusalInv'
<1> SUFFICES ASSUME TypeOK, RefusalInv, [Next]_vars
             PROVE  RefusalInv'
  OBVIOUS
<1> USE DEF TypeOK, RefusalInv
<1>1. ASSUME NEW t \in Threads, Thread(t)
      PROVE  RefusalInv'
  <2>1. pc[t] \notin {"done", "failed"} /\ UNCHANGED <<refusals, outcome>>
    BY <1>1 DEF Thread, Read, EndOfFile, Cancelled, Write
  <2>2. \A u \in Threads : pc[u] = "failed" => pc'[u] = "failed"
    BY <1>1 DEF Thread, Read, EndOfFile, Cancelled, Write
  <2>3. outcome # "stopped"
    BY <2>1
  <2>4. QED
    BY <2>1, <2>2, <2>3
<1>2. ASSUME NEW t \in Threads, WriteRefused(t)
      PROVE  RefusalInv'
  <2>1. pc'[t] = "failed" /\ outcome # "stopped"
    BY <1>2 DEF WriteRefused
  <2>2. QED
    BY <1>2, <2>1 DEF WriteRefused
<1>3. CASE Wait
  BY <1>3 DEF Wait
<1>4. CASE UNCHANGED vars
  BY <1>4 DEF vars
<1>5. QED
  BY <1>1, <1>2, <1>3, <1>4 DEF Next

(* A write that Oxide refused is never forgotten: the import does not end   *)
(* as a success.                                                            *)
THEOREM RefusalsReported == Spec => []RefusalReported
<1>1. TypeOK /\ RefusalInv => RefusalReported
  BY DEF TypeOK, RefusalInv, RefusalReported
<1>2. QED
  BY UploadTypeCorrect, RefusalInit, RefusalStep, <1>1, PTL DEF Spec
================================================================================

------------------------------ MODULE ImageUpload ------------------------------
(***************************************************************************)
(* The upload of one image file to a disk in ensureImagesExist: the file   *)
(* is cut into chunks, and an errgroup of goroutines reads it and writes   *)
(* it to the disk with bulk write calls of at most maximumChunkSize bytes. *)
(* The first error cancels errctx, which every goroutine looks at before   *)
(* each read; errg.Wait returns when all of them have.                     *)
(*                                                                         *)
(* The disk is the set of file positions written to it.  All goroutines    *)
(* write what the file holds at a position, so who writes it, and how      *)
(* often, makes no difference to the disk.                                 *)
(***************************************************************************)
EXTENDS Integers

CONSTANTS
  Sizes,          \* the sizes the downloaded file may have
  Blocksize,      \* the image's block size
  Parallelism,    \* --image-parallelism
  Buffer,         \* maximumChunkSize
  Refusals        \* how many write calls may fail

ASSUME SizeAssumption ==
  /\ Sizes \subseteq Nat \ {0}
  /\ {Blocksize, Parallelism, Buffer} \subseteq Nat \ {0}
  /\ Refusals \in Nat

VARIABLES
  size,        \* the size of the file
  pc,          \* where each goroutine is
  offset,      \* where each goroutine reads next
  written,     \* the positions of the file that are on the disk
  cancelled,   \* errctx is done
  outcome,     \* of errg.Wait and DiskBulkWriteImportStop
  refusals     \* the write calls that failed so far

vars == <<size, pc, offset, written, cancelled, outcome, refusals>>

Threads == 0..(Parallelism - 1)

----------------------------------------------------------------------------
(* The arithmetic of the chunks.                                           *)

TotalBlocks(s) == s \div Blocksize

ParallelSize(s) == (TotalBlocks(s) \div Parallelism) * Blocksize

ExtraSize(s) == (TotalBlocks(s) % Parallelism) * Blocksize

ChunkSize(t, s) ==
  ParallelSize(s) + IF t = Parallelism - 1 THEN ExtraSize(s) ELSE 0

ChunkStart(t, s) == t * ChunkSize(t, s)

TypeOK ==
  /\ size \in Sizes
  /\ pc \in [Threads -> {"check", "write", "done", "failed"}]
  /\ offset \in [Threads -> Nat]
  /\ written \subseteq 0..(size - 1)
  /\ cancelled \in BOOLEAN
  /\ outcome \in {"uploading", "stopped", "error"}
  /\ refusals \in Nat

Init ==
  /\ size \in Sizes
  /\ pc = [t \in Threads |-> "check"]
  /\ offset = [t \in Threads |-> ChunkStart(t, size)]
  /\ written = {}
  /\ cancelled = FALSE
  /\ outcome = "uploading"
  /\ refusals = 0

----------------------------------------------------------------------------
(* Mutant: a goroutine stops at the end of its own chunk.                   *)
BufferLeftInChunk(t) ==
  offset[t] + Buffer <= size /\ offset[t] < ChunkStart(t, size) + ChunkSize(t, size)

(* Mutant: the whole buffer is written, however little was read.            *)
AnythingLeft(t) == offset[t] < size

(***************************************************************************)
(* ReadAt fills the buffer, or returns what is left together with io.EOF;  *)
(* with io.EOF the goroutine stops and drops what it has read.             *)
(***************************************************************************)
BufferLeft(t) == offset[t] + Buffer <= size

Read(t) ==
  /\ pc[t] = "check"
  /\ ~cancelled
  /\ BufferLeft(t)
  /\ pc' = [pc EXCEPT ![t] = "write"]
  /\ UNCHANGED <<size, offset, written, cancelled, outcome, refusals>>

EndOfFile(t) ==
  /\ pc[t] = "check"
  /\ ~cancelled
  /\ ~BufferLeft(t)
  /\ pc' = [pc EXCEPT ![t] = "done"]
  /\ UNCHANGED <<size, offset, written, cancelled, outcome, refusals>>

Cancelled(t) ==
  /\ pc[t] = "check"
  /\ cancelled
  /\ pc' = [pc EXCEPT ![t] = "failed"]
  /\ UNCHANGED <<size, offset, written, cancelled, outcome, refusals>>

(* Mutant: the next read starts where this one did.                        *)
WriteInPlace(t) ==
  /\ pc[t] = "write"
  /\ written' = written \cup offset[t]..(offset[t] + Buffer - 1)
  /\ pc' = [pc EXCEPT ![t] = "check"]
  /\ UNCHANGED <<size, offset, cancelled, outcome, refusals>>

Write(t) ==
  /\ pc[t] = "write"
  /\ written' = written \cup offset[t]..(offset[t] + Buffer - 1)
  /\ offset' = [offset EXCEPT ![t] = @ + Buffer]
  /\ pc' = [pc EXCEPT ![t] = "check"]
  /\ UNCHANGED <<size, cancelled, outcome, refusals>>

WriteRefused(t) ==
  /\ pc[t] = "write"
  /\ refusals < Refusals
  /\ refusals' = refusals + 1
  /\ cancelled' = TRUE
  /\ pc' = [pc EXCEPT ![t] = "failed"]
  /\ UNCHANGED <<size, offset, written, outcome>>

(* Mutant: errors of the goroutines are dropped.                           *)
WaitForAnyEnd ==
  /\ outcome = "uploading"
  /\ \A t \in Threads : pc[t] \in {"done", "failed"}
  /\ outcome' = "stopped"
  /\ UNCHANGED <<size, pc, offset, written, cancelled, refusals>>

(* errg.Wait, and DiskBulkWriteImportStop if there was no error.           *)
Wait ==
  /\ outcome = "uploading"
  /\ \A t \in Threads : pc[t] \in {"done", "failed"}
  /\ outcome' = IF \E t \in Threads : pc[t] = "failed" THEN "error" ELSE "stopped"
  /\ UNCHANGED <<size, pc, offset, written, cancelled, refusals>>

Thread(t) == Read(t) \/ EndOfFile(t) \/ Cancelled(t) \/ Write(t)

Next == (\E t \in Threads : Thread(t) \/ WriteRefused(t)) \/ Wait

Spec == Init /\ [][Next]_vars

(* Go runs every runnable goroutine and every call returns.                *)
Fairness == (\A t \in Threads : WF_vars(Thread(t))) /\ WF_vars(Wait)

FairSpec == Spec /\ Fairness
----------------------------------------------------------------------------
(* Once the import is stopped without error, only positions in the last     *)
(* buffer of the file can be missing on the disk, however the goroutines    *)
(* interleave and whatever the division into chunks leaves over: no chunk   *)
(* boundary leaves a gap.                                                   *)
OnlyTailMissing ==
  outcome = "stopped" =>
    \A p \in 0..(size - 1) : p + Buffer <= size => p \in written

(* An import whose upload met a refused write never ends as a success.      *)
RefusalReported == outcome = "stopped" => refusals = 0

(* errg.Wait returns, with or without an error: no goroutine reads for ever. *)
UploadEnds == <>(outcome # "uploading")

(* "Import base64 blobs of data from the disk to the blank disk"             *)
(* (images.go:100): a finished import has the whole file.                   *)
WholeFileWritten == outcome = "stopped" => written = 0..(size - 1)
----------------------------------------------------------------------------
(* The first goroutine alone makes OnlyTailMissing true: it starts at 0,    *)
(* has written everything before its offset, and ends less than a buffer    *)
(* before the end of the file.                                              *)
FirstThreadCovers ==
  /\ \A p \in 0..(offset[0] - 1) : p \in written
  /\ pc[0] = "done" => size < offset[0] + Buffer
  /\ \A t \in Threads : pc[t] = "write" => offset[t] + Buffer <= size
  /\ outcome = "stopped" => \A t \in Threads : pc[t] = "done"

UploadInv == TypeOK /\ FirstThreadCovers /\ OnlyTailMissing

(* A refusal leaves a failed goroutine behind.                              *)
RefusalInv ==
  /\ refusals > 0 => \E t \in Threads : pc[t] = "failed"
  /\ outcome = "stopped" => \A t \in Threads : pc[t] = "done"
================================================================================

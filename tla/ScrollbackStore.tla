-------------------------- MODULE ScrollbackStore --------------------------
(***************************************************************************)
(* The paged history of one task (memmux-pty ChunkStore): rows evicted     *)
(* from the ring are buffered, flushed to numbered chunk files, and read   *)
(* back by global row number.  A write of a chunk may fail; the caller     *)
(* ignores the error.  A restart of the daemon opens a new store over the  *)
(* same directory.                                                         *)
(***************************************************************************)
EXTENDS Integers, Sequences, SequencesExt

CONSTANTS
  ChunkRows,      \* chunk_lines
  RowBatches,     \* the batches the pump may hand over
  MaxRows,        \* bound: rows appended within one run of the daemon
  MaxFailures,    \* bound: failing writes
  MaxReboots      \* bound: restarts of the daemon

ASSUME ScrollbackAssumption ==
  /\ ChunkRows \in Nat \ {0}
  /\ \A batch \in RowBatches : batch \in Seq(ToSet(batch))
  /\ MaxRows \in Nat /\ MaxFailures \in Nat /\ MaxReboots \in Nat

VARIABLES
  pendingRows,    \* ChunkStore::pending
  chunks,         \* ChunkStore::chunks, as [seq, count]
  nextSeq,        \* ChunkStore::next_seq
  totalRows,      \* ChunkStore::total_lines
  files,          \* the chunk files on disk, a function from their numbers
  failures, reboots

scrollVars == <<pendingRows, chunks, nextSeq, totalRows, files, failures, reboots>>

ScrollInit ==
  /\ pendingRows = <<>> /\ chunks = <<>> /\ nextSeq = 0 /\ totalRows = 0
  /\ files = <<>> /\ failures = 0 /\ reboots = 0

Min2(a, b) == IF a <= b THEN a ELSE b

WriteFile(fs, seq, rows) == [n \in DOMAIN fs \cup {seq} |-> IF n = seq THEN rows ELSE fs[n]]

(* A store while a batch is appended: its fields, and whether a write has  *)
(* failed, after which the rest of the batch is dropped.                   *)
Handle == [pending |-> pendingRows, chunks |-> chunks, next |-> nextSeq, total |-> totalRows,
          files |-> files, failed |-> FALSE]

Become(s) ==
  /\ pendingRows' = s.pending /\ chunks' = s.chunks /\ nextSeq' = s.next
  /\ totalRows' = s.total /\ files' = s.files
  /\ failures' = IF s.failed THEN failures + 1 ELSE failures

(* Clears the buffer before the write is known to have succeeded.          *)
FlushChunkEarly(s, fails) ==
  IF s.pending = <<>> THEN s
  ELSE IF fails THEN [s EXCEPT !.next = @ + 1, !.pending = <<>>, !.failed = TRUE]
  ELSE [s EXCEPT !.files = WriteFile(s.files, s.next, s.pending), !.pending = <<>>,
                 !.next = @ + 1,
                 !.chunks = Append(@, [seq |-> s.next, count |-> Len(s.pending)])]

(* flush_chunk: the number is spent and the buffer kept when the write     *)
(* fails.                                                                  *)
FlushChunk(s, fails) ==
  IF s.pending = <<>> THEN s
  ELSE IF fails THEN [s EXCEPT !.next = @ + 1, !.failed = TRUE]
  ELSE [s EXCEPT !.files = WriteFile(s.files, s.next, s.pending), !.pending = <<>>,
                 !.next = @ + 1,
                 !.chunks = Append(@, [seq |-> s.next, count |-> Len(s.pending)])]

(* append: row by row, until a write fails; the chunk that cannot be       *)
(* written may be any of those the batch fills, or none.                   *)
AppendRow(failing, s, row) ==
  IF s.failed THEN s
  ELSE LET pushed == [s EXCEPT !.pending = Append(@, row), !.total = @ + 1] IN
       IF Len(pushed.pending) >= ChunkRows THEN FlushChunk(pushed, pushed.next = failing)
       ELSE pushed

AppendRows(batch) ==
  \E failing \in nextSeq..(nextSeq + Len(batch)) :
    LET Step(s, row) == AppendRow(failing, s, row)
        after == FoldLeft(Step, Handle, batch)
    IN  /\ totalRows + Len(batch) <= MaxRows
        /\ after.failed => failures < MaxFailures
        /\ Become(after)
        /\ UNCHANGED reboots

(* flush, when the provider is gone.                                       *)
FlushRows ==
  \E fails \in BOOLEAN :
    /\ fails => failures < MaxFailures
    /\ Become(FlushChunk(Handle, fails))
    /\ UNCHANGED reboots

(* A restarted daemon: ChunkStore::new knows nothing of the files.         *)
Reopen ==
  /\ reboots < MaxReboots /\ reboots' = reboots + 1
  /\ pendingRows' = <<>> /\ chunks' = <<>> /\ nextSeq' = 0 /\ totalRows' = 0
  /\ UNCHANGED <<files, failures>>

ScrollNext == (\E batch \in RowBatches : AppendRows(batch)) \/ FlushRows \/ Reopen

ScrollSpec == ScrollInit /\ [][ScrollNext]_scrollVars

-----------------------------------------------------------------------------
(* Reading.                                                                *)

(* The rows of one chunk or of the buffer that a page takes: those from    *)
(* the cursor on, as long as the page is not full.                         *)
Taken(page, base, rows, cursor, limit) ==
  LET skip == IF cursor > base THEN Min2(cursor - base, Len(rows)) ELSE 0
      room == IF limit > Len(page) THEN limit - Len(page) ELSE 0
  IN  page \o SubSeq(rows, skip + 1, Min2(Len(rows), skip + room))

(* Numbers the rows of every chunk as if all chunks were full.             *)
ReadHistoryFixed(cursor, limit) ==
  LET Scan(s, meta) == [page |-> Taken(s.page, s.base, files[meta.seq], cursor, limit),
                        base |-> s.base + ChunkRows]
      read == FoldLeft(Scan, [page |-> <<>>, base |-> 0], chunks)
  IN  Taken(read.page, read.base, pendingRows, cursor, limit)

(* read_history: the chunks in order, then the buffer.                     *)
ReadHistory(cursor, limit) ==
  LET Scan(s, meta) == [page |-> Taken(s.page, s.base, files[meta.seq], cursor, limit),
                        base |-> s.base + meta.count]
      read == FoldLeft(Scan, [page |-> <<>>, base |-> 0], chunks)
  IN  Taken(read.page, read.base, pendingRows, cursor, limit)

(* The history as one sequence.                                            *)
History == FoldLeft(LAMBDA h, meta : h \o files[meta.seq], <<>>, chunks) \o pendingRows

-----------------------------------------------------------------------------
(* Properties.                                                             *)

(* Paging: a client that starts anywhere and follows next_cursor reads     *)
(* exactly the history, no row twice and none left out, across partial     *)
(* chunks, failed writes and the buffered tail.                            *)
PageIsExact ==
  \A cursor \in 0..(totalRows + 1), limit \in 0..(totalRows + 1) :
    ReadHistory(cursor, limit) = SubSeq(History, cursor + 1, Min2(Len(History), cursor + limit))

(* The total a page reports is the length of the history, and the chunk    *)
(* numbers of a run never repeat, so that no file is written twice.        *)
TotalIsExact ==
  /\ totalRows = Len(History)
  /\ \A i, j \in DOMAIN chunks : i < j => chunks[i].seq < chunks[j].seq
  /\ \A i \in DOMAIN chunks : chunks[i].seq < nextSeq

(* The store implements the append-only log: whatever was readable stays   *)
(* where it was while the daemon runs.                                     *)
Log == INSTANCE AppendOnlyLog WITH log <- History, epoch <- reboots, Batches <- RowBatches
HistoryIsAppendOnly == Log!Spec

=============================================================================

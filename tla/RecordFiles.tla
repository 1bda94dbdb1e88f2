----------------------------- MODULE RecordFiles ------------------------------
(***************************************************************************)
(* The record files of the MapReduce library: the pools that collect       *)
(* records (RecordsPool of output_writers.py), the format they are written *)
(* in (records.py, leveldb's: blocks, and records cut into fragments where *)
(* a block ends), the append of a buffer (file.py) and a reader that stops *)
(* after a record and goes on from tell() in a later task.                 *)
(*                                                                         *)
(* A byte is <<"zero">>, a byte of the data of a record, <<"data", record, *)
(* place>>, the start of a header, <<"head", type, data>> (its checksum    *)
(* covers both), a further byte of a header, <<"more">>, or a damaged one, *)
(* <<"bad">>.  Positions are counted from 0.                               *)
(***************************************************************************)
EXTENDS Integers, Sequences, SequencesExt

CONSTANTS
  BlockSize,       \* BLOCK_SIZE
  HeaderLength,    \* HEADER_LENGTH
  BufferSize,      \* _BUFFER_SIZE of BufferedFile
  FlushSize,       \* _FILES_API_FLUSH_SIZE
  MaxRequest,      \* _FILES_API_MAX_SIZE
  Lengths,         \* lengths of the records that are appended
  NumWriters,      \* pools on one file
  MaxRecords,      \* bound on the records appended
  MaxMishaps       \* bound on repeated appends and damaged bytes

ASSUME RecordFilesAssumption ==
  /\ HeaderLength \in Nat \ {0} /\ BlockSize \in Nat /\ BlockSize > HeaderLength
  /\ BufferSize \in Nat \ {0} /\ FlushSize \in Nat /\ MaxRequest \in Nat
  /\ Lengths \subseteq Nat /\ NumWriters \in Nat \ {0}
  /\ MaxRecords \in Nat /\ MaxMishaps \in Nat

Writers == 1..NumWriters

VARIABLES
  exclusive,       \* the file has one pool, which locks it
  file,            \* its bytes
  buffers,         \* the records of each pool that are not flushed
  lengths,         \* the length of each record that was appended
  refused,         \* the records a flush raised an error for
  content,         \* the records in the file, in order, with their blocks
  reading,         \* the file is finalized
  position, ahead, \* BufferedFile: _position, and the bytes read beyond it
  chunk,           \* data of read(): <<>> for None, or <<the fragments so far>>
  records,         \* what the reader returned
  eof,             \* it came to the end of the file
  damaged,         \* blocks with a damaged byte
  blanked,         \* the type of a fragment became zero
  mishaps

writeVars == <<exclusive, file, buffers, lengths, refused, content>>
scanVars == <<position, ahead, chunk, records, eof>>
fileVars == <<writeVars, scanVars, reading, damaged, blanked, mishaps>>

(* Writing ---------------------------------------------------------------*)

Zeros(n) == [i \in 1..n |-> <<"zero">>]
Fragment(type, data) ==
  <<<<"head", type, data>>>> \o [i \in 1..HeaderLength - 1 |-> <<"more">>] \o data
Capacity == BlockSize - HeaderLength

(* What follows the first fragment, a block at a time.                     *)
Following(data) ==
  LET n == (Len(data) + Capacity - 1) \div Capacity
  IN  FlattenSeq([i \in 1..n |->
        Fragment(IF i = n THEN "LAST" ELSE "MIDDLE",
                 SubSeq(data, (i - 1) * Capacity + 1,
                        IF i = n THEN Len(data) ELSE i * Capacity))])

(* RecordsWriter.write at a position, and its close.                       *)
Trailer(pos) ==
  LET left == BlockSize - (pos % BlockSize)
  IN  IF left < HeaderLength THEN Zeros(left) ELSE <<>>
Record(pos, data) ==
  LET left == BlockSize - (pos % BlockSize)
  IN  IF left < Len(data) + HeaderLength
      THEN Fragment("FIRST", SubSeq(data, 1, left - HeaderLength))
             \o Following(SubSeq(data, left - HeaderLength + 1, Len(data)))
      ELSE Fragment("FULL", data)
Write(buf, data) ==
  LET start == buf \o Trailer(Len(buf)) IN start \o Record(Len(start), data)

PadLastBlock(buf) ==
  IF Len(buf) % BlockSize = 0 THEN buf
  ELSE buf \o Zeros(BlockSize - (Len(buf) % BlockSize))

(* rs is a sequence of the data of records.                                *)
Encoded(rs) == FoldLeft(Write, <<>>, rs)
Located(rs, start) ==
  LET end(i) == start + Len(Encoded(SubSeq(rs, 1, i)))
      first(i) == end(i - 1) + Len(Trailer(end(i - 1)))
  IN  [i \in DOMAIN rs |-> [data |-> rs[i],
         blocks |-> (first(i) \div BlockSize)..((end(i) - 1) \div BlockSize)]]

(* RecordsPool.flush, several times in turn: each is one append, unless it *)
(* is too large for a file that is not locked.                             *)
Flushed(batches) ==
  FoldLeft(LAMBDA f, rs :
      LET buf == PadLastBlock(Encoded(rs))
      IN  IF f.refused # <<>> THEN f
          ELSE IF ~exclusive /\ Len(buf) > MaxRequest THEN [f EXCEPT !.refused = rs]
          ELSE [f EXCEPT !.file = @ \o buf, !.content = @ \o Located(rs, Len(f.file))],
    [file |-> file, content |-> content, refused |-> <<>>], batches)

(* Without the lock an append whose answer is lost is made once more       *)
(* (_make_rpc_call_with_retry).                                            *)
FlushBatches(batches) ==
  \E i \in 0..Len(batches) :
    LET sent == IF i = 0 THEN batches
                ELSE SubSeq(batches, 1, i) \o SubSeq(batches, i, Len(batches))
        f == Flushed(sent)
    IN  /\ i > 0 => ~exclusive /\ mishaps < MaxMishaps
        /\ mishaps' = mishaps + (IF i = 0 THEN 0 ELSE 1)
        /\ file' = f.file /\ content' = f.content /\ refused' = f.refused

Size(rs) == FoldLeft(LAMBDA n, data : n + Len(data), 0, rs)
StillWriting == ~reading /\ refused = <<>>
NewRecord(n) == [i \in 1..n |-> <<"data", Len(lengths) + 1, i>>]

(* RecordsPool.append: the buffer is flushed when the record does not fit  *)
(* in it, and the record at once when it is larger than any buffer.        *)
Overflows(w, n) == Size(buffers[w]) + n > FlushSize
Large(n) == n > FlushSize

Batches(w, n) ==
  (IF Overflows(w, n) THEN <<buffers[w]>> ELSE <<>>)
    \o (IF Large(n) THEN <<<<NewRecord(n)>>>> ELSE <<>>)
AppendRecord(w, n) ==
  /\ StillWriting /\ Len(lengths) < MaxRecords
  /\ exclusive \/ n <= MaxRequest
  /\ lengths' = Append(lengths, n)
  /\ FlushBatches(Batches(w, n))
  /\ buffers' = [buffers EXCEPT ![w] =
                   IF Large(n) THEN <<>>
                   ELSE Append(IF Overflows(w, n) THEN <<>> ELSE @, NewRecord(n))]
  /\ UNCHANGED <<exclusive, reading, scanVars, damaged, blanked>>

(* The pools are flushed when a slice ends.                                *)
FlushPool(w) ==
  /\ StillWriting /\ buffers[w] # <<>>
  /\ FlushBatches(<<buffers[w]>>)
  /\ buffers' = [buffers EXCEPT ![w] = <<>>]
  /\ UNCHANGED <<exclusive, lengths, reading, scanVars, damaged, blanked>>

(* The file is finalized, for it to be read.                               *)
Finalize ==
  /\ StillWriting /\ \A w \in Writers : buffers[w] = <<>>
  /\ reading' = TRUE
  /\ UNCHANGED <<writeVars, scanVars, damaged, blanked, mishaps>>

(* A byte of the file is lost: it turns into another; of the type of a     *)
(* fragment it matters whether that is zero.                               *)
Damage(p) ==
  /\ reading /\ position = 0 /\ ~eof /\ mishaps < MaxMishaps
  /\ mishaps' = mishaps + 1
  /\ damaged' = damaged \union {(p - 1) \div BlockSize}
  /\ \/ file' = [file EXCEPT ![p] = <<"bad">>] /\ UNCHANGED blanked
     \/ /\ file[p][1] = "head"
        /\ file' = [file EXCEPT ![p][2] = "NONE"]
        /\ blanked' = TRUE
  /\ UNCHANGED <<exclusive, buffers, lengths, refused, content, reading, scanVars>>

(* Reading ---------------------------------------------------------------*)

(* BufferedFile.read: whole buffers are read until there are enough bytes, *)
(* or no more.                                                             *)
Fetch(at, size) ==
  LET need == IF size > at.ahead THEN size - at.ahead ELSE 0
      most == at.ahead + ((need + BufferSize - 1) \div BufferSize) * BufferSize
      rest == Len(file) - at.position
      got  == IF most < rest THEN most ELSE rest
  IN  IF got < size THEN [position |-> at.position + got, ahead |-> 0]
      ELSE [position |-> at.position + size, ahead |-> got - size]
Bytes(from, to) == SubSeq(file, from.position + 1, to.position)

(* __try_read_record: what it returns or raises, and where it stops.       *)
TryRead(at) ==
  LET left == BlockSize - (at.position % BlockSize)
      past == Fetch(at, HeaderLength)
      header == Bytes(at, past)
      data == header[1][3]
      end == Fetch(past, Len(data))
      Got(type, d, to) == [type |-> type, data |-> d, at |-> to]
  IN  IF left < HeaderLength THEN Got("NONE", <<>>, at)
      ELSE IF Len(header) # HeaderLength THEN Got("EOF", <<>>, past)
      ELSE IF header = Zeros(HeaderLength) THEN Got("NONE", <<>>, past)
      ELSE IF \/ header[1][1] # "head"
              \/ \E i \in 2..HeaderLength : header[i] # <<"more">>
              \/ Len(data) + HeaderLength > left THEN Got("INVALID", <<>>, past)
      ELSE IF Len(Bytes(past, end)) # Len(data) THEN Got("EOF", <<>>, end)
      ELSE IF header[1][2] = "NONE" THEN Got("NONE", <<>>, end)
      ELSE IF Bytes(past, end) # data THEN Got("INVALID", <<>>, end)
      ELSE Got(header[1][2], data, end)

(* Mutant: at a block boundary the next block is skipped.                  *)
SkippedWhole(at) == Fetch(at, BlockSize - (at.position % BlockSize))

(* __sync: to the next block; at a block boundary it stays.                *)
Skipped(at) ==
  IF at.position % BlockSize = 0 THEN at
  ELSE Fetch(at, BlockSize - (at.position % BlockSize))
MoveTo(at) == position' = at.position /\ ahead' = at.ahead

(* Mutant: the fragments before one that is invalid are kept.              *)
AfterSkipKept(type) == chunk

AfterSkip(type) == IF type = "INVALID" THEN <<>> ELSE chunk

(* One round of the loop of read().  It returns at the end of a record.    *)
ReadFragment ==
  /\ reading /\ ~eof
  /\ LET got == TryRead([position |-> position, ahead |-> ahead])
     IN  \/ /\ got.type = "EOF"
            /\ eof' = TRUE /\ chunk' = <<>>
            /\ MoveTo(got.at) /\ UNCHANGED records
         \/ /\ got.type \in {"NONE", "INVALID"}
            /\ MoveTo(Skipped(got.at))
            /\ chunk' = AfterSkip(got.type)
            /\ eof' = (Skipped(got.at).position % BlockSize # 0)
            /\ UNCHANGED records
         \/ /\ got.type \in {"FULL", "FIRST", "MIDDLE", "LAST"}
            /\ MoveTo(got.at) /\ UNCHANGED eof
            /\ \/ /\ got.type = "FULL"
                  /\ records' = Append(records, got.data) /\ chunk' = <<>>
               \/ /\ got.type = "FIRST"
                  /\ chunk' = <<got.data>> /\ UNCHANGED records
               \/ /\ got.type = "MIDDLE"
                  /\ chunk' = IF chunk = <<>> THEN <<>> ELSE <<chunk[1] \o got.data>>
                  /\ UNCHANGED records
               \/ /\ got.type = "LAST"
                  /\ records' = IF chunk = <<>> THEN records
                                ELSE Append(records, chunk[1] \o got.data)
                  /\ chunk' = <<>>
  /\ UNCHANGED <<writeVars, reading, damaged, blanked, mishaps>>

(* Mutant: bytes in the buffer count as read.                              *)
TellAhead == position + ahead

(* The slice ends after a record: the next one seeks to tell().            *)
Tell == position
Resume ==
  /\ reading /\ ~eof /\ chunk = <<>> /\ records # <<>> /\ ahead > 0
  /\ position' = Tell /\ ahead' = 0
  /\ UNCHANGED <<writeVars, chunk, records, eof, reading, damaged, blanked, mishaps>>

FileInit ==
  /\ exclusive \in BOOLEAN
  /\ file = <<>> /\ content = <<>> /\ lengths = <<>> /\ refused = <<>>
  /\ buffers = [w \in Writers |-> <<>>]
  /\ reading = FALSE /\ position = 0 /\ ahead = 0 /\ chunk = <<>>
  /\ records = <<>> /\ eof = FALSE
  /\ damaged = {} /\ blanked = FALSE /\ mishaps = 0

FileNext ==
  \/ \E w \in (IF exclusive THEN {1} ELSE Writers) :
                        \/ \E n \in Lengths : AppendRecord(w, n)
                        \/ FlushPool(w)
  \/ Finalize
  \/ \E p \in DOMAIN file : Damage(p)
  \/ ReadFragment
  \/ Resume

FileSpec == FileInit /\ [][FileNext]_fileVars

-----------------------------------------------------------------------------
(* Properties.                                                             *)

Contents == [i \in DOMAIN content |-> content[i].data]

FilesTypeOK ==
  /\ position \in 0..Len(file) /\ ahead \in 0..Len(file) - position
  /\ Len(chunk) <= 1 /\ Len(records) <= Len(content)
  /\ Len(file) % BlockSize = 0 /\ mishaps \in 0..MaxMishaps
  /\ \A i \in DOMAIN content : \A b \in content[i].blocks : b * BlockSize < Len(file)

(* However the appends of several pools follow each other in one file, and *)
(* wherever a slice of its reader stops and the next goes on, the reader   *)
(* returns only records that were written, in their order and each once    *)
(* (records.py: InvalidRecordError drops the fragments that were read) --  *)
(* unless the type of a damaged fragment became zero, which is taken for a *)
(* trailer before its checksum is compared.  At its end it has returned    *)
(* every record with no fragment in a damaged block.                       *)
ReadIsWritten ==
  /\ ~blanked =>
       \E where \in [DOMAIN records -> DOMAIN content] :
         /\ \A i \in DOMAIN records : records[i] = Contents[where[i]]
         /\ \A i, j \in DOMAIN records : i < j => where[i] < where[j]
  /\ eof => \A i \in DOMAIN content : content[i].blocks \cap damaged = {} =>
              \E j \in DOMAIN records : records[j] = content[i].data
=============================================================================

----------------------------- MODULE BlobReaders ------------------------------
(***************************************************************************)
(* The readers of input_readers.py over blobs: of the lines of blobs, of   *)
(* the files of a zip archive, and of the lines of the files of archives.  *)
(* split_input() deals a job's input out to shards; a slice of a shard     *)
(* stops after an item, and the next goes on from the JSON of the reader;  *)
(* a slice that fails is run again from the same JSON.                       *)
(*                                                                         *)
(* A text is its length and the places of its line breaks.  The shards     *)
(* share nothing, and are taken one after the other.                       *)
(***************************************************************************)
EXTENDS Naturals, FiniteSets, Sequences, SequencesExt

CONSTANTS
  Jobs,            \* kinds of reader with their input: <<kind, sequence of blobs>>
  ShardCounts,     \* numbers of shards asked for
  MaxFailed        \* bound on slices that fail

ASSUME BlobReadersAssumption ==
  /\ ShardCounts \subseteq Nat \ {0} /\ MaxFailed \in Nat
  /\ Jobs \subseteq {"lines", "files", "archived lines"}
                     \X Seq(Seq([size : Nat, breaks : SUBSET Nat]))
  /\ \A job \in Jobs :
       /\ \A b \in DOMAIN job[2] : \A f \in DOMAIN job[2][b] :
            job[2][b][f].breaks \subseteq 0..job[2][b][f].size - 1
       /\ job[1] = "lines" => job[2] # <<>> /\ \A b \in DOMAIN job[2] : Len(job[2][b]) = 1
       /\ job[1] = "files" => Len(job[2]) = 1

VARIABLES
  kind,            \* "lines", "files" or "archived lines"
  blobs,           \* archives: sequences of texts; a plain blob is one text
  shardCount,      \* mapper_spec.shard_count
  waiting,         \* the readers of shards that have not ended, as JSON
  now,             \* the reader of the slice that runs, or <<>>
  fresh,           \* what this slice has read
  taken, rereads,  \* items read by slices that ended, and those read twice
  failed           \* slices that failed

blobVars == <<kind, blobs, shardCount, waiting, now, fresh, taken, rereads, failed>>

(* The end of the line at a place, as readline() finds it.                 *)
LineEnd(text, place) ==
  LET ahead == {b \in text.breaks : b >= place}
  IN  IF ahead # {} THEN 1 + (CHOOSE b \in ahead : \A c \in ahead : b <= c)
      ELSE IF place > text.size THEN place ELSE text.size

(* Readers, and their JSON: the part of the input from "at" to "end", and  *)
(* a place within it.                                                      *)
BlobReader(blob, at, end, offset) ==
  [blob |-> blob, at |-> at, end |-> end, offset |-> offset,
   skip |-> FALSE, iterated |-> FALSE, open |-> FALSE, item |-> FALSE]

(* BlobstoreLineInputReader.split_input.                                   *)
ShardsPerBlob ==
  LET n == shardCount' \div Len(blobs') IN IF n = 0 THEN 1 ELSE n
ChunksOf(b) ==
  LET size == blobs'[b][1].size
      chunk == size \div ShardsPerBlob
  IN  [i \in 1..ShardsPerBlob |->
         BlobReader(b, chunk * (i - 1), IF i = ShardsPerBlob THEN size ELSE chunk * i, 0)]
SplitLines == FlattenSeq([b \in DOMAIN blobs' |-> ChunksOf(b)])

(* The files of an archive, in groups of at least so many bytes.           *)
SizeOf(files) == FoldLeft(LAMBDA n, f : n + f.size, 0, files)
Group(files, most) ==
  FoldLeft(LAMBDA g, i :
      IF g.size + files[i].size >= most
      THEN [starts |-> Append(g.starts, i), size |-> 0]
      ELSE [g EXCEPT !.size = @ + files[i].size],
    [starts |-> <<0>>, size |-> 0], [i \in DOMAIN files |-> i])

(* BlobstoreZipInputReader.split_input, of one archive.                    *)
SplitFiles ==
  LET files == blobs'[1]
      starts == Group(files, SizeOf(files) \div shardCount').starts
      all == IF Last(starts) # Len(files) THEN Append(starts, Len(files)) ELSE starts
  IN  [i \in 1..Len(all) - 1 |-> BlobReader(1, all[i], all[i + 1], 0)]

(* BlobstoreZipLineInputReader.split_input: a group of files left over is  *)
(* one more shard, if it has any bytes.                                    *)
SplitArchive(b, most) ==
  LET g == Group(blobs'[b], most)
      all == IF g.size # 0 THEN Append(g.starts, Len(blobs'[b])) ELSE g.starts
  IN  [i \in 1..Len(all) - 1 |-> BlobReader(b, all[i], all[i + 1], 0)]
SplitArchives ==
  LET total == FoldLeft(LAMBDA n, files : n + SizeOf(files), 0, blobs')
  IN  FlattenSeq([b \in DOMAIN blobs' |-> SplitArchive(b, total \div shardCount')])

BlobInit ==
  /\ kind = "none" /\ blobs = <<>> /\ shardCount = 0
  /\ waiting = <<>> /\ now = <<>> /\ fresh = <<>>
  /\ taken = {} /\ rereads = {} /\ failed = 0

Split(job, n) ==
  /\ kind' = job[1] /\ blobs' = job[2] /\ shardCount' = n
  /\ waiting' = CASE kind' = "lines" -> SplitLines
                  [] kind' = "files" -> SplitFiles
                  [] OTHER -> SplitArchives
  /\ UNCHANGED <<now, fresh, taken, rereads, failed>>

(* from_json: a line reader that does not begin at 0 reads up to the end   *)
(* of a line first.                                                        *)
StartSlice ==
  /\ now = <<>> /\ waiting # <<>>
  /\ now' = <<[Head(waiting) EXCEPT !.skip = kind = "lines" /\ Head(waiting).at # 0]>>
  /\ UNCHANGED <<kind, blobs, shardCount, waiting, fresh, taken, rereads, failed>>

Running(k) == kind = k /\ now # <<>>
R == now[1]
Found(item, reader) ==
  /\ fresh' = Append(fresh, item)
  /\ now' = <<[reader EXCEPT !.item = TRUE]>>
  /\ UNCHANGED <<kind, blobs, shardCount, waiting, taken, rereads, failed>>

Settle(items, was) ==
  /\ taken' = taken \union ToSet(items)
  /\ rereads' = rereads \union (ToSet(items) \cap taken)
                    \union {x \in ToSet(items) : \E i, j \in DOMAIN items :
                              i # j /\ items[i] = x /\ items[j] = x}
  /\ fresh' = <<>> /\ now' = <<>>
  /\ waiting' = was

(* StopIteration: the shard has ended.                                     *)
Stopped ==
  /\ Settle(fresh, Tail(waiting))
  /\ UNCHANGED <<kind, blobs, shardCount, failed>>

(* BlobstoreLineInputReader.next.                                          *)
PlainText == blobs[R.blob][1]

LineStart == IF R.skip THEN LineEnd(PlainText, R.at) ELSE R.at

(* Mutant: only the end of the blob counts.                                *)
NoLineAnywhere == LineStart >= PlainText.size

NoLine == LineStart > R.end \/ LineStart >= PlainText.size
NextLine ==
  /\ Running("lines") /\ ~NoLine
  /\ Found(<<R.blob, 1, LineStart>>,
           [R EXCEPT !.at = LineEnd(PlainText, LineStart),
                     !.skip = FALSE, !.iterated = TRUE])
LinesEnd == Running("lines") /\ NoLine /\ Stopped

(* BlobstoreZipInputReader.next.                                           *)
NextZipFile ==
  /\ Running("files") /\ R.at < R.end
  /\ Found(<<R.blob, R.at + 1, 0>>, [R EXCEPT !.at = @ + 1])
FilesEnd == Running("files") /\ R.at >= R.end /\ Stopped

(* BlobstoreZipLineInputReader.next: open the file, from the line after    *)
(* the offset; a line of it; the end of the file.                          *)
ZipText == blobs[R.blob][R.at + 1]
Reposition(reader) ==
  /\ now' = <<reader>>
  /\ UNCHANGED <<kind, blobs, shardCount, waiting, fresh, taken, rereads, failed>>
OpenZipFile ==
  /\ Running("archived lines") /\ ~R.open /\ R.at < R.end
  /\ Reposition([R EXCEPT !.open = TRUE, !.item = FALSE,
                   !.offset = IF @ = 0 THEN 0 ELSE LineEnd(ZipText, @)])
NextZipLine ==
  /\ Running("archived lines") /\ R.open /\ R.offset < ZipText.size
  /\ Found(<<R.blob, R.at + 1, R.offset>>,
           [R EXCEPT !.offset = LineEnd(ZipText, R.offset)])
CloseZipFile ==
  /\ Running("archived lines") /\ R.open /\ R.offset >= ZipText.size
  /\ Reposition([R EXCEPT !.open = FALSE, !.item = FALSE, !.at = @ + 1, !.offset = 0])
ArchivedLinesEnd == Running("archived lines") /\ ~R.open /\ R.at >= R.end /\ Stopped

(* Mutant: the line break is not given back.                               *)
JsonPlaceHere(place) == place

(* to_json: the place of the next line, less one, so that the line break   *)
(* before it is what is skipped.                                           *)
JsonPlace(place) == IF place = 0 THEN 0 ELSE place - 1
Json ==
  CASE kind = "lines" ->
         BlobReader(R.blob, IF R.iterated THEN JsonPlace(R.at) ELSE R.at, R.end, 0)
    [] kind = "files" -> BlobReader(R.blob, R.at, R.end, 0)
    [] OTHER ->
         BlobReader(R.blob, R.at, R.end, IF R.open THEN JsonPlace(R.offset) ELSE R.offset)
EndReaderSlice ==
  /\ now # <<>> /\ R.item
  /\ Settle(fresh, <<Json>> \o Tail(waiting))
  /\ UNCHANGED <<kind, blobs, shardCount, failed>>

FailReaderSlice ==
  /\ now # <<>> /\ failed < MaxFailed
  /\ failed' = failed + 1
  /\ now' = <<>> /\ fresh' = <<>>
  /\ UNCHANGED <<kind, blobs, shardCount, waiting, taken, rereads>>

BlobNext ==
  \/ kind = "none" /\ \E job \in Jobs, n \in ShardCounts : Split(job, n)
  \/ StartSlice
  \/ NextLine \/ LinesEnd \/ NextZipFile \/ FilesEnd
  \/ OpenZipFile \/ NextZipLine \/ CloseZipFile \/ ArchivedLinesEnd
  \/ EndReaderSlice \/ FailReaderSlice

BlobSpec == BlobInit /\ [][BlobNext]_blobVars

-----------------------------------------------------------------------------
(* Properties.                                                             *)

LinesOf(text) == {p \in 0..text.size - 1 : p = 0 \/ p - 1 \in text.breaks}
AllItems ==
  IF kind = "files" THEN {<<1, f, 0>> : f \in DOMAIN blobs[1]}
  ELSE UNION {UNION {{<<b, f, p>> : p \in LinesOf(blobs[b][f])} : f \in DOMAIN blobs[b]} :
                b \in DOMAIN blobs}

BlobReadersTypeOK ==
  /\ ToSet(fresh) \subseteq AllItems /\ taken \subseteq AllItems /\ rereads \subseteq taken
  /\ now # <<>> => waiting # <<>> /\ R.blob = Head(waiting).blob /\ R.end = Head(waiting).end
  /\ failed \in 0..MaxFailed

TextOf(item) == blobs[item[1]][item[2]]

(* When its shards have ended, every line or file of the input was read,   *)
(* wherever chunks and slices were cut (BlobstoreLineInputReader: "from    *)
(* the first record starting after strictly after start_position until     *)
(* the first record ending at or after end_position").  And no line is     *)
(* read twice, but the first of a text: when it is one byte, a slice that  *)
(* ends after it leaves place 0, and a blob with fewer bytes than shards   *)
(* has several chunks that begin there.                                    *)
EachLineRead ==
  /\ kind # "none" /\ waiting = <<>> => taken = AllItems
  /\ \A x \in rereads :
       /\ kind # "files" /\ x[3] = 0
       /\ \/ LineEnd(TextOf(x), 0) = 1
          \/ kind = "lines" /\ TextOf(x).size < shardCount
=============================================================================

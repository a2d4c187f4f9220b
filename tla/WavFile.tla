------------------------------- MODULE WavFile -------------------------------
(***************************************************************************)
(* The decoder of recordings (pkg/audio/wav) and their loudness             *)
(* (pkg/audio/rms.go), against the layout that a writer gave the file.      *)
(* A file is its chunks; Encoded is the bytes on disk.  A chunk header is   *)
(* one cell of them, a sample two; a sample is loud (1) or still (0), and   *)
(* the threshold lies where half of them are loud.                          *)
(***************************************************************************)
EXTENDS Integers, SequencesExt, FiniteSetsExt

(* Stand for 16 bytes, maxDataBytes and rmsChunkSamples.                    *)
minFmtChunkSize == 2
maxDataBytes == 8
rmsChunkSamples == 2

Fmt(size, pcm) == [id |-> "fmt", size |-> size, pcm |-> pcm, samples |-> <<>>]
Data(samples, odd) ==
  [id |-> "data", size |-> 2 * Len(samples) + odd, pcm |-> TRUE, samples |-> samples]
Other(size) == [id |-> "LIST", size |-> size, pcm |-> TRUE, samples |-> <<>>]

Header(c) == [is |-> "header", id |-> c.id, size |-> c.size, v |-> 0]
Byte(v) == [is |-> "byte", id |-> "none", size |-> 0, v |-> v]

(* What a writer puts on disk: chunks begin at even offsets.                *)
Body(c) ==
  [k \in 1..c.size + (c.size % 2) |->
     IF c.id = "data" /\ k <= 2 * Len(c.samples) THEN Byte(c.samples[(k + 1) \div 2])
     ELSE Byte(IF c.id = "fmt" /\ c.pcm /\ k = 1 THEN 1 ELSE 0)]

(* cut: the last bytes never reached the disk.                              *)
Encoded(file) ==
  LET bytes == FlattenSeq([i \in 1..Len(file.chunks) |->
                 <<Header(file.chunks[i])>> \o Body(file.chunks[i])])
  IN SubSeq(bytes, 1, Len(bytes) - file.cut)

-----------------------------------------------------------------------------
(* The decoder.                                                             *)

(* io.ReadFull of n bytes from p: an end of file where there is nothing any *)
(* more, another error where a part is there.                               *)
readFull(bytes, p, n) ==
  LET left == Len(bytes) + 1 - p
  IN IF n <= left THEN "nil" ELSE IF left = 0 THEN "EOF" ELSE "ErrUnexpectedEOF"

Refused(error) == [ok |-> FALSE, start |-> 0, samples |-> 0, err |-> error]

(* Seeded fault: the byte that pads a chunk of odd size is not counted.     *)
ChunkBytesUnpadded(size) == size

(* The size on disk, as skipUnknownChunk and parseFmtChunk skip it.         *)
chunkBytes(size) == size + (size % 2)

validateDataChunk(hasFmt, size) ==
  hasFmt /\ size <= maxDataBytes /\ size % 2 = 0

(* The error of a format chunk; the format is in its first bytes.           *)
parseFmtChunk(bytes, p, size) ==
  LET data == readFull(bytes, p + 1, size)
      padding == readFull(bytes, p + 1 + size, size % 2)
  IN IF size < minFmtChunkSize THEN "refused"
     ELSE IF data # "nil" THEN data
     ELSE IF padding # "nil" THEN padding
     ELSE IF bytes[p + 1].v = 1 THEN "nil" ELSE "refused"

(* The walk over the chunks up to the first data chunk; p is the next byte  *)
(* of the stream.  A skip that runs into the end is io.EOF.                 *)
parseWAVChunks(bytes) ==
  LET end == Len(bytes) + 1
      walk[p \in 1..end, hasFmt \in BOOLEAN] ==
        IF p = end \/ bytes[p].is # "header" THEN Refused("refused")
        ELSE LET h == bytes[p]
                 next == p + 1 + chunkBytes(h.size)
                 error == IF h.id = "fmt" THEN parseFmtChunk(bytes, p, h.size)
                          ELSE IF next <= end THEN "nil" ELSE "EOF"
             IN IF h.id = "data"
                THEN IF validateDataChunk(hasFmt, h.size)
                     THEN [ok |-> TRUE, start |-> p + 1, samples |-> h.size \div 2,
                           err |-> "nil"]
                     ELSE Refused("refused")
                ELSE IF error # "nil" THEN Refused(error)
                ELSE walk[next, hasFmt \/ h.id = "fmt"]
  IN walk[1, FALSE]

NewDecoder(file) ==
  IF file.magic THEN parseWAVChunks(Encoded(file)) ELSE Refused("refused")

(* Decoder.Read: as many samples as fit and are left, all of them or none.  *)
(* The error of a file that ends too early is passed on, so "EOF" is what a *)
(* file answers that ends exactly where the read begins.                    *)
Read(bytes, d, pos, want) ==
  LET n == Min({want, d.samples - pos})
      error == IF n = 0 THEN "EOF" ELSE readFull(bytes, d.start + 2 * pos, 2 * n)
  IN IF error # "nil" THEN [err |-> error, samples |-> <<>>]
     ELSE [err |-> IF n < want THEN "EOF" ELSE "nil",
           samples |-> [k \in 1..n |-> bytes[d.start + 2 * (pos + k - 1)].v]]

(* streamRMSDBFS: the samples and the loud ones among them, block by block, *)
(* to the first that ends with an error; "EOF" is the end of the recording. *)
streamRMSDBFS(bytes, d) ==
  LET blocks == [b \in 1..(d.samples \div rmsChunkSamples) + 1 |->
                   Read(bytes, d, (b - 1) * rmsChunkSamples, rmsChunkSamples)]
      last == SelectInSeq(blocks, LAMBDA block : block.err # "nil")
      samples == FlattenSeq([b \in 1..last |-> blocks[b].samples])
  IN [err |-> blocks[last].err, count |-> Len(samples),
      loud |-> FoldLeft(+, 0, samples)]

(* Is the loudness measured, and is it below the threshold?                 *)
BelowThreshold(file) ==
  LET d == NewDecoder(file)
      sum == streamRMSDBFS(Encoded(file), d)
  IN d.ok /\ sum.err = "EOF" /\ (sum.count = 0 \/ 2 * sum.loud < sum.count)

(* The error of readWavSamples, which reads all the samples at once: "EOF"  *)
(* where there is none, an empty audio to the local model.                  *)
readWavSamples(file) ==
  LET d == NewDecoder(file)
  IN IF d.ok THEN Read(Encoded(file), d, 0, d.samples).err ELSE d.err

HasSamples(file) == readWavSamples(file) = "nil"
CutShort(file) == readWavSamples(file) = "ErrUnexpectedEOF"

-----------------------------------------------------------------------------
(* What the writer meant, told from the layout alone.                       *)

DataAt(file) == {i \in DOMAIN file.chunks : file.chunks[i].id = "data"}

(* The first data chunk, and how much of it never reached the disk.         *)
TheData(file) == file.chunks[Min(DataAt(file))]
Lost(file) ==
  LET later == {i \in DOMAIN file.chunks : i > Min(DataAt(file))}
      size(i) == Len(Body(file.chunks[i])) + 1
  IN Max({0, file.cut - MapThenSumSet(size, later)})

IsRecording(file) ==
  /\ file.magic /\ DataAt(file) # {}
  /\ LET fmts == {i \in 1..(Min(DataAt(file)) - 1) : file.chunks[i].id = "fmt"}
     IN /\ fmts # {}
        /\ \A i \in fmts : file.chunks[i].pcm /\ file.chunks[i].size >= minFmtChunkSize
        /\ TheData(file).size \in {n \in 0..maxDataBytes : n % 2 = 0}
        /\ Lost(file) <= TheData(file).size

(* A recording most of whose samples on disk are still.  One that was cut   *)
(* short is measured only where the cut is between two blocks.              *)
IsQuiet(file) ==
  /\ IsRecording(file)
  /\ LET onDisk == TheData(file).size - Lost(file)
         loud == {k \in 1..(onDisk \div 2) : TheData(file).samples[k] = 1}
     IN /\ Lost(file) = 0 \/ onDisk % (2 * rmsChunkSamples) = 0
        /\ onDisk = 0 \/ 2 * Cardinality(loud) < onDisk \div 2

=============================================================================

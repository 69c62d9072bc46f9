----------------------------- MODULE LevelDBLog -----------------------------
(***************************************************************************)
(* How the dashboard reads the log that LevelDB keeps of a node's status   *)
(* trie (main.go; cmd/probe has a copy), and the log as it grows.          *)
(*                                                                         *)
(* The file is cut into blocks.  A record (a batch of puts and deletes) is *)
(* written as one chunk, or as a first, middle ones and a last when it     *)
(* does not fit the block; a chunk has a header of 7 bytes, and a tail of  *)
(* a block too short for a header is filled with zeros.  In a batch a key  *)
(* or value comes after its length, a varint: 7 bits a byte, the lowest    *)
(* first, and 128 added to every byte but the last.  A loop of the parser  *)
(* is the function of its states.                                          *)
(***************************************************************************)
EXTENDS Integers, SequencesExt

CONSTANTS
    BlockBytes,  \* the length of a block, 32768 in the code
    Batches,     \* the batches LevelDB may be given; goleveldb writes no empty one
    MaxBytes     \* bound on the bytes of the log but for headers

Bytes == 0 .. 255

\* No key or value has more bytes, and no batch more rows.
MaxLength == 2147483647

IsString(s) == s \in Seq(Bytes) /\ Len(s) <= MaxLength

\* The length of a chunk has two bytes.
ASSUME BlockAssumption == BlockBytes \in Nat /\ BlockBytes >= 8 /\ BlockBytes <= 65542
ASSUME BatchesAssumption ==
    \A b \in Batches :
        /\ b \in Seq(Range(b)) /\ Len(b) \in 1 .. MaxLength
        /\ \A i \in DOMAIN b :
               /\ b[i].put \in BOOLEAN /\ IsString(b[i].key)
               /\ b[i].put => IsString(b[i].value)
ASSUME LogBoundAssumption == MaxBytes \in Nat

VARIABLES
    data,     \* the bytes of the log
    pending,  \* the bytes of the record under way that are not written yet
    chunks,   \* the number of its chunks that are
    batch,    \* the batch it holds, or << >>
    written,  \* the rows of the records that are wholly in the log
    torn      \* the last write is only partly in the file

vars == <<data, pending, chunks, batch, written, torn>>

-----------------------------------------------------------------------------
(* The parser.  Offsets count from 0. *)

Byte(bytes, offset) == bytes[offset + 1]

\* The numbers that begin with each byte, which is counted from the end; next is the
\* offset after the number, or -1 when it has no last byte.
Numbers(bytes) ==
    LET number[left \in 0 .. Len(bytes)] ==
            LET byte == Byte(bytes, Len(bytes) - left)
                rest == number[left - 1]
            IN  IF left = 0 THEN [value |-> 0, next |-> -1]
                ELSE IF byte < 128 THEN [value |-> byte, next |-> Len(bytes) - left + 1]
                ELSE [value |-> (byte % 128) + 128 * rest.value, next |-> rest.next]
    IN  number

\* Mutant of Uvarint: a length is one byte.
UvarintByte(bytes, pos) == [value |-> Byte(bytes, pos), next |-> pos + 1]

\* The number at pos.  One of more bytes than a uint64 has is refused; so is here one
\* that is no int, which makes the code panic and which LevelDB never writes.
Uvarint(bytes, pos) ==
    LET number == Numbers(bytes)[Len(bytes) - pos]
        n == number.next - pos
    IN  IF n < 10 \/ (n = 10 /\ Byte(bytes, number.next - 1) = 0)
        THEN number ELSE [value |-> 0, next |-> -1]

\* As many bytes as a length says; next is -1 when they are not all there.
StringAfter(bytes, length) ==
    LET end == length.next + length.value
    IN  IF length.next = -1 \/ end > Len(bytes) THEN [string |-> << >>, next |-> -1]
        ELSE [string |-> SubSeq(bytes, length.next + 1, end), next |-> end]

ReadVarString(bytes, pos) == StringAfter(bytes, Uvarint(bytes, pos))

Least(m, n) == IF m < n THEN m ELSE n

RowsRead(ok, pos, rows) == [ok |-> ok, pos |-> pos, rows |-> rows]

\* Reads a row, unless all are read.  A row has a value if its kind is 1.
ReadRow(payload, count, st) ==
    LET key == ReadVarString(payload, st.pos + 1)
        value == IF key.next # -1 /\ Byte(payload, st.pos) = 1
                 THEN ReadVarString(payload, key.next)
                 ELSE [string |-> << >>, next |-> key.next]
    IN  IF ~st.ok \/ Len(st.rows) = count \/ st.pos >= Len(payload) THEN st
        ELSE IF value.next = -1 THEN RowsRead(FALSE, st.pos, << >>)
        ELSE RowsRead(TRUE, value.next,
                      Append(st.rows, [key |-> key.string, value |-> value.string]))

Uint16(bytes, offset) == Byte(bytes, offset) + 256 * Byte(bytes, offset + 1)

Count(payload) == Uint16(payload, 8) + 65536 * Uint16(payload, 10)

\* The loop of parseBatch.
RowLoop(payload) ==
    LET st[n \in 0 .. Len(payload)] ==
            IF n = 0 THEN RowsRead(TRUE, 12, << >>)
            ELSE ReadRow(payload, Count(payload), st[n - 1])
    IN  st

\* A sequence number of 8 bytes and a count of 4 precede the rows.  A batch that
\* does not parse gives none; fewer rows than announced are no error when the
\* payload ends with a row, and no row is shorter than a byte.
ParseBatch(payload) ==
    IF Len(payload) < 12 THEN << >>
    ELSE RowLoop(payload)[Least(Count(payload), Len(payload))].rows

\* Mutant of Fragment: a first chunk is added to what was left of the last record.
FragmentKept(fragment, recType, payload) ==
    IF recType = 1 THEN fragment ELSE fragment \o payload

\* What a chunk does to the fragment.
Fragment(fragment, recType, payload) ==
    CASE recType = 1 -> fragment
      [] recType = 2 -> payload
      [] recType = 3 -> fragment \o payload
      [] OTHER -> << >>

\* The rows of a record that is complete with a chunk.
Completed(fragment, recType, payload) ==
    CASE recType = 1 -> ParseBatch(payload)
      [] recType = 4 -> ParseBatch(fragment \o payload)
      [] OTHER -> << >>

\* Mutant of BlockEnd: the file is taken for one block.
BlockEndOfFile(bytes, offset) == Len(bytes)

BlockEnd(bytes, offset) == Least((offset \div BlockBytes + 1) * BlockBytes, Len(bytes))

Reading(ok, offset, fragment, rows) ==
    [ok |-> ok, offset |-> offset, fragment |-> fragment, rows |-> rows]

\* What one turn of the inner loop does, and the outer loop after it, until the file
\* is read.  The checksum is not looked at; a length is compared with the end of the
\* file, not of the block.
ReadChunk(bytes, st) ==
    LET blockEnd == BlockEnd(bytes, st.offset)
        length == Uint16(bytes, st.offset + 4)
        recType == Byte(bytes, st.offset + 6)
        start == st.offset + 7
        payload == SubSeq(bytes, start + 1, start + length)
    IN  IF ~st.ok \/ st.offset >= Len(bytes) THEN st
        ELSE IF start > blockEnd \/ (length = 0 /\ recType = 0)
        THEN Reading(TRUE, blockEnd, st.fragment, st.rows)
        ELSE IF start + length > Len(bytes)
        THEN Reading(FALSE, st.offset, << >>, << >>)
        ELSE Reading(TRUE, Least(start + length, blockEnd),
                     Fragment(st.fragment, recType, payload),
                     st.rows \o Completed(st.fragment, recType, payload))

\* As many turns as there can be: two of them read 8 bytes or end the file.
Turns(bytes) == Len(bytes) \div 4 + 1

\* The loops of parseLevelDBLog.
Loop(bytes) ==
    LET st[n \in 0 .. Turns(bytes)] ==
            IF n = 0 THEN Reading(TRUE, 0, << >>, << >>) ELSE ReadChunk(bytes, st[n - 1])
    IN  st

ParseLevelDBLog(bytes) == Loop(bytes)[Turns(bytes)]

-----------------------------------------------------------------------------
(* The log as LevelDB writes it. *)

Zeros(n) == [i \in 1 .. n |-> 0]

PutUvarint(n) ==
    LET put[m \in 0 .. MaxLength] ==
            IF m < 128 THEN <<m>> ELSE <<(m % 128) + 128>> \o put[m \div 128]
    IN  put[n]

VarString(s) == PutUvarint(Len(s)) \o s

Encoded(row) ==
    IF row.put THEN <<1>> \o (VarString(row.key) \o VarString(row.value))
               ELSE <<0>> \o VarString(row.key)

\* A number in four bytes, the lowest first.
Uint32(n) == <<n % 256, (n \div 256) % 256, (n \div 65536) % 256, n \div 16777216>>

EncodedBatch(b) ==
    Zeros(8) \o Uint32(Len(b)) \o FlattenSeq([i \in DOMAIN b |-> Encoded(b[i])])

RowsOf(b) ==
    [i \in DOMAIN b |-> [key |-> b[i].key, value |-> IF b[i].put THEN b[i].value ELSE << >>]]

Init ==
    /\ data = << >>
    /\ pending = << >>
    /\ chunks = 0
    /\ batch = << >>
    /\ written = << >>
    /\ torn = FALSE

Begin(b) ==
    /\ batch = << >> /\ ~torn
    /\ Len(data) + Len(EncodedBatch(b)) <= MaxBytes
    /\ batch' = b
    /\ pending' = EncodedBatch(b)
    /\ chunks' = 0
    /\ UNCHANGED <<data, written, torn>>

Padding ==
    LET left == BlockBytes - (Len(data) % BlockBytes)
    IN  IF left < 7 THEN Zeros(left) ELSE << >>

\* The next chunk: the header, some checksum first, and what fits in the block.
Chunk ==
    LET room == BlockBytes - ((Len(data) + Len(Padding)) % BlockBytes) - 7
        n == Least(room, Len(pending))
        last == n = Len(pending)
        recType == IF chunks = 0 THEN IF last THEN 1 ELSE 2
                                 ELSE IF last THEN 4 ELSE 3
    IN  <<255, 255, 255, 255, n % 256, n \div 256, recType>> \o SubSeq(pending, 1, n)

WriteChunk ==
    LET rest == SubSeq(pending, Len(Chunk) - 6, Len(pending))
    IN  /\ batch # << >> /\ ~torn
        /\ data' = data \o Padding \o Chunk
        /\ pending' = rest
        /\ IF rest = << >>
           THEN /\ written' = written \o RowsOf(batch)
                /\ batch' = << >>
                /\ chunks' = 0
           ELSE /\ chunks' = chunks + 1
                /\ UNCHANGED <<written, batch>>
        /\ UNCHANGED torn

\* The file is read while a chunk is being written, or after a power failure:
\* only its first n bytes are there.
Tear(n) ==
    /\ batch # << >> /\ ~torn
    /\ n < Len(Padding \o Chunk)
    /\ data' = data \o SubSeq(Padding \o Chunk, 1, n)
    /\ torn' = TRUE
    /\ UNCHANGED <<pending, chunks, batch, written>>

Next ==
    \/ \E b \in Batches : Begin(b)
    \/ WriteChunk
    \/ \E n \in 1 .. 2 * BlockBytes : Tear(n)

Spec == Init /\ [][Next]_vars

-----------------------------------------------------------------------------

Read == ParseLevelDBLog(data)

\* Wherever records are cut by blocks and wherever the log ends, a reading that
\* succeeds gives the rows of the records that are wholly there, in their order:
\* no fragment is lost, doubled or put together with another record's.
ReadsWhatIsWhole == Read.ok => Read.rows = written

\* Reading fails, and with it the start of the dashboard, only when the file ends
\* within a chunk: never between two writes, also when a record is half written.
ReadableBetweenWrites == ~torn => Read.ok
=============================================================================

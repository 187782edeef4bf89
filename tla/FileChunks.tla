----------------------------- MODULE FileChunks -----------------------------
(***************************************************************************)
(* From a file on one disk to a file on the other, byte by byte: Chunker,  *)
(* the Merkle tree of the offer, the verification in receiveChunks and     *)
(* reassemble.  The file may be edited between any two reads.  The order   *)
(* and the repetition of chunks are those of module FileTransfer: any.     *)
(***************************************************************************)
EXTENDS Merkle, FiniteSets

CONSTANTS
  Bytes,        \* values of a byte
  MaxSize,      \* bound: longest file
  ChunkSizes,   \* chunk sizes tried
  MaxEdits      \* bound: times the file is edited

ASSUME ChunksAssumption == MaxSize \in Nat \ {0} /\ ChunkSizes \subseteq Nat \ {0}

VARIABLES
  disk,       \* the sender's file now
  edits,      \* times it was edited
  chunkSize, total,   \* Chunker
  read,       \* the chunks AllChunkHashes has read
  tree,       \* BuildMerkleTree of their hashes
  chunks,     \* receiver: chunks[index] of the chunks kept
  out,        \* the file reassembled
  pc

chunkVars == <<disk, edits, chunkSize, total, read, tree, chunks, out, pc>>

Files == UNION {[1 .. n -> Bytes] : n \in 0 .. MaxSize}
NoTree == [leaves |-> <<>>]

\* Mutant of TotalChunks: the last, shorter chunk is forgotten.
MutTotalChunks(size, chunk) == IF size < chunk THEN 1 ELSE size \div chunk

TotalChunks(size, chunk) == (size + chunk - 1) \div chunk

ChunksInit ==
  /\ disk \in Files \ {<<>>}
  /\ chunkSize \in ChunkSizes
  /\ total = TotalChunks(Len(disk), chunkSize)
  /\ edits = 0
  /\ read = <<>>
  /\ tree = NoTree
  /\ chunks = <<>>
  /\ out = <<>>
  /\ pc = "hashing"

\* ReadChunk reads a full chunk or what is left; nothing left is an error.
Readable(i) == i * chunkSize < Len(disk)

ReadChunk(i) ==
  LET end == (i + 1) * chunkSize
  IN  SubSeq(disk, i * chunkSize + 1, IF end < Len(disk) THEN end ELSE Len(disk))

\* AllChunkHashes, one chunk at a time.
HashChunk ==
  /\ pc = "hashing"
  /\ Len(read) < total
  /\ IF Readable(Len(read))
       THEN read' = Append(read, ReadChunk(Len(read))) /\ UNCHANGED pc
       ELSE pc' = "failed" /\ UNCHANGED read
  /\ UNCHANGED <<disk, edits, chunkSize, total, tree, chunks, out>>

Offer ==
  /\ pc = "hashing"
  /\ Len(read) = total
  /\ tree' = BuildMerkleTree([i \in 1 .. total |-> Sha256(read[i])])
  /\ pc' = "sending"
  /\ UNCHANGED <<disk, edits, chunkSize, total, read, chunks, out>>

\* Mutant of Accepts: the hash of the chunk is checked, its place is not.
MutAccepts(i, data) == Sha256(data) \in Range(tree.leaves)

\* The chunk's own hash, and the proof of the tree built at the offer.
Accepts(i, data) == VerifyProof(Sha256(data), i, Proof(tree, i), Root(tree))

\* sendOneChunk reads the chunk again; receiveChunks keeps what it accepts.
SendChunk(i) ==
  /\ pc = "sending"
  /\ IF Readable(i)
       THEN /\ chunks' = IF Accepts(i, ReadChunk(i))
                           THEN [k \in DOMAIN chunks \cup {i} |->
                                   IF k = i THEN ReadChunk(i) ELSE chunks[k]]
                           ELSE chunks
            /\ UNCHANGED pc
       ELSE pc' = "failed" /\ UNCHANGED chunks
  /\ UNCHANGED <<disk, edits, chunkSize, total, read, tree, out>>

Reassemble ==
  /\ pc = "sending"
  /\ Cardinality(DOMAIN chunks) = total
  /\ out' = FlattenSeq([i \in 1 .. total |-> chunks[i - 1]])
  /\ pc' = "saved"
  /\ UNCHANGED <<disk, edits, chunkSize, total, read, tree, chunks>>

EditDisk ==
  /\ pc \in {"hashing", "sending"}
  /\ edits < MaxEdits
  /\ disk' \in Files \ {disk}
  /\ edits' = edits + 1
  /\ UNCHANGED <<chunkSize, total, read, tree, chunks, out, pc>>

ChunksNext == HashChunk \/ Offer \/ (\E i \in 0 .. total - 1 : SendChunk(i)) \/ Reassemble \/ EditDisk

ChunksSpec == ChunksInit /\ [][ChunksNext]_chunkVars

----------------------------------------------------------------------------
(* Properties *)

\* The file saved is, byte for byte, the one the offer's root was computed
\* from, also when the sender's file is edited half way.
SavedAsHashed == pc = "saved" => out = FlattenSeq(read)

\* Without an edit the saved file is the sender's file: chunking and
\* reassembly lose and repeat nothing, whatever the size of the last chunk.
RoundTrip == pc = "saved" /\ edits = 0 => out = disk

\* The root, computed bottom-up in the heap, is that of the padded leaves
\* taken by halves, and changes with every chunk.
RootCommits ==
  pc = "sending" =>
    /\ Root(tree) = RootOf(tree.leaves)
    /\ \A i \in 1 .. total, b \in Bytes :
         LET other == [tree.leaves EXCEPT ![i] = Sha256(<<b>>)]
         IN  other # tree.leaves => Root(BuildMerkleTree(other)) # Root(tree)
=============================================================================

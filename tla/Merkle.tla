------------------------------- MODULE Merkle -------------------------------
(***************************************************************************)
(* The hash tree of an offered file (internal/filetransfer/merkle.go).     *)
(* SHA-256 is a free constructor: equal hashes have equal inputs, and the  *)
(* hash of a chunk is never that of a pair.                                *)
(***************************************************************************)
EXTENDS Naturals, Sequences, SequencesExt

Sha256(data) == [chunk |-> data]
hashPair(left, right) == [left |-> left, right |-> right]

\* One doubled n times, as the loops over size and leafStart do.
Pow2(n) ==
  LET doubled[k \in 0 .. n] == IF k = 0 THEN 1 ELSE 2 * doubled[k - 1] IN doubled[n]

\* Mutant of LeafStart: rounds down.
MutLeafStart(n) == Pow2(CHOOSE k \in 1 .. n : Pow2(k + 1) > n /\ (k = 1 \/ Pow2(k) <= n))

\* The next power of two, at least two.
LeafStart(n) == Pow2(CHOOSE k \in 1 .. n : Pow2(k) >= n /\ (k = 1 \/ Pow2(k - 1) < n))

\* Heap layout: the root at 1, the children of i at 2i and 2i+1.
BuildMerkleTree(hashes) ==
  LET n == Len(hashes)
      size == LeafStart(n)
      nodes[i \in 1 .. 2 * size - 1] ==
        IF i < size THEN hashPair(nodes[2 * i], nodes[2 * i + 1])
                    ELSE hashes[IF i - size < n THEN i - size + 1 ELSE n]
  IN  [leaves |-> hashes, nodes |-> nodes, leafStart |-> size]

Root(tree) == tree.nodes[1]

Sibling(pos) == IF pos % 2 = 0 THEN pos + 1 ELSE pos - 1

Depth(size) == CHOOSE k \in 1 .. size : Pow2(k) = size

\* The position k levels above pos: pos /= 2 at every level.
Above(pos, k) ==
  LET up[j \in 0 .. k] == IF j = 0 THEN pos ELSE up[j - 1] \div 2 IN up[k]

\* The siblings on the way from leaf i to the root.
Proof(tree, i) ==
  [k \in 1 .. Depth(tree.leafStart) |->
     tree.nodes[Sibling(Above(tree.leafStart + i, k - 1))]]

VerifyProof(hash, i, proof, root) ==
  LET leaf == Pow2(Len(proof)) + i
      current[k \in 0 .. Len(proof)] ==
        IF k = 0 THEN hash
        ELSE IF Above(leaf, k - 1) % 2 = 0 THEN hashPair(current[k - 1], proof[k])
                                           ELSE hashPair(proof[k], current[k - 1])
  IN  current[Len(proof)] = root

\* Reference: the root of the padded leaves, by halves.
RootOf(hashes) ==
  LET Leaf(i) == hashes[IF i < Len(hashes) THEN i + 1 ELSE Len(hashes)]
      half[k \in 0 .. Len(hashes)] ==
        [lo \in Nat |-> IF k = 0 THEN Leaf(lo)
                        ELSE hashPair(half[k - 1][lo], half[k - 1][lo + Pow2(k - 1)])]
      depth == CHOOSE k \in 1 .. Len(hashes) :
                 Pow2(k) >= Len(hashes) /\ \A j \in 1 .. k - 1 : Pow2(j) < Len(hashes)
  IN  half[depth][0]
=============================================================================

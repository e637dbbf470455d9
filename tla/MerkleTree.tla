----------------------------- MODULE MerkleTree -----------------------------
(***************************************************************************)
(* storage/merkle_batcher.py: the hashes not yet in a batch, and the root  *)
(* of a batch.  SHA-256 does not collide, so a hash is what was hashed: a  *)
(* leaf and an inner node carry their prefixes 0x00 and 0x01.              *)
(***************************************************************************)
EXTENDS SequencesExt, Naturals

Leaf(h) == <<"0x00", h>>
Node(l, r) == <<"0x01", l, r>>

\* A level of odd length repeats its last hash.
Even(level) == IF Len(level) % 2 = 1 THEN Append(level, Last(level)) ELSE level

Parents(level) ==
    LET even == Even(level)
    IN  [i \in 1 .. Len(even) \div 2 |-> Node(even[2 * i - 1], even[2 * i])]

\* The root of a sequence of hashes that is not empty.  A level halves, so there
\* are never more levels than hashes.
MerkleRoot(hashes) ==
    LET Up(level, i) == IF Len(level) = 1 THEN level ELSE Parents(level)
    IN  Head(FoldLeft(Up, [i \in DOMAIN hashes |-> Leaf(hashes[i])], hashes))

=============================================================================

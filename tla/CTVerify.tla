------------------------------ MODULE CTVerify ------------------------------
(***************************************************************************)
(* The point-check of a captured certificate against the logs its SCTs     *)
(* name (internal/queue/ctverify.go, internal/scan/ctverify.go).           *)
(*                                                                         *)
(* A hash is the term it hashes, so two hashes are equal only when their   *)
(* inputs are.  An SCT is the log that signed it and where it came from;   *)
(* parsing the DER, TLS and OCSP wrappers is abstracted to whether it      *)
(* succeeds.  A log serves its own tree, may lag behind its promise, and   *)
(* any fetch may fail.                                                     *)
(***************************************************************************)
EXTENDS Integers, FiniteSets, Sequences, SequencesExt

CONSTANTS
    MaxLeaves,   \* bound: leaves of a log's tree
    Tile,        \* CTTileWidth
    SCTKinds     \* the SCTs a certificate may present: [precert, parses, known, tiled]

ASSUME VerifyAssumption == MaxLeaves \in Nat

VARIABLES
    cert,      \* the certificate: its SCTs in order, whether its issuer key was captured,
               \* and the index a log promised its entry
    logTree,      \* the log's leaves: a sequence of TRUE (this certificate's entry) and FALSE
    position,  \* the SCT being checked
    checks,    \* what each log checked so far answered
    verdict

verifyVars == <<cert, logTree, position, checks, verdict>>

-----------------------------------------------------------------------------
(* The Merkle tree of RFC 6962: the reference the log's answers come from. *)

leafHash(i, ours) == << "leaf", IF ours THEN 0 ELSE i + 1 >>
nodeHash(l, r) == << "node", l, r >>

\* The largest power of two below n.
Split(n) == CHOOSE k \in {2^i : i \in 0..MaxLeaves} : k < n /\ 2 * k >= n

\* The hash of the leaves lo..hi (from 0), by the recursive definition.
MTH(leaves) ==
    LET h[r \in {p \in (0..Len(leaves)) \X (0..Len(leaves)) : p[1] < p[2]}] ==
          IF r[2] = r[1] + 1 THEN leafHash(r[1], leaves[r[2]])
          ELSE LET m == r[1] + Split(r[2] - r[1]) IN nodeHash(h[<<r[1], m>>], h[<<m, r[2]>>])
    IN h

Root(leaves) == MTH(leaves)[<<0, Len(leaves)>>]

\* The audit path of a leaf, nearest sibling first.
AuditPath(leaves, index) ==
    LET p[r \in {q \in (0..Len(leaves)) \X (0..Len(leaves)) : q[1] < q[2]}] ==
          IF r[2] = r[1] + 1 THEN << >>
          ELSE LET m == r[1] + Split(r[2] - r[1])
               IN IF index < m THEN Append(p[<<r[1], m>>], MTH(leaves)[<<m, r[2]>>])
                  ELSE Append(p[<<m, r[2]>>], MTH(leaves)[<<r[1], m>>])
    IN p[<<0, Len(leaves)>>]

-----------------------------------------------------------------------------
(* The check of a proof, by the inner and border parts of the path.        *)

Bit(n, i) == (n \div 2^i) % 2

\* bits.Len64(index ^ (size - 1)), and the ones of index above it.
InnerLen(index, size) == CHOOSE k \in 0..MaxLeaves :
    /\ index \div 2^k = (size - 1) \div 2^k
    /\ \A j \in 0..(k - 1) : index \div 2^j # (size - 1) \div 2^j
BorderLen(index, inner) == Cardinality({i \in inner..(inner + MaxLeaves) : Bit(index, i) = 1})

InnerStep(index, i, h, sibling) == IF Bit(index, i) = 0 THEN nodeHash(h, sibling) ELSE nodeHash(sibling, h)

rootFromInclusionProof(hash, index, size, path) ==
    LET inner == InnerLen(index, size)
        step(h, i) == IF i <= inner THEN InnerStep(index, i - 1, h, path[i]) ELSE nodeHash(path[i], h)
    IN IF index < 0 \/ index >= size \/ Len(path) # inner + BorderLen(index, inner)
       THEN << >>
       ELSE FoldLeft(step, hash, [i \in 1..Len(path) |-> i])

VerifyInclusion(hash, index, size, path, root) ==
    rootFromInclusionProof(hash, index, size, path) = root

\* The tile slot a tiled log's leaf would be in, of a head that may be short of it.
LeafHashInTile(hash, index, leaves) ==
    LET base == (index \div Tile) * Tile
        width == IF base + Tile > Len(leaves) THEN Len(leaves) - base ELSE Tile
    IN IF index - base >= width THEN "absent"
       ELSE IF leafHash(index, leaves[index + 1]) = hash THEN "match" ELSE "mismatch"

-----------------------------------------------------------------------------
(* One log's answer.                                                       *)

Ours == << "leaf", 0 >>
LeafHeld(leaves) == \E i \in DOMAIN leaves : leaves[i]
IndexOf(leaves) == CHOOSE i \in 0..(Len(leaves) - 1) : leaves[i + 1]

\* get-sth, then get-proof-by-hash: 404 is the log's denial, anything else that is
\* not a proof of inclusion is an error.
checkRFC(leaves) ==
    {"errored"} \cup
    (IF ~LeafHeld(leaves) THEN {"notFound"}
     ELSE IF VerifyInclusion(Ours, IndexOf(leaves), Len(leaves), AuditPath(leaves, IndexOf(leaves)), Root(leaves))
          THEN {"included"} ELSE {})

checkTiled_ShortIsDenial(leaves, index) ==
    {"errored", IF index >= Len(leaves) THEN "notFound"
                ELSE IF LeafHashInTile(Ours, index, leaves) = "match" THEN "included" ELSE "notFound"}
\* The checkpoint, then the hash tile: a head short of the promised index is doubt.
checkTiled(leaves, index) ==
    {"errored"} \cup
    (IF index >= Len(leaves) \/ LeafHashInTile(Ours, index, leaves) = "absent" THEN {}
     ELSE IF LeafHashInTile(Ours, index, leaves) = "match" THEN {"included"} ELSE {"notFound"})

\* An SCT is checked when it parses, its log is carried, and, for an embedded one,
\* the issuer's key was captured.
Usable(sct) == sct.parses /\ sct.known /\ (sct.precert => cert.issuer)

checkOneLog(sct) == IF sct.tiled THEN checkTiled(logTree, cert.index) ELSE checkRFC(logTree)

\* The verdict when no log included the leaf: an error outranks a denial.
Verdict(answers) ==
    CASE "errored" \in answers -> "unverifiable"
      [] "errored" \notin answers /\ "notFound" \in answers -> "not logged"
      [] OTHER -> "unverifiable"

-----------------------------------------------------------------------------
\* A log holds the entry where it promised it, or broke its promise.
Trees(index) == {t \in UNION {[1..n -> BOOLEAN] : n \in 1..MaxLeaves} : \A i \in DOMAIN t : t[i] => i = index + 1}

VerifyInit ==
    /\ cert \in [scts : {<< >>} \cup {<<a>> : a \in SCTKinds} \cup {<<a, b>> : a, b \in SCTKinds},
                 issuer : BOOLEAN, index : 0..(MaxLeaves - 1)]
    /\ logTree \in Trees(cert.index)
    /\ position = 1 /\ checks = {} /\ verdict = "none"

\* verifyMaterial's loop: an included leaf ends it.
CheckSCT ==
    /\ verdict = "none" /\ position <= Len(cert.scts)
    /\ position' = position + 1
    /\ LET sct == cert.scts[position]
       IN IF ~Usable(sct) THEN UNCHANGED <<checks, verdict>>
          ELSE \E r \in checkOneLog(sct) :
                 /\ checks' = checks \cup {r}
                 /\ verdict' = IF r = "included" THEN "logged" ELSE "none"
    /\ UNCHANGED <<cert, logTree>>

Conclude ==
    /\ verdict = "none" /\ position > Len(cert.scts)
    /\ verdict' = Verdict(checks)
    /\ UNCHANGED <<cert, logTree, position, checks>>

\* emitVerifyEvent: an unverifiable result is silent.
Warns == verdict = "not logged"

\* The tree grows while the certificate is checked.
GrowTree ==
    /\ Len(logTree) < MaxLeaves /\ verdict = "none"
    /\ \E ours \in {b \in BOOLEAN : b => Len(logTree) = cert.index} : logTree' = Append(logTree, ours)
    /\ UNCHANGED <<cert, position, checks, verdict>>

VerifyNext == CheckSCT \/ Conclude \/ GrowTree

VerifySpec == VerifyInit /\ [][VerifyNext]_verifyVars

-----------------------------------------------------------------------------
\* The warning that a certificate is not logged rests on no failed fetch and, from
\* tiled logs, on a head that reached the promised index and shows another entry
\* there: a head still short of its promise never yields it (verifyMaterial).
NoFalseDenial ==
    Warns =>
      /\ "errored" \notin checks
      /\ (\A i \in DOMAIN cert.scts : cert.scts[i].tiled) => Len(logTree) > cert.index /\ ~LeafHeld(logTree)

\* The proof check accepts the entry exactly at its own index with its own path, for
\* every shape of tree, and refuses any other entry's (rootFromInclusionProof).
InclusionExact ==
    \A i \in 0..(Len(logTree) - 1) :
      LET root == Root(logTree) path == AuditPath(logTree, i)
      IN /\ VerifyInclusion(leafHash(i, logTree[i + 1]), i, Len(logTree), path, root)
         /\ \A j \in 0..(Len(logTree) - 1) :
              i # j => /\ ~VerifyInclusion(leafHash(j, logTree[j + 1]), i, Len(logTree), path, root)
                       /\ ~VerifyInclusion(leafHash(i, logTree[i + 1]), j, Len(logTree), path, root)

\* What the verification reports of a certificate is what its logs show, by the
\* fetches it could make and by the proof arithmetic beneath them.
VerdictHonest == NoFalseDenial /\ InclusionExact
=============================================================================

----------------------------- MODULE Registry ------------------------------
(***************************************************************************)
(* The keyless registry paths of internal/proposer: CAIDA's as2org search  *)
(* joined to delegated-stats, and ARIN's entities.  An address is a number *)
(* of a small space and a scope an aligned block of it; the organisation's *)
(* name and how it matches a record are abstracted to the set of records   *)
(* that match.                                                             *)
(***************************************************************************)
EXTENDS Naturals, FiniteSets, Sequences, SequencesExt

CONSTANTS
    AddrBits,       \* the address space is 0 .. 2^AddrBits - 1
    Delegated,      \* delegated-stats: opaque id -> [start, count]
    Records,        \* as2org's records of the organisation
    ASNKey,         \* as2org's asns/: ASN -> opaque id, 0 for none
    Entities,       \* ARIN's entities: [class, nets]
    SearchPage,     \* caidaSearchPageSize
    SearchMaxPages, \* caidaSearchMaxPages
    ASNLegMax,      \* caidaASNLegMaxLookups
    Unheard         \* nothing has been asked

VARIABLE heard      \* the last search, what matched and what it found

-----------------------------------------------------------------------------
(* Blocks. *)

Block(s) == s.base .. (s.base + s.size - 1)
Pow2 == {2^i : i \in 0..AddrBits}
Scopes == {[base |-> b, size |-> z] : b \in 0..(2^AddrBits - 1), z \in Pow2}

\* The largest aligned block at an address, and the largest within a count.
alignmentBlock(a) == CHOOSE z \in Pow2 : a % z = 0 /\ \A y \in Pow2 : y > z => a % y # 0
largestPow2AtMost(n) == CHOOSE z \in Pow2 : z <= n /\ \A y \in Pow2 : y > z => y > n
NextBlock_Unaligned(a, n) == largestPow2AtMost(n)
NextBlock(a, n) == LET x == alignmentBlock(a) y == largestPow2AtMost(n) IN IF x > y THEN y ELSE x

\* A delegated range as the aligned blocks that make it up.
rangeToPrefixes(start, count) ==
    LET step(acc, i) ==
          IF acc.left = 0 THEN acc
          ELSE LET z == NextBlock(acc.at, acc.left)
               IN [at |-> acc.at + z, left |-> acc.left - z,
                   out |-> acc.out \cup {[base |-> acc.at, size |-> z]}]
    IN FoldLeft(step, [at |-> start, left |-> count, out |-> {}], [i \in 1..count |-> i]).out

-----------------------------------------------------------------------------
(* The CAIDA path.  A page tells the total and whether another follows;    *)
(* the search is whole or it is an error.                                  *)

Pages == UNION {[1..n -> [got : 0..SearchPage, next : BOOLEAN]] : n \in 1..SearchMaxPages}

searchRows(total, pages) ==
    LET step(acc, p) ==
          IF acc.at # "more" THEN acc
          ELSE LET have == IF acc.rows + p.got > total THEN total ELSE acc.rows + p.got
               IN [rows |-> have,
                   at |-> CASE have >= total -> "whole"
                            [] have < total /\ (~p.next \/ p.got = 0) -> "failed"
                            [] OTHER -> "more"]
        end == FoldLeft(step, [rows |-> 0, at |-> "more"], pages)
    IN IF end.at = "more" THEN [end EXCEPT !.at = "failed"] ELSE end

\* The ASNs of keyless records that no keyed record already covers.
PendingASNs(rows) ==
    (UNION {r.members : r \in {x \in rows : x.key = 0}}) \ {r.asn : r \in {x \in rows : x.key # 0}}

Failed == [ok |-> FALSE, gap |-> FALSE, ids |-> {}]

\* orgIDs over the rows that match, a failing asns/ lookup failing the path.
orgIDs(rows, lost) ==
    LET pending == PendingASNs(rows)
        ids == ({r.key : r \in rows} \cup {ASNKey[a] : a \in pending}) \ {0}
    IN IF Cardinality(pending) > ASNLegMax \/ pending \cap lost # {} THEN Failed
       ELSE [ok |-> ids # {} \/ rows = {}, gap |-> ids = {} /\ rows # {}, ids |-> ids]

\* What a search for the organisation may answer: the rows read are as many of
\* the matching ones as the pages held.
CaidaAnswers ==
    UNION { LET search == searchRows(Cardinality(m), pages)
            IN { [matched |-> m,
                  result |-> IF search.at # "whole" THEN Failed ELSE orgIDs(rows, lost)] :
                    rows \in {r \in SUBSET m : Cardinality(r) = search.rows} } :
            m \in SUBSET Records, lost \in SUBSET DOMAIN ASNKey, pages \in Pages }

\* The join to delegated-stats, one candidate per block of each range held.
delegations(ids) == UNION {rangeToPrefixes(Delegated[i].start, Delegated[i].count) : i \in ids}

\* The ARIN path: a contact is passed over and an unfetchable entity skipped.
arinPropose(lost) == UNION {e.nets : e \in {x \in Entities \ lost : x.class # "poc"}}
ArinAnswers == {[ok |-> FALSE, nets |-> {}]} \cup {[ok |-> TRUE, nets |-> arinPropose(l)] : l \in SUBSET Entities}

-----------------------------------------------------------------------------
RegistryInit == heard = Unheard

\* One CAIDA search, and a delegated range cut for it.
Ask ==
    \E a \in CaidaAnswers, start \in 0..(2^AddrBits - 1) : \E count \in 1..(2^AddrBits - start) :
      heard' = [matched |-> a.matched, ok |-> a.result.ok, ids |-> a.result.ids,
                start |-> start, count |-> count, blocks |-> rangeToPrefixes(start, count)]

-----------------------------------------------------------------------------
\* An as2org search that reports success found every join key that the matching
\* records lead to, and an organisation it holds is never reported as an absence,
\* however its pages and asns/ lookups come (orgIDs, searchRows).
NothingHidden ==
    heard # Unheard /\ heard.ok =>
      /\ heard.ids = ({r.key : r \in heard.matched} \cup {ASNKey[n] : n \in PendingASNs(heard.matched)}) \ {0}
      /\ heard.matched # {} => heard.ids # {}

\* The candidates cut from a delegated range are aligned, disjoint, and together
\* the range and nothing else, whatever its start and count (rangeToPrefixes).
RangeCovered ==
    heard # Unheard =>
      /\ UNION {Block(b) : b \in heard.blocks} = heard.start..(heard.start + heard.count - 1)
      /\ \A b, c \in heard.blocks : b = c \/ Block(b) \cap Block(c) = {}
      /\ \A b \in heard.blocks : b.base % b.size = 0

\* What a lookup brings is all the registry holds of it and nothing else.
AnswerWhole == NothingHidden /\ RangeCovered
=============================================================================

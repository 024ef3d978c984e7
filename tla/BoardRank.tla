------------------------------ MODULE BoardRank ------------------------------
(***************************************************************************)
(* Fractional ranks (shared/board-rank.ts): a rank is a string of digits   *)
(* whose plain string order is the order of siblings. A drop between two   *)
(* neighbours mints a rank between theirs and renumbers nobody; a mint at  *)
(* the end that would be too long renumbers the group. Strings are         *)
(* sequences of digits 0 .. Base - 1; RankMax is RANK_MAX_LENGTH.          *)
(***************************************************************************)
EXTENDS Naturals, Sequences, SequencesExt, FiniteSets

CONSTANTS Base,         \* Len(DIGITS)
          RankMax,      \* RANK_MAX_LENGTH
          MaxSiblings   \* bound: siblings explored

VARIABLE ranks   \* the ranks of one sibling group, in their order on the screen

NoRank == << >>  \* the open start, the open end

\* Plain string order.
Before(a, b) ==
    \/ IsStrictPrefix(a, b)
    \/ \E n \in 1 .. Len(a) : /\ n <= Len(b) /\ a[n] < b[n]
                              /\ \A k \in 1 .. n - 1 : a[k] = b[k]

isValidRank(r) == Len(r) \in 1 .. RankMax /\ r[Len(r)] # 0

\* Math.round of half a natural number.
RoundHalf(n) == (n + 1) \div 2

\* The digits both ends share, the shorter first end padded with zeroes.
Shared(a, b) ==
    LET at(n) == IF n <= Len(a) THEN a[n] ELSE 0
        same == {n \in 0 .. Len(b) : \A k \in 1 .. n : at(k) = b[k]}
    IN CHOOSE n \in same : \A k \in same : k <= n

DropFirst(s, n) == SubSeq(s, n + 1, Len(s))

RECURSIVE midpoint(_, _)
midpoint(a, b) ==
    LET n == IF b = NoRank THEN 0 ELSE Shared(a, b)
        digitA == IF a = << >> THEN 0 ELSE a[1]
        digitB == IF b = NoRank THEN Base ELSE b[1]
    IN CASE n > 0                        -> SubSeq(b, 1, n) \o midpoint(DropFirst(a, n), DropFirst(b, n))
         [] n = 0 /\ digitB - digitA > 1 -> <<RoundHalf(digitA + digitB)>>
         [] n = 0 /\ digitB - digitA <= 1 /\ b # NoRank /\ Len(b) > 1 -> <<b[1]>>
         [] OTHER                        -> <<digitA>> \o midpoint(DropFirst(a, 1), NoRank)

rankBetween(a, b) == midpoint(a, b)

\* The digits of a slot, most significant first, without trailing zeroes.
Digits(slot, width) == [d \in 1 .. width |-> (slot \div Base ^ (width - d)) % Base]
Stripped(r) ==
    SubSeq(r, 1, CHOOSE n \in 0 .. Len(r) : /\ \A k \in n + 1 .. Len(r) : r[k] = 0
                                            /\ n > 0 => r[n] # 0)
rebalanceRanks(count) ==
    LET width == CHOOSE w \in 1 .. count + 2 : /\ Base ^ w > count + 1
                                               /\ \A v \in 1 .. w - 1 : Base ^ v <= count + 1
        slots == Base ^ width
    IN [i \in 1 .. count |-> Stripped(Digits((i * slots) \div (count + 1), width))]

\* Mutant: the rank minted at the end is used whatever its length.
placeAtEndUnchecked(group) ==
    Append(group, rankBetween(IF group = << >> THEN NoRank ELSE Last(group), NoRank))

\* placeAtEnd: the rank of a fresh last member and the group as it must be
\* rewritten with it.
placeAtEnd(group) ==
    LET minted == rankBetween(IF group = << >> THEN NoRank ELSE Last(group), NoRank)
        fresh == rebalanceRanks(Len(group))
    IN IF isValidRank(minted) THEN Append(group, minted)
       ELSE Append(fresh, rankBetween(Last(fresh), NoRank))

RankInit == ranks = << >>

\* A new entry goes to the end of its group.
PlaceAtEnd == Len(ranks) < MaxSiblings /\ ranks' = placeAtEnd(ranks)

\* A drop between two neighbours, or before the first; the write is refused
\* (bad_rank) when the mint is too long.
Drop ==
    \E i \in 1 .. Len(ranks) :
        LET minted == rankBetween(IF i = 1 THEN NoRank ELSE ranks[i - 1], ranks[i])
        IN /\ Len(ranks) < MaxSiblings /\ isValidRank(minted)
           /\ ranks' = InsertAt(ranks, i, minted)

Leave == \E i \in 1 .. Len(ranks) : ranks' = RemoveAt(ranks, i)

RankNext == PlaceAtEnd \/ Drop \/ Leave

-----------------------------------------------------------------------------
\* However entries come, are dropped between others and leave, the string order
\* of the ranks is the order on the screen, so no two are equal, and every rank
\* passes the check of the Router and of the wire schema.
RanksOrdered ==
    /\ \A i \in 1 .. Len(ranks) - 1 : Before(ranks[i], ranks[i + 1])
    /\ \A i \in 1 .. Len(ranks) : isValidRank(ranks[i])
=============================================================================

-------------------------- MODULE NonceSpaceProofs ---------------------------
(***************************************************************************)
(* Theorems about the tables and the correction of NonceSpace: the masks    *)
(* of the table give every chip at a polled id a share of its own and leave *)
(* no nonce out, and the correction of a reported nonce permutes the nonces *)
(* of a share, whatever the build flag and the size of the window.          *)
(***************************************************************************)
EXTENDS NonceSpace, TLAPS

\* Subtracting at most M modulo M, written without a division.
LEMMA Borrow ==
    ASSUME NEW M \in Nat \ {0}, NEW x \in -M .. M - 1
    PROVE  x % M = IF x >= 0 THEN x ELSE x + M
<1>1. CASE x >= 0
  BY <1>1, SMT
<1>2. CASE x < 0
  BY <1>2, SMT
<1> QED BY <1>1, <1>2

\* The offset of the FPGA build is a matter of the bits below the window only.
LEMMA OffsetRange ==
    ASSUME NEW raw
    PROVE  Offset(raw) \in {2, 3}
BY DEF Offset

\* The identifiers chips are fitted at, for each count of the table.
FittedIds(nchips) == {c \in ChipIds : c % (64 \div nchips) = 0}

\* What the mask of the table keeps of a board and of an id.
LEMMA TableMask ==
    ASSUME NEW nboards \in BoardCounts, NEW nchips \in ChipCounts
    PROVE  LET mask == bnt_get_nonce_mask(nboards, nchips) IN
           (mask \div 64) + 1 = nboards /\ 64 - (mask % 64) = 64 \div nchips
<1> DEFINE mask == bnt_get_nonce_mask(nboards, nchips)
<1>1. mask = BoardMask(nboards) + (64 - 64 \div nchips)
  BY DEF bnt_get_nonce_mask, ChipMask
<1>2. /\ BoardMask(nboards) = 64 * (nboards - 1)
      /\ 64 \div nchips \in 1 .. 64
  BY SMT DEF BoardMask, BoardCounts, ChipCounts
<1> QED BY <1>1, <1>2, SMT DEF BoardCounts, ChipCounts

\* The mask of the table leaves <<board, chip>> as it is: with 1, 2 or 4
\* boards and 2^i chips each, no two fitted chips search the same nonces.
THEOREM SharesAreOwn ==
    ASSUME NEW nboards \in BoardCounts, NEW nchips \in ChipCounts,
           NEW b \in 0 .. nboards - 1, NEW c \in FittedIds(nchips)
    PROVE  ShareOf(b, c, bnt_get_nonce_mask(nboards, nchips)) = <<b, c>>
<1>1. b % nboards = b /\ c - (c % (64 \div nchips)) = c
  BY SMT DEF BoardCounts, FittedIds, ChipIds, MAX_NCHIPS_PER_BOARD
<1> QED BY <1>1, TableMask DEF ShareOf

\* Every nonce is searched: whatever its top bits are, what the mask of the
\* table leaves of them is the share of a chip that is fitted and polled.
THEOREM SharesCoverAll ==
    ASSUME NEW nboards \in BoardCounts, NEW nchips \in ChipCounts,
           NEW b \in Boards, NEW c \in ChipIds
    PROVE  LET mask == bnt_get_nonce_mask(nboards, nchips) IN
           \E b1 \in 0 .. nboards - 1, c1 \in FittedIds(nchips) \cap Polled(nchips) :
               ShareOf(b, c, mask) = ShareOf(b1, c1, mask)
<1> DEFINE mask == bnt_get_nonce_mask(nboards, nchips)
           b1 == b % nboards
           c1 == c - (c % (64 \div nchips))
<1>1. ShareOf(b, c, mask) = <<b1, c1>>
  BY TableMask DEF ShareOf
<1>2. b1 \in 0 .. nboards - 1
  BY SMT DEF BoardCounts, Boards, MAX_NBOARDS
<1>3. c1 \in FittedIds(nchips)
  BY SMT DEF ChipCounts, FittedIds, ChipIds, MAX_NCHIPS_PER_BOARD
<1>4. FittedIds(nchips) \subseteq Polled(nchips)
  BY SMT DEF ChipCounts, FittedIds, Polled, IdStep, ChipIds, MAX_NCHIPS_PER_BOARD
<1>5. ShareOf(b1, c1, mask) = <<b1, c1>>
  <2> HIDE DEF b1, c1
  <2> QED BY <1>2, <1>3, SharesAreOwn
<1> QED BY <1>1, <1>2, <1>3, <1>4, <1>5

\* What is subtracted from the window, and what is left in it.
Ahead(raw, mask) == IF EightEngines(mask) THEN Offset(raw) ELSE 1
Back(raw, mask) ==
    IF raw.mid >= Ahead(raw, mask)
    THEN raw.mid - Ahead(raw, mask)
    ELSE raw.mid - Ahead(raw, mask) + MidSize

\* The correction under a mask of the table, field by field.
LEMMA CorrectionShape ==
    ASSUME NEW mask \in DOMAIN TotalChips, NEW shares,
           NEW raw \in RawNonces(mask, shares)
    PROVE  /\ Ahead(raw, mask) \in 1 .. 3
           /\ bnt_get_realnonce(raw, mask) =
                [share |-> raw.share, mid |-> Back(raw, mask), low |-> raw.low]
<1> DEFINE mid == raw.mid - Ahead(raw, mask)
<1>1. Ahead(raw, mask) \in 1 .. 3
  BY OffsetRange DEF Ahead
<1>2. /\ raw = [share |-> raw.share, mid |-> raw.mid, low |-> raw.low]
      /\ raw.mid \in 0 .. MidSize - 1
  BY DEF RawNonces
<1>3. mid \in -MidSize .. MidSize - 1
  BY <1>1, <1>2, MidSizeAssumption
<1>4. mid % MidSize = IF mid >= 0 THEN mid ELSE mid + MidSize
  <2> HIDE DEF mid
  <2> QED BY <1>3, Borrow, MidSizeAssumption
<1>5. mid % MidSize = Back(raw, mask)
  BY <1>1, <1>2, <1>4, MidSizeAssumption DEF Back
<1>6. bnt_get_realnonce(raw, mask) = [raw EXCEPT !.mid = mid % MidSize]
  BY Zenon DEF bnt_get_realnonce, Ahead
<1> HIDE DEF mid
<1> QED BY <1>1, <1>2, <1>5, <1>6

\* Two different reports never come out as the same nonce.  Two windows that
\* coincide after the correction had the same bits below them, so the same
\* was subtracted from both.
THEOREM CorrectionOneToOne ==
    ASSUME NEW mask, NEW shares,
           NEW r \in RawNonces(mask, shares), NEW s \in RawNonces(mask, shares),
           bnt_get_realnonce(r, mask) = bnt_get_realnonce(s, mask)
    PROVE  r = s
<1>1. CASE mask \notin DOMAIN TotalChips
  BY <1>1, Zenon DEF bnt_get_realnonce
<1>2. CASE mask \in DOMAIN TotalChips
  <2>1. /\ Ahead(r, mask) \in 1 .. 3
        /\ [share |-> r.share, mid |-> Back(r, mask), low |-> r.low] =
           [share |-> s.share, mid |-> Back(s, mask), low |-> s.low]
    BY <1>2, CorrectionShape
  <2>2. r.share = s.share /\ Back(r, mask) = Back(s, mask) /\ r.low = s.low
    BY <2>1
  <2>3. Ahead(r, mask) = Ahead(s, mask)
    BY <2>2 DEF Ahead, Offset
  <2>4. /\ r.mid \in 0 .. MidSize - 1
        /\ s.mid \in 0 .. MidSize - 1
    BY DEF RawNonces
  <2>5. r.mid = s.mid
    BY <2>1, <2>2, <2>3, <2>4, MidSizeAssumption DEF Back
  <2> QED BY <2>2, <2>5 DEF RawNonces
<1> QED BY <1>1, <1>2

\* No nonce is out of reach: each is the correction of some report of its share.
\* With CorrectionOneToOne the correction permutes the nonces of a share.
THEOREM CorrectionReachesAll ==
    ASSUME NEW mask, NEW shares, NEW n \in RawNonces(mask, shares)
    PROVE  \E r \in RawNonces(mask, shares) : bnt_get_realnonce(r, mask) = n
<1>1. CASE mask \notin DOMAIN TotalChips
  BY <1>1, Zenon DEF bnt_get_realnonce
<1>2. CASE mask \in DOMAIN TotalChips
  <2> DEFINE ahead == Ahead(n, mask)
             mid == IF n.mid + ahead < MidSize THEN n.mid + ahead
                    ELSE n.mid + ahead - MidSize
             r == [share |-> n.share, mid |-> mid, low |-> n.low]
  <2>1. ahead \in 1 .. 3
    BY OffsetRange DEF Ahead
  <2>2. /\ n = [share |-> n.share, mid |-> n.mid, low |-> n.low]
        /\ n.share \in shares /\ n.mid \in 0 .. MidSize - 1
        /\ n.low \in 0 .. LowSize(mask) - 1
    BY DEF RawNonces
  <2>3. mid \in 0 .. MidSize - 1
    <3> HIDE DEF ahead
    <3> QED BY <2>1, <2>2, MidSizeAssumption
  <2>4. r \in RawNonces(mask, shares)
    <3> HIDE DEF mid
    <3> QED BY <2>2, <2>3 DEF RawNonces
  <2>5. Ahead(r, mask) = ahead
    BY DEF Ahead, Offset
  <2>6. Back(r, mask) = n.mid
    <3>1. r.mid = mid
      OBVIOUS
    <3> HIDE DEF r, ahead
    <3> QED BY <2>1, <2>2, <2>5, <3>1, MidSizeAssumption DEF Back
  <2>7. r.share = n.share /\ r.low = n.low
    OBVIOUS
  <2> HIDE DEF r
  <2> QED BY <1>2, <2>2, <2>4, <2>6, <2>7, CorrectionShape
<1> QED BY <1>1, <1>2
=============================================================================

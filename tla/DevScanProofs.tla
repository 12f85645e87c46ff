---------------------------- MODULE DevScanProofs ----------------------------
(***************************************************************************)
(* What the scan of the boards finds out, for any sets of chips the boards  *)
(* may be fitted with and any number of lost greetings.                     *)
(*                                                                          *)
(* While nothing is lost, the boards counted are those that answer before   *)
(* the first without a device node, and the boards opened are all that      *)
(* answer.  So the two differ only where one that answers lies behind such  *)
(* a gap.                                                                   *)
(***************************************************************************)
EXTENDS DevScan, NonceSpaceProofs, FiniteSetTheorems

Answers(b) == b \in nodes /\ 0 \in pop[b]
AnswerBefore(n) == {b \in Boards : Answers(b) /\ b < n}

\* What the options allow: auto starts from nothing, the scan stays behind its
\* board.
Counted ==
    /\ pc = "scan" => auto /\ nboards <= board
    /\ nboards \in 0 .. MAX_NBOARDS /\ nchips \in 0 .. MAX_NCHIPS_PER_BOARD

\* The counts of a scan that got to board n.
CountsUpTo(n) ==
    /\ \A b \in Boards : b < n => b \in nodes
    /\ nboards = Cardinality(AnswerBefore(n))
    /\ nchips = IF n > 0 /\ Answers(0) THEN Cardinality(pop[0]) ELSE 0

\* The scan has ended at board n.
EndedAt(n) == n \notin nodes /\ CountsUpTo(n)

Clean == auto /\ faults = 0 =>
    /\ pc = "scan" => CountsUpTo(board) /\ open = {}
    /\ pc \in {"open", "ready"} => \E n \in 0 .. MAX_NBOARDS : EndedAt(n)
    /\ pc = "open" => open = AnswerBefore(board)
    /\ pc = "ready" =>
         /\ open = AnswerBefore(MAX_NBOARDS)
         /\ nboards > 0 /\ nchips > 0 => mask = bnt_get_nonce_mask(nboards, nchips)

\* Boards without a device node have no chips.
NoNodeNoChips == \A b \in Boards \ nodes : pop[b] = {}

IInv == TypeOK /\ Counted /\ NoNodeNoChips /\ Clean

-----------------------------------------------------------------------------
LEMMA Sizes ==
    /\ MAX_NBOARDS = 4 /\ MAX_NCHIPS_PER_BOARD = 64
    /\ Boards = 0 .. 3 /\ ChipIds = 0 .. 63
  BY DEF MAX_NBOARDS, MAX_NCHIPS_PER_BOARD, Boards, ChipIds

LEMMA ChipSets ==
    ASSUME NEW S \in SUBSET ChipIds
    PROVE  IsFiniteSet(S) /\ Cardinality(S) \in 0 .. 64
<1>1. /\ IsFiniteSet(0 .. 63)
      /\ Cardinality(0 .. 63) = IF 0 > 63 THEN 0 ELSE 63 - 0 + 1
  BY 0 \in Int /\ 63 \in Int, FS_Interval, Zenon
<1>2. Cardinality(0 .. 63) = 64
  BY <1>1
<1>3. S \in SUBSET (0 .. 63)
  BY Sizes
<1>4. IsFiniteSet(S) /\ Cardinality(S) <= Cardinality(0 .. 63)
  BY <1>1, <1>3, FS_Subset, Zenon
<1>5. Cardinality(S) \in Nat
  BY <1>4, FS_CardinalityType, Zenon
<1> QED BY <1>2, <1>4, <1>5

LEMMA BoardSets ==
    ASSUME NEW S \in SUBSET Boards
    PROVE  IsFiniteSet(S) /\ Cardinality(S) \in 0 .. 4
<1>1. /\ IsFiniteSet(0 .. 3)
      /\ Cardinality(0 .. 3) = IF 0 > 3 THEN 0 ELSE 3 - 0 + 1
  BY 0 \in Int /\ 3 \in Int, FS_Interval, Zenon
<1>2. Cardinality(0 .. 3) = 4
  BY <1>1
<1>3. S \in SUBSET (0 .. 3)
  BY Sizes
<1>4. IsFiniteSet(S) /\ Cardinality(S) <= Cardinality(0 .. 3)
  BY <1>1, <1>3, FS_Subset, Zenon
<1>5. Cardinality(S) \in Nat
  BY <1>4, FS_CardinalityType, Zenon
<1> QED BY <1>2, <1>4, <1>5

LEMMA MaskRange ==
    ASSUME NEW nb \in Nat, NEW nc \in Nat
    PROVE  bnt_get_nonce_mask(nb, nc) \in 0 .. 255
<1>1. CASE nb \in BoardCounts /\ nc \in ChipCounts
  <2>1. BoardMask(nb) \in 0 .. 192
    BY <1>1 DEF BoardMask, BoardCounts
  <2>2. ChipMask(nc) \in 0 .. 63
    BY <1>1 DEF ChipMask, ChipCounts
  <2> QED BY <1>1, <2>1, <2>2 DEF bnt_get_nonce_mask
<1>2. CASE ~(nb \in BoardCounts /\ nc \in ChipCounts)
  BY <1>2 DEF bnt_get_nonce_mask
<1> QED BY <1>1, <1>2

\* A loss is counted, and nothing is lost where nothing is counted.
LEMMA LostFacts ==
    ASSUME faults \in 0 .. MaxFaults, NEW S \in SUBSET ChipIds, Lost(S)
    PROVE  /\ faults' \in 0 .. MaxFaults
           /\ faults' = 0 => faults = 0 /\ S = {}
<1>1. IsFiniteSet(S) /\ Cardinality(S) \in Nat
  BY ChipSets
<1>2. faults' \in 0 .. MaxFaults /\ (faults' = 0 => faults = 0 /\ Cardinality(S) = 0)
  BY <1>1, FaultsAssumption DEF Lost
<1> QED BY <1>1, <1>2, FS_EmptySet

\* One board more.
LEMMA CountOne ==
    ASSUME NEW n \in Boards, nodes \subseteq Boards
    PROVE  /\ AnswerBefore(n + 1) =
                 IF Answers(n) THEN AnswerBefore(n) \cup {n} ELSE AnswerBefore(n)
           /\ Cardinality(AnswerBefore(n + 1)) =
                 Cardinality(AnswerBefore(n)) + (IF Answers(n) THEN 1 ELSE 0)
           /\ Cardinality(AnswerBefore(n)) \in Nat
<1>1. \A b \in Boards : b < n + 1 <=> b < n \/ b = n
  BY Sizes
<1>2. AnswerBefore(n + 1) =
         IF Answers(n) THEN AnswerBefore(n) \cup {n} ELSE AnswerBefore(n)
  BY <1>1 DEF AnswerBefore
<1>3. IsFiniteSet(AnswerBefore(n)) /\ Cardinality(AnswerBefore(n)) \in Nat
  BY BoardSets DEF AnswerBefore
<1>4. n \notin AnswerBefore(n)
  BY Sizes DEF AnswerBefore
<1> QED BY <1>2, <1>3, <1>4, FS_AddElement

LEMMA InitInvariant == Init => IInv
<1> SUFFICES ASSUME Init PROVE IInv
  OBVIOUS
<1>1. /\ nodes \in SUBSET Boards /\ pop \in [Boards -> Layouts]
      /\ board = 0 /\ faults = 0 /\ open = {} /\ mask = 0
      /\ pc \in {"scan", "open"} /\ auto \in BOOLEAN
      /\ NoNodeNoChips
  BY DEF Init, NoNodeNoChips
<1>2. nboards \in 0 .. 4 /\ nchips \in 0 .. 64
  <2>1. \A o \in Options : o[1] \in {0, 1, 2, 4} /\ o[2] \in 0 .. 64
    BY OptionsAssumption DEF LegalBoards, LegalChips, BoardCounts, ChipCounts
  <2> QED BY <2>1 DEF Init
<1>3. TypeOK
  <2>1. pop \in [Boards -> SUBSET ChipIds]
    BY <1>1, LayoutsAssumption
  <2>2. faults \in 0 .. MaxFaults
    BY <1>1, FaultsAssumption
  <2>3. /\ board \in 0 .. MAX_NBOARDS /\ mask \in 0 .. 255
        /\ nboards \in 0 .. MAX_NBOARDS /\ nchips \in 0 .. MAX_NCHIPS_PER_BOARD
    BY <1>1, <1>2, Sizes
  <2> QED BY <1>1, <2>1, <2>2, <2>3 DEF TypeOK
<1>4. Counted
  BY <1>1, <1>2, Sizes DEF Init, Counted
<1>5. Clean
  <2> SUFFICES ASSUME auto PROVE pc = "scan" /\ CountsUpTo(0) /\ open = {}
    BY <1>1 DEF Clean
  <2>1. pc = "scan" /\ nboards = 0 /\ nchips = 0
    BY DEF Init
  <2>2. AnswerBefore(0) = {}
    BY Sizes DEF AnswerBefore
  <2>3. Cardinality(AnswerBefore(0)) = 0
    BY <2>2, FS_EmptySet
  <2>4. \A b \in Boards : ~(b < 0)
    BY Sizes
  <2> QED BY <1>1, <2>1, <2>3, <2>4 DEF CountsUpTo
<1> QED BY <1>1, <1>3, <1>4, <1>5 DEF IInv

-----------------------------------------------------------------------------
\* What the steps of the scan have in common: the counts go on by one board.
LEMMA SameWorld ==
    ASSUME UNCHANGED world
    PROVE  /\ nodes' = nodes /\ pop' = pop /\ auto' = auto
           /\ NoNodeNoChips => NoNodeNoChips'
           /\ \A b : Answers(b)' <=> Answers(b)
           /\ \A n : AnswerBefore(n)' = AnswerBefore(n)
  BY DEF world, NoNodeNoChips, Answers, AnswerBefore

LEMMA ScanBoardInvariant == ASSUME IInv, ScanBoard PROVE IInv'
<1> PICK lost \in SUBSET pop[board] :
         /\ Lost(lost)
         /\ nchips' = IF board = 0 THEN Cardinality(pop[board] \ lost) ELSE nchips
  BY DEF ScanBoard
<1>1. /\ pc = "scan" /\ board \in nodes /\ 0 \in pop[board]
      /\ nboards' = nboards + 1 /\ board' = board + 1
      /\ UNCHANGED <<world, pc, open, mask>>
  BY DEF ScanBoard, Hello
<1>2. /\ TypeOK /\ Counted /\ NoNodeNoChips /\ Clean
      /\ nodes \subseteq Boards /\ board \in 0 .. 3 /\ board \in Boards
      /\ pop[board] \in SUBSET ChipIds /\ faults \in 0 .. MaxFaults
      /\ nboards \in 0 .. 4 /\ nboards <= board /\ nchips \in 0 .. 64
  BY <1>1, Sizes DEF IInv, TypeOK, Counted
<1>3. faults' \in 0 .. MaxFaults /\ (faults' = 0 => faults = 0 /\ lost = {})
  BY <1>2, LostFacts
<1>4. nchips' \in 0 .. 64
  <2>1. Cardinality(pop[board] \ lost) \in 0 .. 64
    BY <1>2, ChipSets
  <2> QED BY <1>2, <2>1
<1>5. TypeOK'
  <2>1. board' \in 0 .. MAX_NBOARDS /\ nboards' \in 0 .. MAX_NBOARDS
    BY <1>1, <1>2, Sizes
  <2> QED BY <1>1, <1>2, <1>3, <1>4, <2>1, Sizes, SameWorld DEF TypeOK
<1>6. Counted'
  BY <1>1, <1>2, <1>4, Sizes, SameWorld DEF Counted
<1>7. ASSUME auto, faults' = 0
      PROVE  CountsUpTo(board)'
  <2>1. CountsUpTo(board)
    BY <1>1, <1>2, <1>3, <1>7 DEF Clean
  <2>2. \A b \in Boards : b < board + 1 => b \in nodes
    BY <1>1, <1>2, <2>1, Sizes DEF CountsUpTo
  <2>3. Answers(board)
    BY <1>1 DEF Answers
  <2>4. nboards' = Cardinality(AnswerBefore(board + 1))
    BY <1>1, <1>2, <2>1, <2>3, CountOne DEF CountsUpTo
  <2>5. nchips' = IF Answers(0) THEN Cardinality(pop[0]) ELSE 0
    <3>1. CASE board = 0
      BY <1>3, <1>7, <2>3, <3>1
    <3>2. CASE board # 0
      <4>1. nchips = IF Answers(0) THEN Cardinality(pop[0]) ELSE 0
        BY <1>2, <2>1, <3>2 DEF CountsUpTo
      <4> QED BY <3>2, <4>1
    <3> QED BY <3>1, <3>2
  <2> QED BY <1>1, <1>2, <2>2, <2>4, <2>5, SameWorld DEF CountsUpTo
<1>8. Clean'
  BY <1>1, <1>2, <1>3, <1>7, SameWorld DEF Clean
<1> QED BY <1>1, <1>2, <1>5, <1>6, <1>8, SameWorld DEF IInv

LEMMA ScanEmptyInvariant == ASSUME IInv, ScanEmpty PROVE IInv'
<1> PICK lost \in SUBSET {0} : Lost(lost) /\ ~Hello(board, lost)
  BY DEF ScanEmpty
<1>1. /\ pc = "scan" /\ board \in nodes /\ board' = board + 1
      /\ UNCHANGED <<world, pc, nboards, nchips, open, mask>>
  BY DEF ScanEmpty
<1>2. /\ TypeOK /\ Counted /\ NoNodeNoChips /\ Clean
      /\ nodes \subseteq Boards /\ board \in 0 .. 3 /\ board \in Boards
      /\ lost \in SUBSET ChipIds /\ faults \in 0 .. MaxFaults
      /\ nboards \in 0 .. 4 /\ nboards <= board /\ nchips \in 0 .. 64
  BY <1>1, Sizes DEF IInv, TypeOK, Counted
<1>3. faults' \in 0 .. MaxFaults /\ (faults' = 0 => faults = 0 /\ lost = {})
  BY <1>2, LostFacts
<1>4. TypeOK'
  <2>1. board' \in 0 .. MAX_NBOARDS
    BY <1>1, <1>2, Sizes
  <2> QED BY <1>1, <1>2, <1>3, <2>1, SameWorld DEF TypeOK
<1>5. Counted'
  BY <1>1, <1>2, Sizes, SameWorld DEF Counted
<1>6. ASSUME auto, faults' = 0
      PROVE  CountsUpTo(board)'
  <2>1. CountsUpTo(board)
    BY <1>1, <1>2, <1>3, <1>6 DEF Clean
  <2>2. \A b \in Boards : b < board + 1 => b \in nodes
    BY <1>1, <1>2, <2>1, Sizes DEF CountsUpTo
  <2>3. ~Answers(board)
    BY <1>3, <1>6 DEF Answers, Hello
  <2>4. nboards = Cardinality(AnswerBefore(board + 1))
    BY <1>2, <2>1, <2>3, CountOne DEF CountsUpTo
  <2>5. nchips = IF Answers(0) THEN Cardinality(pop[0]) ELSE 0
    <3>1. CASE board = 0
      BY <2>1, <2>3, <3>1 DEF CountsUpTo
    <3>2. CASE board # 0
      BY <1>2, <2>1, <3>2 DEF CountsUpTo
    <3> QED BY <3>1, <3>2
  <2> QED BY <1>1, <1>2, <2>2, <2>4, <2>5, SameWorld DEF CountsUpTo
<1>7. Clean'
  BY <1>1, <1>2, <1>3, <1>6, SameWorld DEF Clean
<1> QED BY <1>1, <1>2, <1>4, <1>5, <1>7, SameWorld DEF IInv

LEMMA ScanEndInvariant == ASSUME IInv, ScanEnd PROVE IInv'
<1>1. /\ pc = "scan" /\ board \notin nodes /\ pc' = "open" /\ board' = 0
      /\ UNCHANGED <<world, nboards, nchips, faults, open, mask>>
  BY DEF ScanEnd
<1>2. TypeOK /\ Counted /\ NoNodeNoChips /\ Clean /\ board \in 0 .. MAX_NBOARDS
  BY DEF IInv, TypeOK
<1>3. TypeOK'
  <2>1. board' \in 0 .. MAX_NBOARDS
    BY <1>1, Sizes
  <2> QED BY <1>1, <1>2, <2>1, SameWorld DEF TypeOK
<1>4. Counted'
  BY <1>1, <1>2, SameWorld DEF Counted
<1>5. Clean'
  <2> SUFFICES ASSUME auto, faults = 0
               PROVE  /\ \E n \in 0 .. MAX_NBOARDS : EndedAt(n)'
                      /\ open' = AnswerBefore(0)
    BY <1>1, SameWorld DEF Clean
  <2>1. CountsUpTo(board) /\ open = {}
    BY <1>1, <1>2 DEF Clean
  <2>2. ASSUME NEW n, n = board PROVE EndedAt(n)'
    BY <1>1, <2>1, <2>2, SameWorld DEF EndedAt, CountsUpTo
  <2>3. AnswerBefore(0) = {}
    BY Sizes DEF AnswerBefore
  <2> QED BY <1>1, <1>2, <2>1, <2>2, <2>3
<1> QED BY <1>1, <1>2, <1>3, <1>4, <1>5, SameWorld DEF IInv

LEMMA OpenBoardInvariant == ASSUME IInv, OpenBoard PROVE IInv'
<1> PICK lost \in SUBSET {0} :
         /\ Lost(lost)
         /\ open' = IF Hello(board, lost) THEN open \cup {board} ELSE open
  BY DEF OpenBoard
<1>1. /\ pc = "open" /\ board < MAX_NBOARDS /\ board' = board + 1
      /\ UNCHANGED <<world, pc, nboards, nchips, mask>>
  BY DEF OpenBoard
<1>2. /\ TypeOK /\ Counted /\ NoNodeNoChips /\ Clean
      /\ nodes \subseteq Boards /\ board \in 0 .. 3 /\ board \in Boards
      /\ lost \in SUBSET ChipIds /\ faults \in 0 .. MaxFaults
  BY <1>1, Sizes DEF IInv, TypeOK
<1>3. faults' \in 0 .. MaxFaults /\ (faults' = 0 => faults = 0 /\ lost = {})
  BY <1>2, LostFacts
<1>4. TypeOK'
  <2>1. board' \in 0 .. MAX_NBOARDS
    BY <1>1, <1>2, Sizes
  <2>2. open' \subseteq nodes
    BY <1>2 DEF TypeOK, Hello
  <2> QED BY <1>1, <1>2, <1>3, <2>1, <2>2, SameWorld DEF TypeOK
<1>5. Counted'
  BY <1>1, <1>2, SameWorld DEF Counted
<1>6. Clean'
  <2> SUFFICES ASSUME auto, faults' = 0
               PROVE  /\ \E n \in 0 .. MAX_NBOARDS : EndedAt(n)'
                      /\ open' = AnswerBefore(board + 1)
    BY <1>1, <1>2, SameWorld DEF Clean
  <2>1. open = AnswerBefore(board)
    BY <1>1, <1>2, <1>3 DEF Clean
  <2>2. PICK n \in 0 .. MAX_NBOARDS : EndedAt(n)
    BY <1>1, <1>2, <1>3 DEF Clean
  <2>3. EndedAt(n)'
    BY <1>1, <2>2, SameWorld DEF EndedAt, CountsUpTo
  <2>4. Hello(board, lost) <=> Answers(board)
    BY <1>3 DEF Hello, Answers
  <2>5. open' = AnswerBefore(board + 1)
    BY <1>2, <2>1, <2>4, CountOne
  <2> QED BY <2>3, <2>5
<1> QED BY <1>1, <1>2, <1>4, <1>5, <1>6, SameWorld DEF IInv

LEMMA SetMaskInvariant == ASSUME IInv, SetMask PROVE IInv'
<1>1. /\ pc = "open" /\ board = MAX_NBOARDS /\ pc' = "ready"
      /\ UNCHANGED <<world, board, nboards, nchips, faults, open>>
      /\ nboards > 0 /\ nchips > 0 => mask' = bnt_get_nonce_mask(nboards, nchips)
      /\ mask' = bnt_get_nonce_mask(nboards, nchips) \/ mask' \in 0 .. 255
  <2>1. nboards \in Nat /\ nchips \in Nat
    BY Sizes DEF IInv, TypeOK
  <2> QED BY <2>1 DEF SetMask
<1>2. TypeOK /\ Counted /\ NoNodeNoChips /\ Clean
  BY DEF IInv
<1>3. mask' \in 0 .. 255
  <2>1. nboards \in Nat /\ nchips \in Nat
    BY <1>2, Sizes DEF TypeOK
  <2> QED BY <1>1, <2>1, MaskRange
<1>4. TypeOK'
  BY <1>1, <1>2, <1>3, SameWorld DEF TypeOK
<1>5. Counted'
  BY <1>1, <1>2, SameWorld DEF Counted
<1>6. Clean'
  <2> SUFFICES ASSUME auto, faults = 0
               PROVE  /\ \E n \in 0 .. MAX_NBOARDS : EndedAt(n)'
                      /\ open' = AnswerBefore(MAX_NBOARDS)
    BY <1>1, SameWorld DEF Clean
  <2>1. open = AnswerBefore(board)
    BY <1>1, <1>2 DEF Clean
  <2>2. PICK n \in 0 .. MAX_NBOARDS : EndedAt(n)
    BY <1>1, <1>2 DEF Clean
  <2>3. EndedAt(n)'
    BY <1>1, <2>2, SameWorld DEF EndedAt, CountsUpTo
  <2> QED BY <1>1, <2>1, <2>3
<1> QED BY <1>1, <1>2, <1>4, <1>5, <1>6, SameWorld DEF IInv

LEMMA Invariant == Spec => []IInv
<1>1. IInv /\ UNCHANGED vars => IInv'
  <2> SUFFICES ASSUME IInv, UNCHANGED vars PROVE IInv'
    OBVIOUS
  <2>1. UNCHANGED <<world, pop, nodes, auto, pc, board, nboards, nchips, faults, open, mask>>
    BY DEF vars, world
  <2>2. TypeOK' /\ Counted'
    BY <2>1 DEF IInv, TypeOK, Counted
  <2>3. Clean'
    <3>1. \A n : CountsUpTo(n)' <=> CountsUpTo(n)
      BY <2>1, SameWorld DEF CountsUpTo
    <3>2. \A n : EndedAt(n)' <=> EndedAt(n)
      BY <2>1, <3>1 DEF EndedAt
    <3>3. CountsUpTo(board)' <=> CountsUpTo(board)
      BY <2>1, SameWorld DEF CountsUpTo
    <3>4. AnswerBefore(board)' = AnswerBefore(board)
          /\ AnswerBefore(MAX_NBOARDS)' = AnswerBefore(MAX_NBOARDS)
      BY <2>1, SameWorld DEF AnswerBefore
    <3> QED BY <2>1, <3>2, <3>3, <3>4 DEF IInv, Clean
  <2> QED BY <2>1, <2>2, <2>3, SameWorld DEF IInv
<1>2. IInv /\ [Next]_vars => IInv'
  BY <1>1, ScanBoardInvariant, ScanEmptyInvariant, ScanEndInvariant,
     OpenBoardInvariant, SetMaskInvariant DEF Next
<1> QED BY <1>2, InitInvariant, PTL DEF Spec

-----------------------------------------------------------------------------
\* Every variable keeps its type: the scan never counts more boards or chips
\* than there are, and the mask is a byte.
THEOREM TypeCorrect == Spec => []TypeOK
<1>1. IInv => TypeOK
  BY DEF IInv
<1> QED BY <1>1, Invariant, PTL

\* No more boards are counted than opened, whichever of them have chips, and
\* fewer only where one is opened behind a board without a device node.
THEOREM CountsAreOpen == Spec => []CountedAreOpen
<1>1. IInv => CountedAreOpen
  <2> SUFFICES ASSUME IInv, pc = "ready", auto, faults = 0
               PROVE  /\ nboards <= Cardinality(open)
                      /\ nboards < Cardinality(open)
                           => \E b \in open, g \in Boards \ nodes : g < b
    BY DEF CountedAreOpen
  <2>1. open = AnswerBefore(MAX_NBOARDS)
    BY DEF IInv, Clean
  <2>2. PICK n \in 0 .. MAX_NBOARDS : n \notin nodes /\ CountsUpTo(n)
    BY DEF IInv, Clean, EndedAt
  <2>3. nboards = Cardinality(AnswerBefore(n))
    BY <2>2 DEF CountsUpTo
  <2>4. AnswerBefore(n) \subseteq open
    BY <2>1, Sizes DEF AnswerBefore
  <2>5. IsFiniteSet(open) /\ Cardinality(AnswerBefore(n)) <= Cardinality(open)
    <3>1. IsFiniteSet(open)
      BY <2>1, BoardSets DEF AnswerBefore
    <3> QED BY <2>4, <3>1, FS_Subset
  <2>6. ASSUME nboards < Cardinality(open)
        PROVE  \E b \in open, g \in Boards \ nodes : g < b
    <3>1. Cardinality(AnswerBefore(n)) \in Nat
      BY BoardSets DEF AnswerBefore
    <3>2. AnswerBefore(n) # open
      BY <2>3, <2>6, <3>1
    <3>3. PICK b \in open : b \notin AnswerBefore(n)
      BY <2>4, <3>2
    <3>4. b \in Boards /\ Answers(b)
      BY <2>1 DEF AnswerBefore
    <3>5. b # n /\ ~(b < n)
      BY <2>2, <3>3, <3>4 DEF AnswerBefore, Answers
    <3>6. n < b /\ n \in Boards
      BY <3>4, <3>5, Sizes
    <3> QED BY <2>2, <3>6
  <2> QED BY <2>3, <2>5, <2>6
<1> QED BY <1>1, Invariant, PTL

-----------------------------------------------------------------------------
(* A well-built system.                                                     *)

\* There are as many polled ids as chips.
LEMMA FittedCount ==
    ASSUME NEW nc \in ChipCounts
    PROVE  IsFiniteSet(FittedIds(nc)) /\ Cardinality(FittedIds(nc)) = nc
<1> DEFINE d == 64 \div nc
           f == [i \in 0 .. nc - 1 |-> i * d]
<1>1. nc \in 1 .. 64 /\ d \in 1 .. 64 /\ nc * d = 64
  BY DEF ChipCounts
<1>2. FittedIds(nc) = {c \in 0 .. 63 : c % d = 0}
  BY Sizes DEF FittedIds
<1>3. \A i \in 0 .. nc - 1 : i * d \in FittedIds(nc)
  BY <1>2 DEF ChipCounts
<1>4. \A i, j \in 0 .. nc - 1 : i * d = j * d => i = j
  BY DEF ChipCounts
<1>5. \A c \in FittedIds(nc) : c \div d \in 0 .. nc - 1 /\ (c \div d) * d = c
  BY <1>2 DEF ChipCounts
<1>6. f \in Bijection(0 .. nc - 1, FittedIds(nc))
  <2> HIDE DEF d
  <2>1. f \in [0 .. nc - 1 -> FittedIds(nc)]
    BY <1>3
  <2>2. \A i, j \in 0 .. nc - 1 : f[i] = f[j] => i = j
    BY <1>4
  <2>3. \A c \in FittedIds(nc) : \E i \in 0 .. nc - 1 : f[i] = c
    BY <1>5
  <2> HIDE DEF f
  <2> QED BY <2>1, <2>2, <2>3 DEF Bijection, Injection, Surjection, IsInjective
<1>7. IsFiniteSet(0 .. nc - 1) /\ Cardinality(0 .. nc - 1) = nc
  <2>1. 0 \in Int /\ nc - 1 \in Int
    BY <1>1
  <2>2. /\ IsFiniteSet(0 .. nc - 1)
        /\ Cardinality(0 .. nc - 1) = IF 0 > nc - 1 THEN 0 ELSE nc - 1 - 0 + 1
    BY <2>1, FS_Interval, Zenon
  <2> QED BY <1>1, <2>2
<1>8. ExistsBijection(0 .. nc - 1, FittedIds(nc))
  BY <1>6, Zenon DEF ExistsBijection
<1> QED BY <1>7, <1>8, FS_Bijection, Zenon

LEMMA TableCounts ==
    \A nb \in BoardCounts, nc \in ChipCounts :
        bnt_get_nchips(bnt_get_nonce_mask(nb, nc)) = nb * nc
<1> SUFFICES ASSUME NEW nb \in BoardCounts, NEW nc \in ChipCounts
             PROVE  bnt_get_nchips(bnt_get_nonce_mask(nb, nc)) = nb * nc
  OBVIOUS
<1> QED BY DEF TotalChips, bnt_get_nchips, bnt_get_nonce_mask, BoardMask, ChipMask,
               BoardCounts, ChipCounts

\* What the scan and the opening find in a well-built system.
LEMMA FindsAll ==
    ASSUME IInv, pc = "ready", auto, faults = 0,
           NEW nb \in BoardCounts, NEW nc \in ChipCounts,
           \A b \in Boards : pop[b] = IF b < nb THEN FittedIds(nc) ELSE {}
    PROVE  /\ nboards = nb /\ nchips = nc /\ open = 0 .. nb - 1
           /\ mask = bnt_get_nonce_mask(nb, nc)
<1>1. nb \in 1 .. 4 /\ nc \in 1 .. 64
  BY DEF BoardCounts, ChipCounts
<1>2. 0 \in FittedIds(nc)
  BY Sizes DEF FittedIds, ChipCounts
<1>3. \A b \in Boards : Answers(b) <=> b < nb
  BY <1>2 DEF IInv, NoNodeNoChips, Answers
<1>4. ASSUME NEW m \in 0 .. 4, nb <= m
      PROVE  AnswerBefore(m) = 0 .. nb - 1
  BY <1>1, <1>3, <1>4, Sizes DEF AnswerBefore
<1>5. PICK n \in 0 .. 4 : n \notin nodes /\ CountsUpTo(n)
  BY Sizes DEF IInv, Clean, EndedAt
<1>6. nb <= n
  BY <1>1, <1>3, <1>5, Sizes DEF Answers
<1>7. Cardinality(0 .. nb - 1) = nb
  <2>1. 0 \in Int /\ nb - 1 \in Int
    BY <1>1
  <2>2. Cardinality(0 .. nb - 1) = IF 0 > nb - 1 THEN 0 ELSE nb - 1 - 0 + 1
    BY <2>1, FS_Interval, Zenon
  <2> QED BY <1>1, <2>2
<1>8. nboards = nb
  BY <1>4, <1>5, <1>6, <1>7 DEF CountsUpTo
<1>9. nchips = nc
  <2>1. 0 \in Boards /\ 0 < nb /\ n > 0
    BY <1>1, <1>6, Sizes
  <2>2. nchips = Cardinality(FittedIds(nc))
    BY <1>3, <1>5, <2>1 DEF CountsUpTo
  <2> QED BY <2>2, FittedCount
<1>10. open = 0 .. nb - 1
  <2>1. open = AnswerBefore(4)
    BY Sizes DEF IInv, Clean
  <2> QED BY <1>1, <1>4, <2>1
<1>11. mask = bnt_get_nonce_mask(nboards, nchips)
  BY <1>1, <1>8, <1>9 DEF IInv, Clean
<1> QED BY <1>8, <1>9, <1>10, <1>11

\* In a well-built system detected without a loss, main finds all chips, and
\* the mask it takes splits the nonces between them: no two search the same,
\* together they search all, and each of them is polled.
THEOREM DetectedSharesPartition == Spec => []SharesPartition
<1>1. IInv => SharesPartition
  <2> SUFFICES ASSUME IInv, pc = "ready", auto, faults = 0, WellBuilt
               PROVE  /\ \A k, l \in Working :
                            ShareOf(k[1], k[2], mask) = ShareOf(l[1], l[2], mask) => k = l
                      /\ Cardinality(Working) = bnt_get_nchips(mask)
                      /\ \A k \in Working : k[2] \in Polled(nchips)
    BY DEF SharesPartition
  <2>1. PICK nb \in BoardCounts, nc \in ChipCounts :
          \A b \in Boards : pop[b] = IF b < nb THEN FittedIds(nc) ELSE {}
    BY DEF WellBuilt, FittedIds
  <2>2. /\ nchips = nc /\ open = 0 .. nb - 1
        /\ mask = bnt_get_nonce_mask(nb, nc)
    BY <2>1, FindsAll
  <2>3. nb \in 1 .. 4
    BY DEF BoardCounts
  <2>4. FittedIds(nc) \subseteq ChipIds /\ 0 .. nb - 1 \subseteq Boards
    BY <2>3, Sizes DEF FittedIds
  <2>5. \A b \in 0 .. nb - 1 : pop[b] = FittedIds(nc)
    BY <2>1, <2>3, <2>4
  <2>6. Working = (0 .. nb - 1) \X FittedIds(nc)
    BY <2>2, <2>4, <2>5 DEF Working
  <2>7. ASSUME NEW k \in Working, NEW l \in Working,
               ShareOf(k[1], k[2], mask) = ShareOf(l[1], l[2], mask)
        PROVE  k = l
    <3>1. /\ k[1] \in 0 .. nb - 1 /\ k[2] \in FittedIds(nc) /\ k = <<k[1], k[2]>>
          /\ l[1] \in 0 .. nb - 1 /\ l[2] \in FittedIds(nc) /\ l = <<l[1], l[2]>>
      BY <2>6
    <3>2. ShareOf(k[1], k[2], mask) = k /\ ShareOf(l[1], l[2], mask) = l
      BY <2>2, <3>1, SharesAreOwn
    <3> QED BY <2>7, <3>2
  <2>8. Cardinality(Working) = bnt_get_nchips(mask)
    <3>1. IsFiniteSet(0 .. nb - 1) /\ Cardinality(0 .. nb - 1) = nb
      <4>1. 0 \in Int /\ nb - 1 \in Int
        BY <2>3
      <4>2. /\ IsFiniteSet(0 .. nb - 1)
            /\ Cardinality(0 .. nb - 1) = IF 0 > nb - 1 THEN 0 ELSE nb - 1 - 0 + 1
        BY <4>1, FS_Interval, Zenon
      <4> QED BY <2>3, <4>2
    <3>2. Cardinality(Working) = nb * nc
      <4>1. IsFiniteSet(FittedIds(nc)) /\ Cardinality(FittedIds(nc)) = nc
        BY FittedCount
      <4>2. Cardinality((0 .. nb - 1) \X FittedIds(nc)) =
                Cardinality(0 .. nb - 1) * Cardinality(FittedIds(nc))
        BY <3>1, <4>1, FS_Product, Zenon
      <4> QED BY <2>6, <3>1, <4>1, <4>2, Zenon
    <3> QED BY <2>2, <3>2, TableCounts
  <2>9. ASSUME NEW k \in Working PROVE k[2] \in Polled(nchips)
    <3>1. k[2] \in 0 .. 63 /\ k[2] % (64 \div nc) = 0
      BY <2>6, Sizes DEF FittedIds
    <3>2. nc # 1 => IdStep(nc) = 64 \div nc
      BY DEF IdStep, ChipCounts
    <3>3. nc = 1 => IdStep(nc) = 1
      BY DEF IdStep
    <3>4. k[2] % IdStep(nc) = 0
      BY <3>1, <3>2, <3>3
    <3> QED BY <2>2, <3>1, <3>4, Sizes DEF Polled
  <2> QED BY <2>7, <2>8, <2>9
<1> QED BY <1>1, Invariant, PTL
=============================================================================

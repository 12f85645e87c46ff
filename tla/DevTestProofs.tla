---------------------------- MODULE DevTestProofs ----------------------------
(***************************************************************************)
(* bnt_devtest, for any chips, registers, defects, command lines and number *)
(* of lost transactions: the invariants of DevTest, what VERIFIED and       *)
(* FAILED mean, and a bound on the steps the tool takes.                    *)
(*                                                                          *)
(* What rbuf holds of a register is 0, from before the first read, or what  *)
(* the chip holds.  A defective cell always holds its own value, so that it *)
(* is equal to a pattern that is not 0 only if it is that pattern: the      *)
(* first and the third of them cannot both be.                              *)
(***************************************************************************)
EXTENDS DevTest, FiniteSetTheorems, TLAPS

Chip == <<board, chip>>
Testing == {"reset", "write", "read"}
AtChip  == {"hello", "reset", "write", "read"}

\* The loops over boards and ids stay on the grid of the command line.
Shape ==
    /\ pc \in Testing => Chip \in Fitted /\ chip <= LastChip
    /\ pc # "done" => board \in FirstBoard .. LastBoard
    /\ pc = "done" => board > LastBoard
    /\ pc \in AtChip => /\ chip >= FirstChip /\ chip <= LastChip + ChipStep
                        /\ (chip - FirstChip) % ChipStep = 0

Cells ==
    \A k \in Fitted, r \in Regs :
        <<k, r>> \in DOMAIN defect => hvr[k][r] = defect[<<k, r>>]

Gathered == pc = "read" => \A r \in Regs : rbuf[r] \in {0, hvr[Chip][r]}

Intact == pc = "read" /\ ~lostw /\ Healthy(Chip) => Holds

Counted ==
    pc = "read" => \A r \in Regs :
        /\ lostr[r] <= count
        /\ lostr[r] < count /\ Holds => rbuf[r] = Patterns[pattern]

\* A chip with a defective cell does not get behind the third pattern.
Stuck ==
    pc \in {"write", "read"} => \A r \in Regs :
        <<Chip, r>> \in DOMAIN defect =>
            ~bcast /\ pattern <= 3 /\ (pattern >= 2 => defect[<<Chip, r>>] = 255)

\* While a pattern is read nothing has been printed about it.
Fresh == pc = "read" => verdict = "none"

\* The ids the loops have passed.
Covered ==
    \A k \in Fitted :
        /\ k[1] \in Nodes /\ InRange(k)
        /\ k[1] < board \/ (pc \in AtChip /\ k[1] = board /\ k[2] < chip)
        => k \in passed \cup failed \cup unheard

IInv == /\ TypeOK /\ Shape /\ Cells /\ Gathered /\ Intact /\ Counted /\ Stuck
        /\ DefectiveFails /\ Fresh /\ Covered

-----------------------------------------------------------------------------
LEMMA PatternFacts ==
    /\ DOMAIN Patterns = 1 .. 4 /\ Len(Patterns) = 4
    /\ Patterns[1] = 255 /\ Patterns[2] = 0 /\ Patterns[3] = 165 /\ Patterns[4] = 90
    /\ \A i \in 1 .. 4 : Patterns[i] \in Values
  BY DEF Patterns, Values

LEMMA FittedIds == Fitted \subseteq (0 .. 3) \X (0 .. 63)
<1>1. Boards = 0 .. 3 /\ ChipIds = 0 .. 63
  BY DEF Boards, ChipIds, MAX_NBOARDS, MAX_NCHIPS_PER_BOARD
<1> QED BY <1>1, FittedAssumption

LEMMA IdsOf ==
    ASSUME NEW k \in Fitted
    PROVE  k[1] \in 0 .. 3 /\ k[2] \in 0 .. 63
  BY FittedIds

LEMMA Quotient ==
    ASSUME NEW n \in 1 .. 64
    PROVE  64 - 64 \div n \in 0 .. 63
<1>1. 64 \div n \in 1 .. 64
  BY SMT
<1> QED BY <1>1

\* The ranges the command line stands for.
LEMMA RangeFacts ==
    ASSUME opt \in Options
    PROVE  /\ FirstBoard \in 0 .. 3 /\ LastBoard \in 0 .. 3 /\ FirstBoard <= LastBoard
           /\ FirstChip \in 0 .. 63 /\ LastChip \in 0 .. 63
           /\ ChipStep \in {1, 2, 4, 8, 16, 32}
<1>1. /\ opt.all \in BOOLEAN /\ opt.nchips \in 0 .. 64
      /\ opt.board \in 0 .. 3 /\ opt.chip \in 0 .. 63
  BY OptionsAssumption DEF Option, Boards, ChipIds, MAX_NBOARDS, MAX_NCHIPS_PER_BOARD
<1>2. FirstBoard \in 0 .. 3 /\ LastBoard \in 0 .. 3 /\ FirstBoard <= LastBoard
  BY <1>1 DEF FirstBoard, LastBoard, MAX_NBOARDS
<1>3. FirstChip \in 0 .. 63
  BY <1>1 DEF FirstChip
<1>4. LastChip \in 0 .. 63
  <2>1. CASE opt.all
    BY <2>1 DEF LastChip, MAX_NCHIPS_PER_BOARD
  <2>2. CASE ~opt.all /\ opt.nchips > 0
    <3>1. 64 - 64 \div opt.nchips \in 0 .. 63
      BY <1>1, <2>2, Quotient
    <3> QED BY <2>2, <3>1 DEF LastChip, MAX_NCHIPS_PER_BOARD
  <2>3. CASE ~opt.all /\ ~(opt.nchips > 0)
    BY <1>1, <2>3 DEF LastChip
  <2> QED BY <2>1, <2>2, <2>3
<1>5. ChipStep \in {1, 2, 4, 8, 16, 32}
  BY DEF ChipStep, IdStep
<1> QED BY <1>2, <1>3, <1>4, <1>5

\* The next id of the loop is on the grid, and no id of the grid lies between.
LEMMA NextOnGrid ==
    ASSUME NEW s \in {1, 2, 4, 8, 16, 32}, NEW f \in 0 .. 63, NEW c \in 0 .. 128,
           f <= c, (c - f) % s = 0
    PROVE  /\ (c + s - f) % s = 0
           /\ \A x \in 0 .. 63 : c <= x /\ x < c + s /\ (x - f) % s = 0 => x = c
<1>1. CASE s = 1  BY <1>1
<1>2. CASE s = 2  BY <1>2
<1>3. CASE s = 4  BY <1>3
<1>4. CASE s = 8  BY <1>4
<1>5. CASE s = 16 BY <1>5
<1>6. CASE s = 32 BY <1>6
<1> QED BY <1>1, <1>2, <1>3, <1>4, <1>5, <1>6

\* What a chip holds: the defective cells their value, the others what was
\* written.
LEMMA HoldFacts ==
    ASSUME defect \in Defects, NEW file \in [Fitted -> [Regs -> Values]]
    PROVE  /\ Hold(file) \in [Fitted -> [Regs -> Values]]
           /\ \A k \in Fitted, r \in Regs :
                /\ <<k, r>> \in DOMAIN defect => Hold(file)[k][r] = defect[<<k, r>>]
                /\ <<k, r>> \notin DOMAIN defect => Hold(file)[k][r] = file[k][r]
<1>1. \A cell \in DOMAIN defect : defect[cell] \in Values
  BY DefectsAssumption
<1> QED BY <1>1 DEF Hold

LEMMA WriteFacts ==
    ASSUME hvr \in [Fitted -> [Regs -> Values]], NEW v \in [Regs -> Values],
           NEW all \in BOOLEAN, NEW ok \in BOOLEAN
    PROVE  /\ regwrite(hvr, board, chip, v, all, ok) \in [Fitted -> [Regs -> Values]]
           /\ Chip \in Fitted /\ ok => regwrite(hvr, board, chip, v, all, ok)[Chip] = v
  BY DEF regwrite, Chip

LEMMA LoseFacts ==
    ASSUME lost \in 0 .. MaxLost, NEW n \in Nat, Lose(n)
    PROVE  lost' \in 0 .. MaxLost
  BY MaxLostAssumption DEF Lose

LEMMA InitInvariant == Init => IInv
<1> SUFFICES ASSUME Init PROVE IInv
  OBVIOUS
<1>1. opt \in Options /\ defect \in Defects
  BY DEF Init
<1>2. Zeros \in [Regs -> Values]
  BY DEF Zeros, Values
<1> DEFINE file == [k \in Fitted |-> Zeros]
<1>3. file \in [Fitted -> [Regs -> Values]]
  BY <1>2
<1>4. hvr = Hold(file)
  BY DEF Init
<1> HIDE DEF file
<1>5. hvr \in [Fitted -> [Regs -> Values]] /\ Cells
  BY <1>1, <1>3, <1>4, HoldFacts DEF Cells
<1>6. TypeOK
  <2>1. board \in 0 .. MAX_NBOARDS /\ chip \in 0 .. 2 * MAX_NCHIPS_PER_BOARD
    BY <1>1, RangeFacts DEF Init, MAX_NBOARDS, MAX_NCHIPS_PER_BOARD
  <2>2. pattern \in DOMAIN Patterns /\ count \in 0 .. MaxRetry
    BY PatternFacts DEF Init, MaxRetry
  <2>3. lost \in 0 .. MaxLost
    BY MaxLostAssumption DEF Init
  <2>4. lostr \in [Regs -> 0 .. MaxRetry + 1]
    BY DEF Init, Zeros, MaxRetry
  <2> QED BY <1>1, <1>2, <1>5, <2>1, <2>2, <2>3, <2>4 DEF Init, TypeOK
<1>7. Shape
  BY <1>1, RangeFacts DEF Init, Shape, Testing, AtChip
<1>8. Covered
  <2> SUFFICES ASSUME NEW k \in Fitted, InRange(k), k[1] < board PROVE FALSE
    BY DEF Covered, Init, AtChip
  <2> QED BY <1>1, RangeFacts, IdsOf DEF InRange, Init
<1> QED
  BY <1>5, <1>6, <1>7, <1>8 DEF Init, IInv, Gathered, Intact, Counted, Stuck,
                                DefectiveFails, Fresh

-----------------------------------------------------------------------------
(* The loops over boards and ids.                                           *)

\* The types that matter to the loops.
LEMMA Numbers ==
    ASSUME TypeOK
    PROVE  /\ board \in 0 .. 4 /\ chip \in 0 .. 128
           /\ FirstBoard \in 0 .. 3 /\ LastBoard \in 0 .. 3 /\ FirstBoard <= LastBoard
           /\ FirstChip \in 0 .. 63 /\ LastChip \in 0 .. 63
           /\ ChipStep \in {1, 2, 4, 8, 16, 32}
  BY RangeFacts DEF TypeOK, MAX_NBOARDS, MAX_NCHIPS_PER_BOARD

\* The command line, and with it the grid, does not change.
LEMMA SameGrid ==
    ASSUME UNCHANGED opt
    PROVE  /\ UNCHANGED <<FirstBoard, LastBoard, FirstChip, LastChip, ChipStep>>
           /\ \A k : InRange(k)' <=> InRange(k)
  BY DEF FirstBoard, LastBoard, FirstChip, LastChip, ChipStep, InRange

\* Between chips and boards nothing is held in rbuf that matters.
LEMMA LoopInvariant ==
    ASSUME IInv, UNCHANGED <<chips, opt>>, pc' \in {"board", "hello", "reset", "done"},
           TypeOK', Shape', Covered', passed' = passed
    PROVE  IInv'
<1>1. UNCHANGED <<hvr, defect>>
  BY DEF chips
<1> QED
  BY <1>1 DEF IInv, Cells, Gathered, Intact, Counted, Stuck, DefectiveFails, Healthy,
              Fresh

LEMMA OpenBoardInvariant == ASSUME IInv, OpenBoard PROVE IInv'
<1>1. /\ pc = "board" /\ pc' = "hello" /\ chip' = FirstChip
      /\ UNCHANGED <<hvr, ssr, defect, opt, board, pattern, bcast, rbuf, count, verdict,
                     passed, failed, lost, lostw, lostr, unheard>>
  BY DEF OpenBoard, chips, history
<1>2. /\ board \in 0 .. 4 /\ FirstChip \in 0 .. 63 /\ LastChip \in 0 .. 63
      /\ ChipStep \in {1, 2, 4, 8, 16, 32}
  BY Numbers DEF IInv
<1>3. TypeOK'
  BY <1>1, <1>2 DEF IInv, TypeOK, MAX_NCHIPS_PER_BOARD
<1>g. /\ UNCHANGED <<FirstBoard, LastBoard, FirstChip, LastChip, ChipStep>>
      /\ \A k : InRange(k)' <=> InRange(k)
  BY <1>1, SameGrid
<1>4. FirstChip <= LastChip + ChipStep /\ (FirstChip - FirstChip) % ChipStep = 0
  <2>1. FirstChip <= LastChip
    <3>1. opt \in Option
      BY OptionsAssumption DEF IInv, TypeOK
    <3> QED BY <1>2, <3>1 DEF FirstChip, LastChip
  <2> QED BY <1>2, <2>1
<1>5. Shape'
  BY <1>1, <1>2, <1>4, <1>g DEF IInv, Shape, Testing, AtChip
<1>6. Covered'
  <2> SUFFICES ASSUME NEW k \in Fitted, k[1] \in Nodes, InRange(k),
                      k[1] < board \/ (k[1] = board /\ k[2] < FirstChip)
               PROVE  k \in passed \cup failed \cup unheard
    BY <1>1, <1>g DEF Covered
  <2>1. ~(k[2] < FirstChip)
    BY <1>2, IdsOf DEF InRange
  <2> QED BY <2>1 DEF IInv, Covered
<1> QED BY <1>1, <1>3, <1>5, <1>6, LoopInvariant DEF chips

\* On to the next board from a board none of whose chips is left.
LEMMA BoardInvariant ==
    ASSUME IInv, pc \in {"board", "hello"}, NextBoard,
           UNCHANGED <<chips, opt, chip, pattern, bcast, rbuf, count, verdict, passed,
                       failed, lost, history>>,
           \A k \in Fitted : k[1] \in Nodes /\ InRange(k) /\ k[1] = board
                                => k \in passed \cup failed \cup unheard
    PROVE  IInv'
<1>1. UNCHANGED <<hvr, ssr, defect, opt, chip, pattern, bcast, rbuf, count, verdict,
                  passed, failed, lost, lostw, lostr, unheard>>
  BY DEF chips, history
<1>2. /\ board \in 0 .. 4 /\ FirstBoard \in 0 .. 3 /\ LastBoard \in 0 .. 3
      /\ board \in FirstBoard .. LastBoard
  BY Numbers DEF IInv, Shape
<1>3. /\ board' = board + 1
      /\ \/ board < LastBoard /\ pc' = "board"
         \/ ~(board < LastBoard) /\ pc' = "done"
  BY DEF NextBoard
<1>g. /\ UNCHANGED <<FirstBoard, LastBoard, FirstChip, LastChip, ChipStep>>
      /\ \A k : InRange(k)' <=> InRange(k)
  BY <1>1, SameGrid
<1>4. TypeOK'
  <2>1. board' \in 0 .. 4 /\ pc' \in {"board", "done"}
    BY <1>2, <1>3
  <2> QED BY <1>1, <2>1 DEF IInv, TypeOK, MAX_NBOARDS
<1>5. Shape'
  BY <1>1, <1>2, <1>3, <1>g DEF Shape, Testing, AtChip
<1>6. Covered'
  <2> SUFFICES ASSUME NEW k \in Fitted, k[1] \in Nodes, InRange(k), k[1] < board + 1
               PROVE  k \in passed \cup failed \cup unheard
    BY <1>1, <1>3, <1>g DEF Covered, AtChip
  <2>1. k[1] < board \/ k[1] = board
    BY <1>2, IdsOf
  <2> QED BY <2>1 DEF IInv, Covered
<1> QED BY <1>1, <1>3, <1>4, <1>5, <1>6, LoopInvariant DEF chips

LEMMA NoBoardInvariant == ASSUME IInv, NoBoard PROVE IInv'
  BY BoardInvariant DEF NoBoard

LEMMA CloseBoardInvariant == ASSUME IInv, CloseBoard PROVE IInv'
<1>1. /\ pc = "hello" /\ chip > LastChip /\ NextBoard
      /\ UNCHANGED <<chips, opt, chip, pattern, bcast, rbuf, count, verdict, passed,
                       failed, lost, history>>
  BY DEF CloseBoard
<1>2. chip \in 0 .. 128 /\ LastChip \in 0 .. 63 /\ FirstChip \in 0 .. 63
  BY Numbers DEF IInv
<1>3. ASSUME NEW k \in Fitted, k[1] \in Nodes, InRange(k), k[1] = board
      PROVE  k \in passed \cup failed \cup unheard
  <2>1. k[2] < chip
    BY <1>1, <1>2, <1>3, IdsOf DEF InRange
  <2> QED BY <1>1, <1>3, <2>1 DEF IInv, Covered, AtChip
<1> QED BY <1>1, <1>3, BoardInvariant

LEMMA HelloInvariant == ASSUME IInv, Hello PROVE IInv'
<1>1. /\ pc = "hello" /\ pc' = "reset" /\ Chip \in Fitted /\ chip <= LastChip
      /\ UNCHANGED <<hvr, ssr, defect, opt, board, chip, pattern, bcast, rbuf, count,
                     verdict, passed, failed, lost, lostw, lostr, unheard>>
  BY DEF Hello, Chip, chips, history
<1>g. /\ UNCHANGED <<FirstBoard, LastBoard, FirstChip, LastChip, ChipStep>>
      /\ \A k : InRange(k)' <=> InRange(k)
  BY <1>1, SameGrid
<1>2. TypeOK'
  BY <1>1 DEF IInv, TypeOK
<1>3. Shape'
  BY <1>1, <1>g DEF IInv, Shape, Testing, AtChip, Chip
<1>4. Covered'
  BY <1>1, <1>g DEF IInv, Covered, AtChip
<1> QED BY <1>1, <1>2, <1>3, <1>4, LoopInvariant DEF chips

\* The next id is on the grid; the ids before it are covered if this one is.
LEMMA NextIdFacts ==
    ASSUME IInv, pc \in AtChip, chip <= LastChip, UNCHANGED <<opt, board>>,
           pc' = "hello", chip' = chip + ChipStep,
           passed \subseteq passed', failed \subseteq failed', unheard \subseteq unheard',
           Chip \in Fitted => Chip \in passed' \cup failed' \cup unheard'
    PROVE  Shape' /\ Covered' /\ chip' \in 0 .. 2 * MAX_NCHIPS_PER_BOARD
<1>1. /\ board \in 0 .. 4 /\ chip \in 0 .. 128
      /\ FirstChip \in 0 .. 63 /\ LastChip \in 0 .. 63
      /\ ChipStep \in {1, 2, 4, 8, 16, 32}
  BY Numbers DEF IInv
<1>2. FirstChip <= chip /\ (chip - FirstChip) % ChipStep = 0
  BY DEF IInv, Shape
<1>3. /\ (chip + ChipStep - FirstChip) % ChipStep = 0
      /\ \A x \in 0 .. 63 : chip <= x /\ x < chip + ChipStep
                              /\ (x - FirstChip) % ChipStep = 0 => x = chip
  <2> DEFINE s == ChipStep
             f == FirstChip
             c == chip
  <2>1. /\ s \in {1, 2, 4, 8, 16, 32} /\ f \in 0 .. 63 /\ c \in 0 .. 128
        /\ f <= c /\ (c - f) % s = 0
    BY <1>1, <1>2
  <2> HIDE DEF s, f, c
  <2>2. /\ (c + s - f) % s = 0
        /\ \A x \in 0 .. 63 : c <= x /\ x < c + s /\ (x - f) % s = 0 => x = c
    BY <2>1, NextOnGrid
  <2> QED BY <2>2 DEF s, f, c
<1>g. /\ UNCHANGED <<FirstBoard, LastBoard, FirstChip, LastChip, ChipStep>>
      /\ \A k : InRange(k)' <=> InRange(k)
  BY SameGrid
<1>4. chip + ChipStep \in 0 .. 95 /\ chip + ChipStep >= FirstChip
      /\ chip + ChipStep <= LastChip + ChipStep
  BY <1>1, <1>2
<1>5. Shape'
  <2>1. board \in FirstBoard .. LastBoard
    BY DEF IInv, Shape, AtChip
  <2>2. (chip' - FirstChip') % ChipStep' = 0
    <3>1. FirstChip' = FirstChip /\ ChipStep' = ChipStep /\ chip' = chip + ChipStep
      BY <1>g
    <3>2. (chip' - FirstChip') % ChipStep' = (chip + ChipStep - FirstChip) % ChipStep
      BY <1>1, <3>1
    <3>3. (chip + ChipStep - FirstChip) % ChipStep = 0
      BY <1>3, Zenon
    <3> QED BY <3>2, <3>3, Zenon
  <2>3. chip' >= FirstChip' /\ chip' <= LastChip' + ChipStep'
    BY <1>4, <1>g
  <2>4. board' \in FirstBoard' .. LastBoard'
    BY <1>g, <2>1
  <2> QED BY <2>2, <2>3, <2>4 DEF Shape, Testing
<1>6. Covered'
  <2> SUFFICES ASSUME NEW k \in Fitted, k[1] \in Nodes, InRange(k),
                      k[1] < board \/ (k[1] = board /\ k[2] < chip + ChipStep)
               PROVE  k \in passed' \cup failed' \cup unheard'
    BY <1>g DEF Covered
  <2>1. CASE k[1] < board \/ (k[1] = board /\ k[2] < chip)
    BY <2>1 DEF IInv, Covered
  <2>2. CASE k[1] = board /\ ~(k[2] < chip) /\ k[2] < chip + ChipStep
    <3>1. k[2] \in 0 .. 63 /\ chip <= k[2]
      BY <1>1, <2>2, IdsOf
    <3>2. (k[2] - FirstChip) % ChipStep = 0
      BY DEF InRange
    <3>3. k[2] = chip
      BY <1>3, <2>2, <3>1, <3>2
    <3>4. k = Chip
      BY <2>2, <3>3, FittedAssumption DEF Chip
    <3> QED BY <3>4
  <2> QED BY <2>1, <2>2
<1> QED BY <1>4, <1>5, <1>6 DEF MAX_NCHIPS_PER_BOARD

LEMMA NoHelloInvariant == ASSUME IInv, NoHello PROVE IInv'
<1>1. /\ pc = "hello" /\ pc' = "hello" /\ chip <= LastChip /\ chip' = chip + ChipStep
      /\ \/ Chip \notin Fitted /\ UNCHANGED <<lost, unheard>>
         \/ Chip \in Fitted /\ Lose(1) /\ unheard' = unheard \cup {Chip}
      /\ UNCHANGED <<hvr, ssr, defect, opt, board, pattern, bcast, rbuf, count, verdict,
                     passed, failed, lostw, lostr>>
  BY DEF NoHello, Chip, chips
<1>2. Shape' /\ Covered' /\ chip' \in 0 .. 2 * MAX_NCHIPS_PER_BOARD
  BY <1>1, NextIdFacts DEF AtChip
<1>3. TypeOK'
  <2>1. lost' \in 0 .. MaxLost
    BY <1>1, LoseFacts DEF IInv, TypeOK
  <2>2. unheard' \subseteq Fitted
    BY <1>1 DEF IInv, TypeOK
  <2> QED BY <1>1, <1>2, <2>1, <2>2 DEF IInv, TypeOK
<1> QED BY <1>1, <1>2, <1>3, LoopInvariant DEF chips

-----------------------------------------------------------------------------
(* The tests of a chip.                                                     *)

\* Steps that stay at the chip.
LEMMA SameChip ==
    ASSUME IInv, UNCHANGED <<opt, board, chip, passed, failed, unheard>>,
           pc \in Testing, pc' \in {"write", "read"}
    PROVE  Shape' /\ Covered'
<1>g. /\ UNCHANGED <<FirstBoard, LastBoard, FirstChip, LastChip, ChipStep>>
      /\ \A k : InRange(k)' <=> InRange(k)
  BY SameGrid
<1>1. Shape'
  BY <1>g DEF IInv, Shape, Testing, AtChip, Chip
<1>2. Covered'
  BY <1>g DEF IInv, Covered, Testing, AtChip
<1> QED BY <1>1, <1>2

LEMMA SoftResetInvariant == ASSUME IInv, SoftReset PROVE IInv'
<1> PICK set \in BOOLEAN, unset \in BOOLEAN :
         /\ Lose((IF set THEN 0 ELSE 1) + (IF unset THEN 0 ELSE 1))
         /\ ssr' = regwrite(regwrite(ssr, board, chip, "reset", FALSE, set),
                            board, chip, "clear", FALSE, unset)
         /\ hvr' \in {hvr, Hold(regwrite(hvr, board, chip, Zeros, FALSE, set))}
  BY DEF SoftReset
<1>1. /\ pc = "reset" /\ pc' = "write" /\ pattern' = 1 /\ bcast' = FALSE
      /\ UNCHANGED <<defect, opt, board, chip, rbuf, count, verdict, passed,
                     failed, lostw, lostr, unheard>>
  BY DEF SoftReset, history
<1>2. /\ hvr \in [Fitted -> [Regs -> Values]] /\ defect \in Defects
      /\ ssr \in [Fitted -> {"set", "reset", "clear"}] /\ lost \in 0 .. MaxLost
  BY DEF IInv, TypeOK
<1>3. Zeros \in [Regs -> Values]
  BY DEF Zeros, Values
<1>4. hvr' \in [Fitted -> [Regs -> Values]] /\ Cells'
  <2> DEFINE file == regwrite(hvr, board, chip, Zeros, FALSE, set)
  <2>1. file \in [Fitted -> [Regs -> Values]]
    BY <1>2, <1>3, WriteFacts
  <2>2. hvr' = hvr \/ hvr' = Hold(file)
    OBVIOUS
  <2> HIDE DEF file
  <2>3. CASE hvr' = hvr
    BY <1>1, <1>2, <2>3 DEF IInv, Cells
  <2>4. CASE hvr' = Hold(file)
    BY <1>1, <1>2, <2>1, <2>4, HoldFacts DEF Cells
  <2> QED BY <2>2, <2>3, <2>4
<1>5. ssr' \in [Fitted -> {"set", "reset", "clear"}]
  <2> DEFINE mid == regwrite(ssr, board, chip, "reset", FALSE, set)
  <2>1. mid \in [Fitted -> {"set", "reset", "clear"}]
    BY <1>2 DEF regwrite
  <2>2. ssr' = regwrite(mid, board, chip, "clear", FALSE, unset)
    OBVIOUS
  <2> HIDE DEF mid
  <2> QED BY <2>1, <2>2 DEF regwrite
<1>6. lost' \in 0 .. MaxLost
  <2> DEFINE n == (IF set THEN 0 ELSE 1) + (IF unset THEN 0 ELSE 1)
  <2>1. n \in Nat /\ Lose(n)
    OBVIOUS
  <2> HIDE DEF n
  <2> QED BY <1>2, <2>1, LoseFacts
<1>7. TypeOK'
  <2>1. pattern' \in DOMAIN Patterns
    <3>1. pattern' = 1
      BY <1>1
    <3> QED BY <3>1, PatternFacts
  <2>3. bcast' \in BOOLEAN
    BY <1>1, Zenon
  <2>2. /\ opt \in Options /\ board \in 0 .. MAX_NBOARDS
        /\ chip \in 0 .. 2 * MAX_NCHIPS_PER_BOARD
        /\ rbuf \in [Regs -> Values] /\ count \in 0 .. MaxRetry
        /\ verdict \in {"none", "VERIFIED", "FAILED"}
        /\ passed \subseteq Fitted /\ failed \subseteq Fitted
        /\ lostw \in BOOLEAN /\ lostr \in [Regs -> 0 .. MaxRetry + 1]
        /\ unheard \subseteq Fitted
    BY DEF IInv, TypeOK
  <2> QED BY <1>1, <1>2, <1>4, <1>5, <1>6, <2>1, <2>2, <2>3 DEF TypeOK
<1>8. Shape' /\ Covered'
  BY <1>1, SameChip DEF Testing
<1> QED
  BY <1>1, <1>4, <1>7, <1>8 DEF IInv, Gathered, Intact, Counted, Stuck,
                                DefectiveFails, Healthy, Chip, Fresh

LEMMA WriteInvariant == ASSUME IInv, Write PROVE IInv'
<1> DEFINE v == [r \in Regs |-> Patterns[pattern]]
<1> PICK ok \in BOOLEAN :
         /\ Lose(IF ok THEN 0 ELSE 1)
         /\ lostw' = ~ok
         /\ hvr' = Hold(regwrite(hvr, board, chip, v, bcast, ok))
  BY DEF Write
<1>1. /\ pc = "write" /\ pc' = "read"
      /\ rbuf' = Zeros /\ count' = 0 /\ verdict' = "none" /\ lostr' = Zeros
      /\ UNCHANGED <<ssr, defect, opt, board, chip, pattern, bcast, passed, failed,
                     unheard>>
  BY DEF Write
<1>2. /\ hvr \in [Fitted -> [Regs -> Values]] /\ defect \in Defects
      /\ lost \in 0 .. MaxLost /\ pattern \in 1 .. 4 /\ bcast \in BOOLEAN
      /\ Chip \in Fitted
  BY <1>1, PatternFacts DEF IInv, TypeOK, Shape, Testing
<1>3. v \in [Regs -> Values] /\ Zeros \in [Regs -> Values]
  BY <1>2, PatternFacts DEF Zeros, Values
<1> DEFINE file == regwrite(hvr, board, chip, v, bcast, ok)
<1>4. file \in [Fitted -> [Regs -> Values]] /\ (ok => file[Chip] = v)
  <2> HIDE DEF v
  <2> QED BY <1>2, <1>3, WriteFacts
<1>5. hvr' = Hold(file)
  OBVIOUS
<1> HIDE DEF file
<1>6. /\ hvr' \in [Fitted -> [Regs -> Values]] /\ Cells'
      /\ \A k \in Fitted, r \in Regs :
            <<k, r>> \notin DOMAIN defect => hvr'[k][r] = file[k][r]
  <2>1. /\ Hold(file) \in [Fitted -> [Regs -> Values]]
        /\ \A k \in Fitted, r \in Regs :
             /\ <<k, r>> \in DOMAIN defect => Hold(file)[k][r] = defect[<<k, r>>]
             /\ <<k, r>> \notin DOMAIN defect => Hold(file)[k][r] = file[k][r]
    BY <1>2, <1>4, HoldFacts
  <2> QED BY <1>1, <1>5, <2>1 DEF Cells
<1>7. lost' \in 0 .. MaxLost
  <2> DEFINE n == IF ok THEN 0 ELSE 1
  <2>1. n \in Nat /\ Lose(n)
    OBVIOUS
  <2> HIDE DEF n
  <2> QED BY <1>2, <2>1, LoseFacts
<1>8. TypeOK'
  <2>1. lostr' \in [Regs -> 0 .. MaxRetry + 1] /\ count' \in 0 .. MaxRetry
    BY <1>1 DEF Zeros, MaxRetry
  <2> QED BY <1>1, <1>2, <1>3, <1>6, <1>7, <2>1, PatternFacts DEF IInv, TypeOK
<1>9. Shape' /\ Covered'
  BY <1>1, SameChip DEF Testing
<1>10. Gathered'
  BY <1>1 DEF Gathered, Zeros
<1>11. Intact'
  <2> SUFFICES ASSUME ok, Healthy(Chip), NEW r \in Regs
               PROVE  hvr'[Chip][r] = Patterns[pattern]
    BY <1>1 DEF Intact, Healthy, Holds, Chip
  <2>1. <<Chip, r>> \notin DOMAIN defect
    BY DEF Healthy
  <2>2. hvr'[Chip][r] = file[Chip][r]
    BY <1>2, <1>6, <2>1
  <2> QED BY <1>4, <2>2
<1>12. Counted'
  BY <1>1 DEF Counted, Zeros
<1>13. Stuck' /\ DefectiveFails'
  BY <1>1 DEF IInv, Stuck, DefectiveFails, Healthy, Chip
<1> QED BY <1>1, <1>6, <1>8, <1>9, <1>10, <1>11, <1>12, <1>13 DEF IInv, Fresh

\* A pass of the reading loop: what rbuf holds afterwards.
LEMMA ReadFacts ==
    ASSUME IInv, pc = "read", NEW missed \in SUBSET Regs, rbuf' = regreadHVR(missed),
           lostr' = [r \in Regs |-> IF r \in missed THEN lostr[r] + 1 ELSE lostr[r]],
           UNCHANGED hvr
    PROVE  /\ rbuf' \in [Regs -> Values]
           /\ \A r \in Regs : rbuf'[r] \in {0, hvr[Chip][r]}
           /\ \A r \in Regs : lostr'[r] \in 0 .. count + 1
           /\ Holds => \A r \in Regs :
                lostr'[r] < count + 1 => rbuf'[r] = Patterns[pattern]
<1>1. /\ Chip \in Fitted /\ hvr \in [Fitted -> [Regs -> Values]] /\ count \in Nat
      /\ rbuf \in [Regs -> Values] /\ lostr \in [Regs -> 0 .. MaxRetry + 1]
  BY DEF IInv, Shape, TypeOK, Testing, MaxRetry
<1>2. \A r \in Regs : rbuf'[r] = IF r \in missed THEN rbuf[r] ELSE hvr[Chip][r]
  <2> SUFFICES ASSUME NEW r \in Regs
               PROVE  rbuf'[r] = IF r \in missed THEN rbuf[r] ELSE hvr[Chip][r]
    OBVIOUS
  <2>1. rbuf'[r] = regread([k \in Fitted |-> hvr[k][r]], board, chip, rbuf[r], 0,
                           r \notin missed)
    BY DEF regreadHVR
  <2> QED BY <1>1, <2>1 DEF regread, Chip
<1>3. rbuf' \in [Regs -> Values]
  <2>1. \A r \in Regs : rbuf'[r] \in Values
    BY <1>1, <1>2
  <2>2. DOMAIN rbuf' = Regs /\ rbuf' = [r \in Regs |-> rbuf'[r]]
    BY DEF regreadHVR
  <2> QED BY <2>1, <2>2
<1>4. \A r \in Regs : rbuf'[r] \in {0, hvr[Chip][r]}
  BY <1>2 DEF IInv, Gathered
<1>5. \A r \in Regs : lostr'[r] \in 0 .. count + 1
  <2> SUFFICES ASSUME NEW r \in Regs PROVE lostr'[r] \in 0 .. count + 1
    OBVIOUS
  <2>1. lostr[r] \in Nat /\ lostr[r] <= count
    BY <1>1 DEF IInv, Counted
  <2> QED BY <1>1, <2>1
<1>6. ASSUME Holds, NEW r \in Regs, lostr'[r] < count + 1
      PROVE  rbuf'[r] = Patterns[pattern]
  <2>1. CASE r \in missed
    <3>1. lostr[r] < count
      BY <1>1, <1>6, <2>1
    <3> QED BY <1>2, <1>6, <2>1, <3>1 DEF IInv, Counted
  <2>2. CASE r \notin missed
    BY <1>2, <1>6, <2>2 DEF Holds, Chip
  <2> QED BY <2>1, <2>2
<1> QED BY <1>3, <1>4, <1>5, <1>6

LEMMA ReadInvariant == ASSUME IInv, Read PROVE IInv'
<1> PICK missed \in SUBSET Regs :
         /\ Lose(Cardinality(missed))
         /\ rbuf' = regreadHVR(missed)
         /\ lostr' = [r \in Regs |-> IF r \in missed THEN lostr[r] + 1 ELSE lostr[r]]
  BY DEF Read
<1>1. /\ pc = "read"
      /\ UNCHANGED <<hvr, ssr, defect, opt, board, lostw, unheard>>
  BY DEF Read, chips
<1>2. /\ rbuf' \in [Regs -> Values]
      /\ \A r \in Regs : rbuf'[r] \in {0, hvr[Chip][r]}
      /\ \A r \in Regs : lostr'[r] \in 0 .. count + 1
      /\ Holds => \A r \in Regs :
            lostr'[r] < count + 1 => rbuf'[r] = Patterns[pattern]
  BY <1>1, ReadFacts
<1>3. lost' \in 0 .. MaxLost
  <2>1. Cardinality(missed) \in Nat
    BY RegsAssumption, FS_Subset, FS_CardinalityType
  <2> QED BY <2>1, LoseFacts DEF IInv, TypeOK
<1>4. /\ Chip \in Fitted /\ chip <= LastChip /\ pattern \in 1 .. 4 /\ bcast \in BOOLEAN
      /\ count \in 0 .. 5 /\ passed \subseteq Fitted /\ failed \subseteq Fitted
      /\ pc \in AtChip /\ pc \in Testing
  BY <1>1, PatternFacts DEF IInv, Shape, Testing, AtChip, TypeOK, MaxRetry
<1>5. lostr' \in [Regs -> 0 .. MaxRetry + 1]
  <2>1. \A r \in Regs : lostr'[r] \in 0 .. MaxRetry + 1
    BY <1>2, <1>4 DEF MaxRetry
  <2> QED BY <2>1
<1>6. Cells'
  BY <1>1 DEF IInv, Cells
\* A defective cell is equal to a pattern that is not 0 only by its own value.
<1>7. ASSUME Equal(rbuf'), NEW r \in Regs, <<Chip, r>> \in DOMAIN defect
      PROVE  ~bcast /\ pattern <= 2 /\ defect[<<Chip, r>>] = 255
  <2>1. rbuf'[r] = Patterns[pattern] /\ rbuf'[r] \in {0, defect[<<Chip, r>>]}
    BY <1>2, <1>4, <1>7 DEF Equal, IInv, Cells
  <2>2. ~bcast /\ pattern <= 3 /\ (pattern >= 2 => defect[<<Chip, r>>] = 255)
    BY <1>1, <1>7 DEF IInv, Stuck
  <2> QED BY <1>4, <2>1, <2>2, PatternFacts
<1>8. CASE Equal(rbuf') /\ Verified
  <2>1. verdict' = "VERIFIED" /\ UNCHANGED <<count, failed>>
    BY <1>8 DEF Verified
  <2>2. CASE /\ pattern < Len(Patterns)
             /\ pc' = "write" /\ pattern' = pattern + 1
             /\ UNCHANGED <<chip, bcast, passed>>
    <3>1. TypeOK'
      BY <1>1, <1>2, <1>3, <1>4, <1>5, <2>1, <2>2, PatternFacts DEF IInv, TypeOK
    <3>2. Shape' /\ Covered'
      BY <1>1, <1>4, <2>1, <2>2, SameChip
    <3>3. Stuck'
      BY <1>1, <1>4, <1>7, <1>8, <2>2 DEF Stuck, Chip
    <3>4. DefectiveFails'
      BY <1>1, <2>2 DEF IInv, DefectiveFails, Healthy
    <3> QED BY <1>6, <2>2, <3>1, <3>2, <3>3, <3>4 DEF IInv, Gathered, Intact, Counted, Fresh
  <2>3. CASE /\ pattern = Len(Patterns) /\ ~bcast
             /\ pc' = "write" /\ pattern' = 1 /\ bcast' = TRUE
             /\ UNCHANGED <<chip, passed>>
    <3>0. \A r \in Regs : <<Chip, r>> \notin DOMAIN defect
      BY <1>7, <1>8, <2>3, PatternFacts
    <3>1. TypeOK'
      BY <1>1, <1>2, <1>3, <1>4, <1>5, <2>1, <2>3, PatternFacts DEF IInv, TypeOK
    <3>2. Shape' /\ Covered'
      BY <1>1, <1>4, <2>1, <2>3, SameChip
    <3>3. Stuck'
      BY <1>1, <2>3, <3>0 DEF Stuck, Chip
    <3>4. DefectiveFails'
      BY <1>1, <2>3 DEF IInv, DefectiveFails, Healthy
    <3> QED BY <1>6, <2>3, <3>1, <3>2, <3>3, <3>4 DEF IInv, Gathered, Intact, Counted, Fresh
  <2>4. CASE /\ pattern = Len(Patterns) /\ bcast
             /\ passed' = passed \cup {<<board, chip>>}
             /\ NextChip
             /\ UNCHANGED <<pattern, bcast>>
    <3>0. Healthy(Chip)
      BY <1>7, <1>8, <2>4, PatternFacts DEF Healthy
    <3>1. Shape' /\ Covered' /\ chip' \in 0 .. 2 * MAX_NCHIPS_PER_BOARD
      BY <1>1, <1>4, <2>1, <2>4, NextIdFacts DEF NextChip, Chip
    <3>2. TypeOK'
      BY <1>1, <1>2, <1>3, <1>4, <1>5, <2>1, <2>4, <3>1
         DEF IInv, TypeOK, NextChip, Chip
    <3>3. DefectiveFails'
      BY <1>1, <2>4, <3>0 DEF IInv, DefectiveFails, Healthy, Chip
    <3> QED BY <1>6, <2>4, <3>1, <3>2, <3>3
            DEF IInv, Gathered, Intact, Counted, Stuck, NextChip, Fresh
  <2> QED BY <1>8, <2>2, <2>3, <2>4 DEF Verified
<1>9. CASE /\ ~Equal(rbuf') /\ TriesLeft /\ count' = count + 1
           /\ UNCHANGED <<pc, chip, pattern, bcast, verdict, passed, failed>>
  <2>1. count' \in 0 .. MaxRetry
    BY <1>4, <1>9 DEF TriesLeft, MaxRetry
  <2>2. TypeOK'
    BY <1>1, <1>2, <1>3, <1>5, <1>9, <2>1 DEF IInv, TypeOK
  <2>3. Shape' /\ Covered'
    BY <1>1, <1>4, <1>9, SameChip
  <2>4. Gathered' /\ Intact' /\ Stuck' /\ DefectiveFails'
    BY <1>1, <1>2, <1>9 DEF IInv, Gathered, Intact, Stuck, DefectiveFails, Healthy,
                            Holds, Chip
  <2>5. Counted'
    BY <1>1, <1>2, <1>4, <1>9 DEF Counted, Holds
  <2>6. Fresh'
    BY <1>1, <1>9 DEF IInv, Fresh
  <2> QED BY <1>6, <2>2, <2>3, <2>4, <2>5, <2>6 DEF IInv
<1>10. CASE /\ ~Equal(rbuf') /\ ~TriesLeft
            /\ verdict' = "FAILED"
            /\ failed' = failed \cup {<<board, chip>>}
            /\ NextChip
            /\ UNCHANGED <<pattern, bcast, count, passed>>
  <2>1. Shape' /\ Covered' /\ chip' \in 0 .. 2 * MAX_NCHIPS_PER_BOARD
    BY <1>1, <1>4, <1>10, NextIdFacts DEF NextChip, Chip
  <2>2. TypeOK'
    BY <1>1, <1>2, <1>3, <1>4, <1>5, <1>10, <2>1 DEF IInv, TypeOK, NextChip, Chip
  <2>3. DefectiveFails'
    BY <1>1, <1>10 DEF IInv, DefectiveFails, Healthy
  <2> QED BY <1>6, <1>10, <2>1, <2>2, <2>3
          DEF IInv, Gathered, Intact, Counted, Stuck, NextChip, Fresh
<1> QED BY <1>8, <1>9, <1>10 DEF Read

LEMMA NextInvariant == IInv /\ [Next]_vars => IInv'
<1> SUFFICES ASSUME IInv, [Next]_vars PROVE IInv'
  OBVIOUS
<1>1. CASE UNCHANGED vars
  <2>1. UNCHANGED <<hvr, ssr, defect, opt, pc, board, chip, pattern, bcast, rbuf, count,
                    verdict, passed, failed, lost, lostw, lostr, unheard>>
    BY <1>1 DEF vars
  <2>2. UNCHANGED <<FirstBoard, LastBoard, FirstChip, LastChip, ChipStep>>
        /\ \A k : InRange(k)' <=> InRange(k)
    BY <2>1, SameGrid
  <2>3. Shape' /\ Covered'
    BY <2>1, <2>2 DEF IInv, Shape, Covered, Chip
  <2>4. TypeOK'
    BY <2>1 DEF IInv, TypeOK
  <2>5. Cells' /\ Gathered' /\ Intact'
    BY <2>1 DEF IInv, Cells, Gathered, Intact, Healthy, Holds, Chip
  <2>6. Counted' /\ Fresh'
    BY <2>1 DEF IInv, Counted, Holds, Fresh
  <2>7. Stuck' /\ DefectiveFails'
    BY <2>1 DEF IInv, Stuck, DefectiveFails, Healthy, Chip
  <2> QED BY <2>3, <2>4, <2>5, <2>6, <2>7 DEF IInv
<1>2. CASE Next
  BY <1>2, OpenBoardInvariant, NoBoardInvariant, CloseBoardInvariant, HelloInvariant,
     NoHelloInvariant, SoftResetInvariant, WriteInvariant, ReadInvariant DEF Next
<1> QED BY <1>1, <1>2

LEMMA Invariant == Spec => []IInv
  BY InitInvariant, NextInvariant, PTL DEF Spec

-----------------------------------------------------------------------------
\* Every variable of bnt_devtest has its type; no register is read more often
\* than MaxRetry allows.
THEOREM TypeCorrect == Spec => []TypeOK
<1>1. IInv => TypeOK
  BY DEF IInv
<1> QED BY <1>1, Invariant, PTL

\* No chip with a defective cell gets through the eight tests of bnt_devtest,
\* whatever value the cell holds and whatever is lost.
THEOREM DefectsAreFound == Spec => []DefectiveFails
<1>1. IInv => DefectiveFails
  BY DEF IInv
<1> QED BY <1>1, Invariant, PTL

\* When bnt_devtest ends every chip of the range, on every board that opens,
\* has a result or was greeted in vain.
THEOREM NoneLeftOut == Spec => []AllTested
<1>1. IInv => AllTested
  <2> SUFFICES ASSUME IInv, pc = "done", NEW k \in Fitted, k[1] \in Nodes, InRange(k)
               PROVE  k \in passed \cup failed \cup unheard
    BY DEF AllTested
  <2>1. board \in 0 .. 4 /\ LastBoard \in 0 .. 3 /\ board > LastBoard
    BY Numbers DEF IInv, Shape
  <2>2. k[1] < board
    BY <2>1, IdsOf, Numbers DEF InRange, IInv
  <2> QED BY <2>2 DEF IInv, Covered
<1> QED BY <1>1, Invariant, PTL

\* "VERIFIED" of a pattern that is not 0: every register of the chip holds it,
\* although rbuf is put together from several tries.
THEOREM VerifiedHolds == Spec => VerifiedIsHeld
<1> DEFINE A == pc = "read" /\ verdict' = "VERIFIED" /\ Patterns[pattern] # 0 => Holds
<1>1. IInv /\ [Next]_vars => [A]_vars
  <2> SUFFICES ASSUME IInv, Next, pc = "read", verdict' = "VERIFIED",
                      Patterns[pattern] # 0
               PROVE  Holds
    OBVIOUS
  <2>1. Read
    BY DEF Next, OpenBoard, NoBoard, CloseBoard, Hello, NoHello, SoftReset, Write
  <2> PICK missed \in SUBSET Regs :
         /\ rbuf' = regreadHVR(missed)
         /\ lostr' = [r \in Regs |-> IF r \in missed THEN lostr[r] + 1 ELSE lostr[r]]
    BY <2>1 DEF Read
  <2>2. \A r \in Regs : rbuf'[r] \in {0, hvr[Chip][r]}
    BY <2>1, ReadFacts DEF Read, chips
  <2>3. verdict' = "FAILED" \/ verdict' = verdict \/ Equal(rbuf')
    BY <2>1 DEF Read
  <2>4. verdict = "none"
    BY DEF IInv, Fresh
  <2> QED BY <2>2, <2>3, <2>4 DEF Equal, Holds, Chip
<1> QED BY <1>1, Invariant, PTL DEF Spec, VerifiedIsHeld

\* "FAILED" for a chip without defects: its write was lost, or the reads of one
\* register were lost in all six tries.
THEOREM FailedHasReason == Spec => NoFalseAlarm
<1> DEFINE A == pc = "read" /\ verdict' = "FAILED" /\ Healthy(<<board, chip>>)
                  => lostw \/ \E r \in Regs : lostr'[r] = MaxRetry + 1
<1>1. IInv /\ [Next]_vars => [A]_vars
  <2> SUFFICES ASSUME IInv, Next, pc = "read", verdict' = "FAILED", Healthy(Chip), ~lostw
               PROVE  \E r \in Regs : lostr'[r] = MaxRetry + 1
    BY DEF Chip
  <2>1. Read
    BY DEF Next, OpenBoard, NoBoard, CloseBoard, Hello, NoHello, SoftReset, Write
  <2> PICK missed \in SUBSET Regs :
         /\ rbuf' = regreadHVR(missed)
         /\ lostr' = [r \in Regs |-> IF r \in missed THEN lostr[r] + 1 ELSE lostr[r]]
    BY <2>1 DEF Read
  <2>2. Holds
    BY DEF IInv, Intact
  <2>3. /\ \A r \in Regs : lostr'[r] \in 0 .. count + 1
        /\ \A r \in Regs : lostr'[r] < count + 1 => rbuf'[r] = Patterns[pattern]
    BY <2>1, <2>2, ReadFacts DEF Read, chips
  <2>4. ~Equal(rbuf') /\ ~TriesLeft
    <3>1. verdict = "none"
      BY DEF IInv, Fresh
    <3> QED BY <2>1, <3>1 DEF Read, Verified
  <2>5. PICK r \in Regs : rbuf'[r] # Patterns[pattern]
    BY <2>4 DEF Equal
  <2>6. count = MaxRetry /\ count \in Nat
    BY <2>4 DEF IInv, TypeOK, TriesLeft, MaxRetry
  <2>7. lostr'[r] = MaxRetry + 1
    BY <2>3, <2>5, <2>6
  <2> QED BY <2>7
<1> QED BY <1>1, Invariant, PTL DEF Spec, NoFalseAlarm
-----------------------------------------------------------------------------
(* bnt_devtest ends by itself: the steps it may still take become fewer.    *)

LEMMA Sizes ==
    ASSUME TypeOK
    PROVE  /\ PerTest = 7 /\ PerChip = 58 /\ TestsLeft \in 0 .. 7
           /\ FirstChip <= LastChip
           /\ PerBoard = 58 * (LastChip + 1 - FirstChip) + 2 /\ PerBoard \in Nat
<1>1. PerTest = 7 /\ PerChip = 58
  BY DEF PerTest, PerChip, MaxRetry
<1>2. TestsLeft \in 0 .. 7
  BY PatternFacts DEF TypeOK, TestsLeft
<1>3. FirstChip <= LastChip
  <2>1. opt \in Option
    BY OptionsAssumption DEF TypeOK
  <2> QED BY <2>1, Numbers DEF FirstChip, LastChip
<1> QED BY <1>1, <1>2, <1>3, Numbers DEF PerBoard

\* The boards after this one.
LEMMA BoardsLeft ==
    ASSUME IInv, pc # "done"
    PROVE  /\ (LastBoard - board) * PerBoard \in Nat
           /\ board < LastBoard => (LastBoard - (board + 1)) * PerBoard
                                     = (LastBoard - board) * PerBoard - PerBoard
<1>1. LastBoard \in Int /\ board \in Int /\ LastBoard - board \in Nat /\ PerBoard \in Nat
  BY Numbers, Sizes DEF IInv, Shape
<1>2. (LastBoard - board) * PerBoard \in Nat
  <2>1. \A a, b \in Nat : a * b \in Nat
    BY SMT
  <2> QED BY <1>1, <2>1, Zenon
<1>3. (LastBoard - (board + 1)) * PerBoard = (LastBoard - board) * PerBoard - PerBoard
  <2>1. \A a, b, c \in Int : (a - (b + 1)) * c = (a - b) * c - c
    BY SMT
  <2>2. PerBoard \in Int
    BY <1>1
  <2> QED BY <1>1, <2>1, <2>2, Zenon
<1> QED BY <1>2, <1>3

\* In each place of the program, the steps that are left, where R is the share of
\* the boards after this one.
LEMMA LeftAt ==
    ASSUME TypeOK, NEW R, R = (LastBoard - board) * PerBoard
    PROVE  /\ pc = "done"  => StepsLeft = 0
           /\ pc = "board" => StepsLeft = R + PerBoard
           /\ pc = "hello" /\ chip > LastChip => StepsLeft = R + 1
           /\ pc = "hello" /\ ~(chip > LastChip)
                => StepsLeft = R + ((58 * (LastChip - chip) + 1) + 58)
           /\ pc = "reset" => StepsLeft = R + (58 * (LastChip - chip) + 1) + 8 * 7 + 1
           /\ pc = "write" => StepsLeft = R + (58 * (LastChip - chip) + 1)
                                            + 7 * (TestsLeft + 1)
           /\ pc = "read"  => StepsLeft = R + (58 * (LastChip - chip) + 1)
                                            + 7 * (TestsLeft + 1) - 1 - count
  BY Sizes DEF StepsLeft

LEMMA LeftIsNat == ASSUME IInv PROVE StepsLeft \in Nat
<1>0. TypeOK /\ Shape
  BY DEF IInv
<1>1. CASE pc = "done"
  BY <1>0, <1>1, LeftAt
<1>2. CASE pc # "done"
  <2>1. PICK R \in Nat : R = (LastBoard - board) * PerBoard
    BY <1>2, BoardsLeft
  <2>2. /\ chip \in 0 .. 128 /\ LastChip \in 0 .. 63 /\ PerBoard \in Nat
        /\ TestsLeft \in 0 .. 7 /\ count \in 0 .. 5
        /\ pc \in Testing => chip <= LastChip
    BY <1>0, Numbers, Sizes DEF TypeOK, Shape, MaxRetry
  <2> QED BY <1>0, <1>2, <2>1, <2>2, LeftAt DEF TypeOK, Testing
<1> QED BY <1>1, <1>2

\* The chip is left, at the latest after a try of its last test.
LEMMA ChipShortens ==
    ASSUME IInv, pc \in AtChip, chip <= LastChip, UNCHANGED <<opt, board>>,
           pc' = "hello", chip' = chip + ChipStep
    PROVE  StepsLeft' < StepsLeft
<1>0. TypeOK
  BY DEF IInv
<1>1. PICK R \in Nat : R = (LastBoard - board) * PerBoard
  BY BoardsLeft DEF AtChip
<1>2. /\ chip \in 0 .. 128 /\ LastChip \in 0 .. 63 /\ ChipStep \in 1 .. 32
      /\ TestsLeft \in 0 .. 7 /\ count \in 0 .. 5
  BY <1>0, Numbers, Sizes DEF TypeOK, MaxRetry
<1>3. StepsLeft >= R + (58 * (LastChip - chip) + 1) + 1
  BY <1>0, <1>1, <1>2, LeftAt DEF AtChip
<1>4. StepsLeft' \in {R + 1, R + ((58 * (LastChip - chip') + 1) + 58)}
      /\ (StepsLeft' # R + 1 => chip' <= LastChip)
  <2>1. UNCHANGED <<LastBoard, LastChip, PerBoard>>
    BY DEF LastBoard, LastChip, FirstChip, PerBoard
  <2>2. StepsLeft' = R + IF chip' > LastChip THEN 1
                         ELSE (58 * (LastChip - chip') + 1) + 58
    BY <1>0, <1>1, <2>1, Sizes DEF StepsLeft, PerChip, PerTest
  <2>3. CASE chip' > LastChip
    BY <2>2, <2>3
  <2>4. CASE ~(chip' > LastChip)
    <3>1. StepsLeft' = R + ((58 * (LastChip - chip') + 1) + 58)
      BY <2>2, <2>4
    <3>2. chip' <= LastChip
      BY <1>2, <2>4
    <3> QED BY <3>1, <3>2
  <2> QED BY <2>3, <2>4
<1>5. StepsLeft \in Nat
  BY LeftIsNat
<1> QED BY <1>1, <1>2, <1>3, <1>4, <1>5

LEMMA StepShortens == ASSUME IInv, IInv', Next PROVE StepsLeft' < StepsLeft
<1>0. TypeOK /\ TypeOK' /\ Shape
  BY DEF IInv
<1>1. pc # "done" /\ UNCHANGED opt
  BY DEF Next, OpenBoard, NoBoard, CloseBoard, Hello, NoHello, SoftReset, Write, Read
<1>2. PICK R \in Nat : R = (LastBoard - board) * PerBoard
  BY <1>1, BoardsLeft
<1>3. /\ board \in 0 .. 4 /\ chip \in 0 .. 128 /\ LastChip \in 0 .. 63
      /\ FirstChip \in 0 .. 63 /\ FirstChip <= LastChip
      /\ PerBoard = 58 * (LastChip + 1 - FirstChip) + 2 /\ PerBoard \in Nat
      /\ TestsLeft \in 0 .. 7 /\ count \in 0 .. 5
      /\ LastBoard \in 0 .. 3 /\ board <= LastBoard
      /\ pc \in Testing => chip <= LastChip
  BY <1>0, <1>1, Numbers, Sizes DEF TypeOK, Shape, MaxRetry
<1>4. UNCHANGED <<LastBoard, FirstChip, LastChip, PerBoard>>
  BY <1>1 DEF LastBoard, LastChip, FirstChip, PerBoard
<1>5. CASE NoBoard \/ CloseBoard
  <2>1. StepsLeft \in {R + PerBoard, R + 1}
    BY <1>0, <1>2, <1>3, <1>5, LeftAt DEF NoBoard, CloseBoard
  <2>2. CASE board < LastBoard
    <3>1. pc' = "board" /\ board' = board + 1
      BY <1>5, <2>2 DEF NoBoard, CloseBoard, NextBoard
    <3>2. StepsLeft' = (LastBoard - (board + 1)) * PerBoard + PerBoard
      BY <1>4, <3>1 DEF StepsLeft
    <3>3. StepsLeft' = R
      BY <1>1, <1>2, <1>3, <2>2, <3>2, BoardsLeft
    <3> QED BY <1>3, <2>1, <3>3
  <2>3. CASE ~(board < LastBoard)
    <3>1. pc' = "done"
      BY <1>5, <2>3 DEF NoBoard, CloseBoard, NextBoard
    <3>2. StepsLeft' = 0
      BY <3>1 DEF StepsLeft
    <3> QED BY <1>3, <2>1, <3>2
  <2> QED BY <2>2, <2>3
<1>6. CASE OpenBoard
  <2>1. pc = "board" /\ pc' = "hello" /\ chip' = FirstChip /\ board' = board
    BY <1>6 DEF OpenBoard
  <2>2. StepsLeft' = R + ((58 * (LastChip - FirstChip) + 1) + 58)
    BY <1>0, <1>2, <1>3, <1>4, <2>1, Sizes DEF StepsLeft, PerChip, PerTest
  <2>3. StepsLeft = R + PerBoard
    BY <1>0, <1>2, <2>1, LeftAt
  <2> QED BY <1>3, <2>2, <2>3
<1>7. CASE Hello
  <2>1. pc = "hello" /\ chip <= LastChip /\ pc' = "reset" /\ UNCHANGED <<chip, board>>
    BY <1>7 DEF Hello
  <2>2. StepsLeft = R + ((58 * (LastChip - chip) + 1) + 58)
    BY <1>0, <1>2, <1>3, <2>1, LeftAt
  <2>3. StepsLeft' = R + (58 * (LastChip - chip) + 1) + 8 * 7 + 1
    BY <1>0, <1>2, <1>4, <2>1, Sizes DEF StepsLeft, PerChip, PerTest
  <2> QED BY <1>3, <2>2, <2>3
<1>8. CASE NoHello
  BY <1>8, ChipShortens DEF NoHello, AtChip
<1>9. CASE SoftReset
  <2>1. /\ pc = "reset" /\ pc' = "write" /\ pattern' = 1 /\ bcast' = FALSE
        /\ UNCHANGED <<chip, board>>
    BY <1>9 DEF SoftReset
  <2>2. StepsLeft = R + (58 * (LastChip - chip) + 1) + 8 * 7 + 1
    BY <1>0, <1>2, <2>1, LeftAt
  <2>3. TestsLeft' = 7
    BY <2>1 DEF TestsLeft
  <2>4. StepsLeft' = R + (58 * (LastChip - chip) + 1) + 7 * (TestsLeft' + 1)
    BY <1>0, <1>2, <1>4, <2>1, Sizes DEF StepsLeft, PerChip, PerTest
  <2> QED BY <1>3, <2>2, <2>3, <2>4
<1>10. CASE Write
  <2>1. /\ pc = "write" /\ pc' = "read" /\ count' = 0
        /\ UNCHANGED <<chip, board, pattern, bcast>>
    BY <1>10 DEF Write
  <2>2. StepsLeft = R + (58 * (LastChip - chip) + 1) + 7 * (TestsLeft + 1)
    BY <1>0, <1>2, <2>1, LeftAt
  <2>3. TestsLeft' = TestsLeft
    BY <2>1 DEF TestsLeft
  <2>4. StepsLeft' = R + (58 * (LastChip - chip) + 1) + 7 * (TestsLeft + 1) - 1 - 0
    BY <1>0, <1>2, <1>4, <2>1, <2>3, Sizes DEF StepsLeft, PerChip, PerTest
  <2> QED BY <1>3, <2>2, <2>4
<1>11. CASE Read
  <2>1. pc = "read" /\ board' = board /\ chip <= LastChip
    BY <1>3, <1>11 DEF Read, Testing
  <2>2. StepsLeft = R + (58 * (LastChip - chip) + 1) + 7 * (TestsLeft + 1) - 1 - count
    BY <1>0, <1>2, <2>1, LeftAt
  <2>3. CASE Verified /\ pc' = "write"
    <3>1. chip' = chip
      BY <2>3 DEF Verified, NextChip
    <3>2. TestsLeft' = TestsLeft - 1
      BY <1>0, <2>3, PatternFacts DEF Verified, NextChip, TestsLeft, TypeOK
    <3>3. StepsLeft' = R + (58 * (LastChip - chip) + 1) + 7 * (TestsLeft' + 1)
      BY <1>0, <1>2, <1>4, <2>1, <2>3, <3>1, Sizes DEF StepsLeft, PerChip, PerTest
    <3> QED BY <1>3, <2>2, <3>2, <3>3
  <2>4. CASE pc' = "hello" /\ chip' = chip + ChipStep
    BY <1>1, <2>1, <2>4, ChipShortens DEF AtChip
  <2>5. CASE count' = count + 1 /\ UNCHANGED <<pc, chip, pattern, bcast>>
    <3>1. TestsLeft' = TestsLeft
      BY <2>5 DEF TestsLeft
    <3>2. StepsLeft' = R + (58 * (LastChip - chip) + 1) + 7 * (TestsLeft + 1) - 1
                         - (count + 1)
      BY <1>0, <1>2, <1>4, <2>1, <2>5, <3>1, Sizes DEF StepsLeft, PerChip, PerTest
    <3> QED BY <1>3, <2>2, <3>2
  <2> QED BY <1>11, <2>3, <2>4, <2>5 DEF Read, Verified, NextChip
<1> QED BY <1>5, <1>6, <1>7, <1>8, <1>9, <1>10, <1>11 DEF Next

\* bnt_devtest is over within MaxSteps steps, for any chips, defects and command
\* line and whatever is lost: a chip that answers wrongly or not at all costs no
\* more than its eight tests with six tries each.
THEOREM EndsInSteps ==
    Spec => [](StepsLeft \in 0 .. MaxSteps) /\ [][StepsLeft' < StepsLeft]_vars
<1> DEFINE Natural == StepsLeft \in Nat
           Bounded == StepsLeft \in 0 .. MaxSteps
<1>n. IInv => Natural
  BY LeftIsNat
<1>1. Init => Bounded
  <2> SUFFICES ASSUME Init PROVE Bounded
    OBVIOUS
  <2>1. IInv
    BY InitInvariant
  <2>2. pc = "board" /\ board = FirstBoard /\ TypeOK
    BY <2>1 DEF Init, IInv
  <2>3. StepsLeft = (LastBoard - FirstBoard) * PerBoard + PerBoard
    BY <2>2 DEF StepsLeft
  <2>4. MaxSteps = (LastBoard - FirstBoard) * PerBoard + PerBoard
    <3>1. \A a, b, c \in Int : (a + 1 - b) * c = (a - b) * c + c
      BY SMT
    <3>2. LastBoard \in Int /\ FirstBoard \in Int /\ PerBoard \in Int
      BY <2>2, Numbers, Sizes
    <3> QED BY <3>1, <3>2, Zenon DEF MaxSteps
  <2>5. StepsLeft \in Nat
    BY <2>1, LeftIsNat
  <2> QED BY <2>3, <2>4, <2>5
<1>2. IInv /\ IInv' /\ [Next]_vars => [StepsLeft' < StepsLeft]_vars
  BY StepShortens
<1>3. IInv /\ IInv' /\ Natural' /\ Bounded /\ [Next]_vars => Bounded'
  <2> SUFFICES ASSUME IInv, IInv', Natural', Bounded, [Next]_vars PROVE Bounded'
    OBVIOUS
  <2>1. StepsLeft \in Nat /\ StepsLeft' \in Nat
    BY <1>n
  <2>2. StepsLeft' <= StepsLeft
    <3>1. CASE Next
      BY <2>1, <3>1, StepShortens
    <3>2. CASE UNCHANGED vars
      <4>1. UNCHANGED <<LastBoard, LastChip, FirstChip, PerBoard, TestsLeft>>
        BY <3>2 DEF vars, LastBoard, LastChip, FirstChip, PerBoard, TestsLeft
      <4>2. UNCHANGED <<pc, board, chip, count>>
        BY <3>2 DEF vars
      <4>3. StepsLeft' = StepsLeft
        BY <4>1, <4>2, Zenon DEF StepsLeft
      <4> QED BY <2>1, <4>3
    <3> QED BY <3>1, <3>2
  <2>3. MaxSteps' = MaxSteps /\ MaxSteps \in Int
    <3>1. UNCHANGED opt
      BY DEF Next, OpenBoard, NoBoard, CloseBoard, Hello, NoHello, SoftReset, Write, Read,
             vars
    <3>2. TypeOK
      BY DEF IInv
    <3>3. LastBoard + 1 - FirstBoard \in Nat /\ PerBoard \in Nat
      BY <3>2, Numbers, Sizes
    <3>4. \A a, b \in Nat : a * b \in Nat
      BY SMT
    <3>5. MaxSteps \in Nat
      BY <3>3, <3>4, Zenon DEF MaxSteps
    <3> QED BY <3>1, <3>5 DEF MaxSteps, LastBoard, FirstBoard, LastChip, FirstChip, PerBoard
  <2> QED BY <2>1, <2>2, <2>3
<1> QED BY <1>n, <1>1, <1>2, <1>3, Invariant, PTL DEF Spec
=============================================================================

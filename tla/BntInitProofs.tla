---------------------------- MODULE BntInitProofs ----------------------------
(***************************************************************************)
(* bnt_init configures every chip of every open board, for any fitted       *)
(* chips, nchips and mask, if at most seven transactions are lost (two if   *)
(* the chips of one board held different values before), keeps its contract *)
(* BntConfigure, and is over within a number of steps.                      *)
(*                                                                          *)
(* The argument counts losses.  While board is being verified, it is either *)
(* configured or has cost the environment Debt losses: one for the write of *)
(* the ssr loop, one per lost try of a retry loop, one for a lost first     *)
(* read.  A lost first read is only believed for chip 0, when the buffer    *)
(* still holds what was written; so a second polled id, and there always is *)
(* one, raises the debt beyond seven.                                       *)
(***************************************************************************)
EXTENDS BntInit, TLAPS

Step == IdStep(NChips)
Verifying == {"verify", "retry", "reread"}

\* Losses that an unconfigured board has cost before its chip c is read.
Base(c) == IF c = 0 THEN 1 ELSE IF c = Step THEN 2 ELSE 8

Debt == CASE pc = "verify" -> Base(chip)
          [] pc = "retry"  -> Base(chip) + retry
          [] pc = "reread" -> Base(chip) + retry + 1

\* Writes of the whole board b so far, up to the ssr loop.
Writes(b) == CASE pc = "reset"   -> IF b < board THEN 2 ELSE 0
               [] pc = "release" -> IF b < board THEN 2
                                    ELSE IF b = board THEN 1 ELSE 0
               [] pc = "ssr"     -> IF b < board THEN 3 ELSE 2
               [] OTHER          -> 3

\* Where the counters and the buffer stand.
ControlInv ==
    /\ pc \in {"release", "retry", "reread"} => board \in open
    /\ pc \notin {"retry", "reread"} => retry = 0
    /\ chip # 0 => pc \in Verifying /\ board \in open
    /\ pc \in {"retry", "reread"} => chip < MAX_NCHIPS_PER_BOARD
    /\ chip % Step = 0
    /\ pc = "verify" /\ chip # 0 => buf = Cleared

BudgetInv == faults <= IF mixed THEN MaxFaultsMixed ELSE MaxFaults

\* The reset bit comes with nothing else.
ResetBitInv == \A k \in Fitted : ssr[k].rst => ~ssr[k].b64

\* Only lost broadcasts keep the chips of a board apart.
UniformInv == \A b \in open : Uniform(b) \/ (mixed /\ faults >= Writes(b))

\* What it has cost that board b is not configured.
Paid(b) == \/ pc \in {"reset", "release"}
           \/ pc = "ssr" /\ b >= board
           \/ pc \in {"ssr", "psr"} /\ faults >= 1
           \/ pc \in Verifying /\ b > board /\ faults >= 1
           \/ pc \in Verifying /\ b = board /\ faults >= Debt

LossInv == \A b \in open : Configured(b) \/ Paid(b)

OpenInv == \A b \in open : <<b, 0>> \in Fitted

IInv == /\ TypeOK /\ ControlInv /\ BudgetInv /\ ResetBitInv
        /\ UniformInv /\ LossInv /\ OpenInv
-----------------------------------------------------------------------------
\* Polled ids are a divisor of 64, at most 32, apart.
LEMMA StepFacts == Step \in {1, 2, 4, 8, 16, 32}
  BY DEF Step, IdStep

\* The chip loop walks from 0 to exactly 64 and meets 0 and Step on its way.
LEMMA NextPolled ==
  ASSUME NEW c \in 0 .. MAX_NCHIPS_PER_BOARD,
         c % Step = 0, c < MAX_NCHIPS_PER_BOARD
  PROVE  /\ c + Step \in 0 .. MAX_NCHIPS_PER_BOARD
         /\ (c + Step) % Step = 0
  <1>1. CASE Step = 1   BY <1>1 DEF MAX_NCHIPS_PER_BOARD
  <1>2. CASE Step = 2   BY <1>2 DEF MAX_NCHIPS_PER_BOARD
  <1>3. CASE Step = 4   BY <1>3 DEF MAX_NCHIPS_PER_BOARD
  <1>4. CASE Step = 8   BY <1>4 DEF MAX_NCHIPS_PER_BOARD
  <1>5. CASE Step = 16  BY <1>5 DEF MAX_NCHIPS_PER_BOARD
  <1>6. CASE Step = 32  BY <1>6 DEF MAX_NCHIPS_PER_BOARD
  <1> QED  BY <1>1, <1>2, <1>3, <1>4, <1>5, <1>6, StepFacts

\* A write leaves a register file of the same type.
LEMMA RegwriteType ==
  ASSUME NEW S, NEW file \in [Fitted -> S], NEW b, NEW c, NEW v \in S,
         NEW bcast \in BOOLEAN, NEW ok \in BOOLEAN
  PROVE  regwrite(file, b, c, v, bcast, ok) \in [Fitted -> S]
  BY DEF regwrite

\* A read returns a value of the type of the registers and the buffer.
LEMMA RegreadType ==
  ASSUME NEW S, NEW file \in [Fitted -> S], NEW b, NEW c, NEW buffer \in S,
         NEW idle \in S, NEW ok \in BOOLEAN
  PROVE  regread(file, b, c, buffer, idle, ok) \in S
  BY DEF regread

LEMMA Values == HandleSsr \in Ssr /\ SoftReset \in Ssr /\ Cleared \in Ssr
  BY MaskAssumption DEF HandleSsr, SoftReset, Cleared, Ssr

\* Masking what was read gives an SSR value again.
LEMMA MaskType ==
  ASSUME NEW v \in Ssr
  PROVE  And_FF04(v) \in Ssr /\ And_FF00(v) \in Ssr
  BY DEF And_FF04, And_FF00, Ssr

\* The retry's comparison cannot succeed: it looks at a cleared 64-bit flag.
LEMMA RetryNeverMatches ==
  ASSUME NEW v \in Ssr
  PROVE  And_FF00(v) # HandleSsr
  BY DEF And_FF00, Ssr, HandleSsr

-----------------------------------------------------------------------------
LEMMA InitType == Init => TypeOK /\ ControlInv
  <1> SUFFICES ASSUME Init PROVE TypeOK /\ ControlInv  OBVIOUS
  <1>1. ssr \in [Fitted -> Ssr]  BY StartAssumption DEF Init
  <1>2. ier \in [Fitted -> SUBSET IntKinds]  BY DEF Init, IntAll
  <1>3. 0 % Step = 0  BY StepFacts
  <1>4. faults \in 0 .. MaxFaults + MaxFaultsMixed
    BY FaultsAssumption DEF Init
  <1>5. mixed \in BOOLEAN /\ fast \in BOOLEAN
    BY ZenonT(20) DEF Init
  <1>6. open \subseteq Boards /\ pll = {} /\ flushed = {} /\ pc = "reset"
        /\ board = 0 /\ chip = 0 /\ retry = 0 /\ buf = Cleared
    BY DEF Init
  <1>7. TypeOK
    BY <1>1, <1>2, <1>4, <1>5, <1>6, Values
    DEF TypeOK, MAX_NBOARDS, MAX_NCHIPS_PER_BOARD, MaxRetry
  <1>8. ControlInv
    BY <1>3, <1>6 DEF ControlInv
  <1> QED  BY <1>7, <1>8
-----------------------------------------------------------------------------
Control == TypeOK /\ ControlInv /\ BudgetInv

\* A transaction is lost only while the budget lasts.
LEMMA BusBudget ==
  ASSUME TypeOK, BudgetInv, NEW ok \in BOOLEAN, Bus(ok), UNCHANGED mixed
  PROVE  /\ BudgetInv'
         /\ faults' \in 0 .. MaxFaults + MaxFaultsMixed
         /\ faults' = IF ok THEN faults ELSE faults + 1
  <1>1. faults \in Nat /\ MaxFaults \in Nat /\ MaxFaultsMixed \in Nat
    BY FaultsAssumption DEF TypeOK
  <1>2. CASE ok
    BY <1>1, <1>2, FaultsAssumption DEF Bus, BudgetInv, TypeOK
  <1>3. CASE ~ok /\ mixed
    BY <1>1, <1>3 DEF Bus, BudgetInv
  <1>4. CASE ~ok /\ ~mixed
    BY <1>1, <1>4 DEF Bus, BudgetInv
  <1> QED  BY <1>2, <1>3, <1>4

\* Going on to the next polled id keeps the counters in range.
LEMMA NextChipControl ==
  ASSUME Control, NextChip, board \in open, chip < MAX_NCHIPS_PER_BOARD,
         UNCHANGED <<chips, env, board>>,
         BudgetInv', faults' \in 0 .. MaxFaults + MaxFaultsMixed
  PROVE  Control'
  <1>1. /\ chip' \in 0 .. MAX_NCHIPS_PER_BOARD /\ chip' % Step = 0
        /\ pc' = "verify" /\ retry' = 0 /\ buf' = Cleared
    BY NextPolled DEF Control, TypeOK, ControlInv, NextChip, Step
  <1>2. TypeOK'
    BY <1>1, Values DEF Control, TypeOK, chips, env, MaxRetry
  <1>3. ControlInv'
    BY <1>1 DEF ControlInv, Verifying, env
  <1> QED  BY <1>2, <1>3 DEF Control

LEMMA ControlStep == Control /\ [Next]_vars => Control'
  <1> SUFFICES ASSUME Control, [Next]_vars PROVE Control'  OBVIOUS
  <1> USE DEF Control
  <1>a. TypeOK /\ ControlInv /\ BudgetInv  OBVIOUS
  <1>0. open \subseteq Boards /\ Boards = 0 .. 3 /\ MAX_NBOARDS = 4
    BY <1>a DEF TypeOK, Boards, MAX_NBOARDS
  <1>1. CASE ResetSet
    <2> PICK ok \in BOOLEAN :
          /\ Bus(ok)
          /\ ssr' = regwrite(ssr, board, 0, SoftReset, TRUE, ok)
          /\ ier' \in {ier, regwrite(ier, board, 0, {}, TRUE, ok)}
          /\ flushed' = IF ok THEN flushed \cup {board} ELSE flushed
      BY <1>1 DEF ResetSet
    <2>1. BudgetInv' /\ faults' \in 0 .. MaxFaults + MaxFaultsMixed
      BY <1>1, <1>a, BusBudget DEF ResetSet, env
    <2>2. ssr' \in [Fitted -> Ssr] /\ ier' \in [Fitted -> SUBSET IntKinds]
      <3>1. regwrite(ssr, board, 0, SoftReset, TRUE, ok) \in [Fitted -> Ssr]
        BY <1>a, Values, RegwriteType DEF TypeOK
      <3>2. regwrite(ier, board, 0, {}, TRUE, ok) \in [Fitted -> SUBSET IntKinds]
        BY <1>a, RegwriteType DEF TypeOK
      <3> QED  BY <1>a, <3>1, <3>2 DEF TypeOK
    <2>3. TypeOK'
      BY <1>1, <1>a, <2>1, <2>2 DEF ResetSet, TypeOK, env, AtBoard
    <2>4. ControlInv'
      BY <1>1, <1>a DEF ResetSet, ControlInv, env, AtBoard, Verifying
    <2> QED  BY <2>1, <2>3, <2>4
  <1>2. CASE ResetRelease
    <2> PICK ok \in BOOLEAN :
          /\ Bus(ok)
          /\ ssr' = regwrite(ssr, board, 0, Cleared, TRUE, ok)
      BY <1>2 DEF ResetRelease
    <2>1. BudgetInv' /\ faults' \in 0 .. MaxFaults + MaxFaultsMixed
      BY <1>2, <1>a, BusBudget DEF ResetRelease, env
    <2>2. ssr' \in [Fitted -> Ssr]
      BY <1>a, Values, RegwriteType DEF TypeOK
    <2>3. board' \in 0 .. MAX_NBOARDS
      <3>1. board \in open /\ board' = board + 1
        BY <1>2, <1>a DEF ResetRelease, ControlInv
      <3> QED  BY <3>1, <1>0
    <2>4. TypeOK'
      BY <1>2, <1>a, <2>1, <2>2, <2>3 DEF ResetRelease, TypeOK, env
    <2>5. ControlInv'
      BY <1>2, <1>a DEF ResetRelease, ControlInv, env, Verifying
    <2> QED  BY <2>1, <2>4, <2>5
  <1>3. CASE WriteSsr
    <2> PICK ok \in BOOLEAN :
          /\ Bus(ok)
          /\ ssr' = regwrite(ssr, board, 0, HandleSsr, TRUE, ok)
      BY <1>3 DEF WriteSsr
    <2>1. BudgetInv' /\ faults' \in 0 .. MaxFaults + MaxFaultsMixed
      BY <1>3, <1>a, BusBudget DEF WriteSsr, env
    <2>2. ssr' \in [Fitted -> Ssr]
      BY <1>a, Values, RegwriteType DEF TypeOK
    <2>3. board' \in 0 .. MAX_NBOARDS
      BY <1>3, <1>0 DEF WriteSsr, AtBoard
    <2>4. TypeOK'
      BY <1>3, <1>a, <2>1, <2>2, <2>3 DEF WriteSsr, TypeOK, env
    <2>5. ControlInv'
      BY <1>3, <1>a DEF WriteSsr, ControlInv, env, AtBoard, Verifying
    <2> QED  BY <2>1, <2>4, <2>5
  <1>4. CASE WritePsr
    <2>1. BudgetInv' /\ faults' \in 0 .. MaxFaults + MaxFaultsMixed
      BY <1>4, <1>a, BusBudget DEF WritePsr, env
    <2>2. board' \in 0 .. MAX_NBOARDS /\ pll' \subseteq open
      BY <1>4, <1>0, <1>a DEF WritePsr, AtBoard, TypeOK
    <2>3. TypeOK'
      BY <1>4, <1>a, <2>1, <2>2 DEF WritePsr, TypeOK, env
    <2>4. ControlInv'
      BY <1>4, <1>a DEF WritePsr, ControlInv, env, AtBoard, Verifying
    <2> QED  BY <2>1, <2>3, <2>4
  <1>5. CASE VerifyRead
    <2> PICK ok \in BOOLEAN :
          LET seen == And_FF04(regread(ssr, board, chip, buf, Cleared, ok)) IN
          /\ Bus(ok)
          /\ \/ seen = HandleSsr /\ NextChip
             \/ /\ seen # HandleSsr
                /\ pc' = "retry" /\ buf' = seen /\ UNCHANGED <<chip, retry>>
      BY <1>5 DEF VerifyRead
    <2>1. BudgetInv' /\ faults' \in 0 .. MaxFaults + MaxFaultsMixed
      BY <1>5, <1>a, BusBudget DEF VerifyRead, env
    <2>2. CASE NextChip
      BY <1>5, <2>1, <2>2, NextChipControl DEF VerifyRead, AtBoard
    <2>3. CASE pc' = "retry" /\ UNCHANGED <<chip, retry>>
               /\ buf' = And_FF04(regread(ssr, board, chip, buf, Cleared, ok))
      <3>1. buf' \in Ssr
        BY <1>a, <2>3, Values, MaskType, RegreadType DEF TypeOK
      <3>2. TypeOK'
        BY <1>5, <1>a, <2>1, <2>3, <3>1 DEF VerifyRead, TypeOK, env, chips
      <3>3. ControlInv'
        BY <1>5, <1>a, <2>3
        DEF VerifyRead, ControlInv, env, AtBoard, Verifying
      <3> QED  BY <2>1, <3>2, <3>3
    <2> QED  BY <2>2, <2>3
  <1>6. CASE VerifyNextBoard
    <2>1. board' \in 0 .. MAX_NBOARDS /\ 0 % Step = 0
      BY <1>6, <1>0, StepFacts DEF VerifyNextBoard, AtBoard
    <2>2. TypeOK'
      BY <1>6, <1>a, <2>1
      DEF VerifyNextBoard, TypeOK, env, chips, MAX_NCHIPS_PER_BOARD, AtBoard
    <2>3. ControlInv'
      BY <1>6, <1>a, <2>1
      DEF VerifyNextBoard, ControlInv, env, AtBoard, Verifying
    <2>4. BudgetInv'
      BY <1>6, <1>a DEF VerifyNextBoard, BudgetInv, env
    <2> QED  BY <2>2, <2>3, <2>4
  <1>7. CASE RetryWrite
    <2> PICK ok \in BOOLEAN :
          /\ Bus(ok)
          /\ ssr' = regwrite(ssr, board, 0, HandleSsr, TRUE, ok)
      BY <1>7 DEF RetryWrite
    <2>1. BudgetInv' /\ faults' \in 0 .. MaxFaults + MaxFaultsMixed
      BY <1>7, <1>a, BusBudget DEF RetryWrite, env
    <2>2. ssr' \in [Fitted -> Ssr]
      BY <1>a, Values, RegwriteType DEF TypeOK
    <2>3. TypeOK'
      BY <1>7, <1>a, <2>1, <2>2, Values DEF RetryWrite, TypeOK, env
    <2>4. ControlInv'
      BY <1>7, <1>a DEF RetryWrite, ControlInv, env, Verifying
    <2> QED  BY <2>1, <2>3, <2>4
  <1>8. CASE RetryRead
    <2> PICK ok \in BOOLEAN :
          LET seen == And_FF00(regread(ssr, board, chip, buf, Cleared, ok)) IN
          /\ Bus(ok)
          /\ \/ /\ seen # HandleSsr /\ retry < MaxRetry
                /\ retry' = retry + 1
                /\ pc' = "retry" /\ buf' = seen /\ UNCHANGED chip
             \/ (seen = HandleSsr \/ retry >= MaxRetry) /\ NextChip
      BY <1>8 DEF RetryRead
    <2>1. BudgetInv' /\ faults' \in 0 .. MaxFaults + MaxFaultsMixed
      BY <1>8, <1>a, BusBudget DEF RetryRead, env
    <2>2. board \in open /\ chip < MAX_NCHIPS_PER_BOARD
      BY <1>8, <1>a DEF RetryRead, ControlInv
    <2>3. CASE NextChip
      BY <1>8, <2>1, <2>2, <2>3, NextChipControl DEF RetryRead
    <2>4. CASE /\ retry < MaxRetry /\ retry' = retry + 1
               /\ pc' = "retry" /\ UNCHANGED chip
               /\ buf' = And_FF00(regread(ssr, board, chip, buf, Cleared, ok))
      <3>1. buf' \in Ssr /\ retry' \in 0 .. MaxRetry
        BY <1>a, <2>4, Values, MaskType, RegreadType DEF TypeOK, MaxRetry
      <3>2. TypeOK'
        BY <1>8, <1>a, <2>1, <2>4, <3>1 DEF RetryRead, TypeOK, env, chips
      <3>3. ControlInv'
        BY <1>8, <1>a, <2>2, <2>4 DEF RetryRead, ControlInv, env, Verifying
      <3> QED  BY <2>1, <3>2, <3>3
    <2> QED  BY <2>3, <2>4
  <1>9. CASE SetInterrupt
    <2> PICK ok \in BOOLEAN, seen \in SUBSET IntKinds :
          /\ Bus(ok)
          /\ ier' = regwrite(ier, board, 0, seen \cup IntAll, TRUE, ok)
      BY <1>9 DEF SetInterrupt
    <2>1. BudgetInv' /\ faults' \in 0 .. MaxFaults + MaxFaultsMixed
      BY <1>9, <1>a, BusBudget DEF SetInterrupt, env
    <2>2. ier' \in [Fitted -> SUBSET IntKinds]
      <3>1. seen \cup IntAll \in SUBSET IntKinds  BY DEF IntAll
      <3> QED  BY <1>a, <3>1, RegwriteType DEF TypeOK
    <2>3. board' \in 0 .. MAX_NBOARDS
      BY <1>9, <1>0 DEF SetInterrupt, AtBoard
    <2>4. TypeOK'
      BY <1>9, <1>a, <2>1, <2>2, <2>3 DEF SetInterrupt, TypeOK, env
    <2>5. ControlInv'
      BY <1>9, <1>a DEF SetInterrupt, ControlInv, env, AtBoard, Verifying
    <2> QED  BY <2>1, <2>4, <2>5
  <1>10. CASE SkipBoard
    <2>1. board' \in 0 .. MAX_NBOARDS
      BY <1>10, <1>a, <1>0 DEF SkipBoard, TypeOK
    <2>2. TypeOK'
      BY <1>10, <1>a, <2>1 DEF SkipBoard, TypeOK, env, chips
    <2>3. ControlInv'
      BY <1>10, <1>a DEF SkipBoard, ControlInv, env, Verifying
    <2>4. BudgetInv'
      BY <1>10, <1>a DEF SkipBoard, BudgetInv, env
    <2> QED  BY <2>2, <2>3, <2>4
  <1>11. CASE EndLoop
    <2>1. /\ pc' \in {"ssr", "psr", "verify", "irq", "done"}
          /\ pc = "verify" => pc' = "irq"
          /\ buf' \in Ssr
      BY <1>11, <1>a, Values DEF EndLoop, After, TypeOK
    <2>2. chip = 0
      BY <1>11, <1>a, <1>0 DEF EndLoop, ControlInv
    <2>3. TypeOK'
      BY <1>11, <1>a, <1>0, <2>1 DEF EndLoop, TypeOK, env, chips
    <2>4. ControlInv'
      BY <1>11, <1>a, <2>1, <2>2 DEF EndLoop, ControlInv, env, Verifying
    <2>5. BudgetInv'
      BY <1>11, <1>a DEF EndLoop, BudgetInv, env
    <2> QED  BY <2>3, <2>4, <2>5
  <1>12. CASE UNCHANGED vars
    BY <1>12, <1>a DEF vars, TypeOK, ControlInv, BudgetInv, Verifying
  <1> QED
    BY <1>1, <1>2, <1>3, <1>4, <1>5, <1>6, <1>7, <1>8, <1>9, <1>10, <1>11,
       <1>12 DEF Next
-----------------------------------------------------------------------------
\* No step changes which boards are open, or forgets a loss.
LEMMA Frame ==
  ASSUME Control, [Next]_vars
  PROVE  /\ open' = open /\ mixed' = mixed
         /\ faults \in Nat /\ faults' \in {faults, faults + 1}
         /\ faults <= 7 /\ faults' <= 7
         /\ mixed => faults <= 2 /\ faults' <= 2
  <1>1. open' = open /\ mixed' = mixed /\ faults' \in {faults, faults + 1}
    BY DEF Next, ResetSet, ResetRelease, WriteSsr, WritePsr, VerifyRead,
           VerifyNextBoard, RetryWrite, RetryRead, SetInterrupt, SkipBoard,
           EndLoop, vars, env, Bus
  <1>2. Control'  BY ControlStep
  <1>3. faults \in Nat /\ faults' \in Nat
    BY <1>2, FaultsAssumption DEF Control, TypeOK
  <1>4. CASE mixed
    BY <1>1, <1>2, <1>3, <1>4, FaultsAssumption DEF Control, BudgetInv
  <1>5. CASE ~mixed
    BY <1>1, <1>2, <1>3, <1>5, FaultsAssumption DEF Control, BudgetInv
  <1> QED  BY <1>1, <1>3, <1>4, <1>5

\* SSRs change only by a broadcast to the current board, outside the reset
\* phase only by one of handle->ssr.
LEMMA SsrStep ==
  ASSUME Control, [Next]_vars
  PROVE  \/ ssr' = ssr
         \/ \E v \in {SoftReset, Cleared, HandleSsr}, ok \in BOOLEAN :
              /\ ssr' = regwrite(ssr, board, 0, v, TRUE, ok)
              /\ pc \notin {"reset", "release"} => v = HandleSsr
  <1>1. CASE ResetSet \/ ResetRelease
    BY <1>1 DEF ResetSet, ResetRelease, AtBoard
  <1>2. CASE WriteSsr \/ RetryWrite
    BY <1>2 DEF WriteSsr, RetryWrite
  <1>3. CASE WritePsr \/ SetInterrupt
    BY <1>3 DEF WritePsr, SetInterrupt
  <1>4. CASE VerifyRead \/ RetryRead
    BY <1>4 DEF VerifyRead, RetryRead, chips
  <1>5. CASE VerifyNextBoard \/ SkipBoard \/ EndLoop
    BY <1>5 DEF VerifyNextBoard, SkipBoard, EndLoop, chips
  <1>6. CASE UNCHANGED vars
    BY <1>6 DEF vars
  <1> QED  BY <1>1, <1>2, <1>3, <1>4, <1>5, <1>6 DEF Next

LEMMA ResetBitStep ==
  ASSUME Control, ResetBitInv, [Next]_vars
  PROVE  ResetBitInv'
  <1>1. CASE ssr' = ssr
    BY <1>1 DEF ResetBitInv
  <1>2. ASSUME NEW v \in {SoftReset, Cleared, HandleSsr}, NEW ok \in BOOLEAN,
               ssr' = regwrite(ssr, board, 0, v, TRUE, ok)
        PROVE  ResetBitInv'
    <2>1. v.rst => ~v.b64
      BY DEF SoftReset, Cleared, HandleSsr
    <2>2. ssr \in [Fitted -> Ssr]  BY DEF Control, TypeOK
    <2>3. ASSUME NEW k \in Fitted PROVE ssr'[k] \in {v, ssr[k]}
      BY <1>2, <2>2 DEF regwrite
    <2> QED  BY <2>1, <2>3 DEF ResetBitInv
  <1> QED  BY <1>1, <1>2, SsrStep

LEMMA UniformKept ==
  ASSUME Control, [Next]_vars, NEW b, Uniform(b)
  PROVE  Uniform(b)'
  <1>1. CASE ssr' = ssr
    BY <1>1 DEF Uniform
  <1>2. ASSUME NEW v \in {SoftReset, Cleared, HandleSsr}, NEW ok \in BOOLEAN,
               ssr' = regwrite(ssr, board, 0, v, TRUE, ok)
        PROVE  Uniform(b)'
    <2>1. ssr \in [Fitted -> Ssr]  BY DEF Control, TypeOK
    <2>2. ASSUME NEW k \in Fitted
          PROVE  ssr'[k] = IF ok /\ k[1] = board THEN v ELSE ssr[k]
      BY <1>2, <2>1 DEF regwrite
    <2> QED  BY <2>2 DEF Uniform
  <1> QED  BY <1>1, <1>2, SsrStep

\* A broadcast that arrives makes the board uniform.
LEMMA WriteUnifies ==
  ASSUME Control, NEW v, NEW b, b = board,
         ssr' = regwrite(ssr, board, 0, v, TRUE, TRUE)
  PROVE  Uniform(b)' /\ (v = HandleSsr => Configured(b)')
  <1>1. ssr \in [Fitted -> Ssr]  BY DEF Control, TypeOK
  <1>2. ASSUME NEW k \in Fitted, k[1] = b PROVE ssr'[k] = v
    BY <1>1, <1>2 DEF regwrite
  <1> QED  BY <1>2 DEF Uniform, Configured
-----------------------------------------------------------------------------
LEMMA UniformStep ==
  ASSUME Control, UniformInv, [Next]_vars
  PROVE  UniformInv'
  <1> SUFFICES ASSUME NEW b \in open, ~Uniform(b)'
               PROVE  mixed /\ faults' >= Writes(b)'
    BY Frame DEF UniformInv
  <1>1. mixed /\ faults >= Writes(b)
    BY UniformKept DEF UniformInv
  <1>2. /\ faults \in Nat /\ faults' \in {faults, faults + 1}
        /\ board \in 0 .. MAX_NBOARDS /\ b \in 0 .. MAX_NBOARDS - 1
    BY Frame DEF Control, TypeOK, Boards
  <1>3. CASE ResetSet \/ ResetRelease \/ WriteSsr
    <2>1. PICK v \in {SoftReset, Cleared, HandleSsr}, ok \in BOOLEAN :
            Bus(ok) /\ ssr' = regwrite(ssr, board, 0, v, TRUE, ok)
      BY <1>3 DEF ResetSet, ResetRelease, WriteSsr
    <2>2. b = board => ~ok
      BY <2>1, WriteUnifies
    <2>3. b = board => faults' = faults + 1
      BY <2>1, <2>2 DEF Bus
    <2>4. CASE ResetSet
      BY <1>1, <1>2, <2>3, <2>4 DEF ResetSet, AtBoard, Writes
    <2>5. CASE ResetRelease
      BY <1>1, <1>2, <2>3, <2>5 DEF ResetRelease, Writes
    <2>6. CASE WriteSsr
      BY <1>1, <1>2, <2>3, <2>6 DEF WriteSsr, AtBoard, Writes
    <2> QED  BY <1>3, <2>4, <2>5, <2>6
  <1>4. CASE WritePsr \/ VerifyRead \/ VerifyNextBoard \/ RetryWrite
             \/ RetryRead \/ SetInterrupt
    <2>1. Writes(b) = 3 /\ Writes(b)' = 3
      BY <1>4 DEF WritePsr, VerifyRead, VerifyNextBoard, RetryWrite, RetryRead,
                  SetInterrupt, AtBoard, NextChip, Writes
    <2> QED  BY <1>1, <1>2, <2>1
  <1>5. CASE SkipBoard
    <2>1. board # b  BY <1>5 DEF SkipBoard
    <2> QED  BY <1>1, <1>2, <1>5, <2>1 DEF SkipBoard, Writes
  <1>6. CASE EndLoop
    <2>1. pc' \in {"ssr", "psr", "verify", "irq", "done"} /\ board' = 0
          /\ board = MAX_NBOARDS /\ pc \in {"reset", "ssr", "psr", "verify", "irq"}
          /\ (pc = "reset" <=> pc' = "ssr")
      BY <1>6 DEF EndLoop, After
    <2> QED  BY <1>1, <1>2, <2>1 DEF Writes, MAX_NBOARDS
  <1>7. CASE UNCHANGED vars
    BY <1>1, <1>7 DEF vars, Writes
  <1> QED  BY <1>3, <1>4, <1>5, <1>6, <1>7 DEF Next

\* From the verification on, three lost writes are more than a mixed board's
\* budget: chips of a board agree.
LEMMA VerifyUniform ==
  ASSUME Control, UniformInv, [Next]_vars,
         pc \notin {"reset", "release", "ssr"}, NEW b \in open
  PROVE  Uniform(b)
  <1>1. Writes(b) = 3  BY DEF Writes
  <1> QED  BY <1>1, Frame DEF UniformInv

\* Outside the reset phase a configured board stays configured.
LEMMA ConfiguredKept ==
  ASSUME Control, [Next]_vars, pc \notin {"reset", "release"},
         NEW b, Configured(b)
  PROVE  Configured(b)'
  <1>1. CASE ssr' = ssr
    BY <1>1 DEF Configured
  <1>2. ASSUME NEW ok \in BOOLEAN,
               ssr' = regwrite(ssr, board, 0, HandleSsr, TRUE, ok)
        PROVE  Configured(b)'
    <2>1. ssr \in [Fitted -> Ssr]  BY DEF Control, TypeOK
    <2>2. ASSUME NEW k \in Fitted, k[1] = b PROVE ssr'[k] = HandleSsr
      BY <1>2, <2>1, <2>2 DEF regwrite, Configured
    <2> QED  BY <2>2 DEF Configured
  <1> QED  BY <1>1, <1>2, SsrStep

\* A broadcast leaves the other boards as they are.
LEMMA ConfiguredElsewhere ==
  ASSUME Control, [Next]_vars, NEW b, b # board
  PROVE  Configured(b)' <=> Configured(b)
  <1>1. CASE ssr' = ssr
    BY <1>1 DEF Configured
  <1>2. ASSUME NEW v \in {SoftReset, Cleared, HandleSsr}, NEW ok \in BOOLEAN,
               ssr' = regwrite(ssr, board, 0, v, TRUE, ok)
        PROVE  Configured(b)' <=> Configured(b)
    <2>1. ssr \in [Fitted -> Ssr]  BY DEF Control, TypeOK
    <2>2. ASSUME NEW k \in Fitted, k[1] = b PROVE ssr'[k] = ssr[k]
      BY <1>2, <2>1, <2>2 DEF regwrite
    <2> QED  BY <2>2 DEF Configured
  <1> QED  BY <1>1, <1>2, SsrStep

\* A first read is accepted because its board is configured, or because it was
\* lost and the buffer still held the value written.
LEMMA Accepted ==
  ASSUME Control, ResetBitInv, Uniform(board), NEW ok \in BOOLEAN,
         And_FF04(regread(ssr, board, chip, buf, Cleared, ok)) = HandleSsr
  PROVE  (ok /\ Configured(board)) \/ (~ok /\ buf # Cleared)
  <1>1. And_FF04(Cleared) # HandleSsr
    BY DEF And_FF04, Cleared, HandleSsr
  <1>2. CASE ~ok
    BY <1>1, <1>2 DEF regread
  <1>3. CASE ok
    <2>0. ssr \in [Fitted -> Ssr]  BY DEF Control, TypeOK
    <2> DEFINE k == <<board, chip>>
    <2>1. k \in Fitted /\ And_FF04(ssr[k]) = HandleSsr
      BY <1>1, <1>3, <2>0 DEF regread
    <2>2. ssr[k] \in Ssr /\ (ssr[k].rst => ~ssr[k].b64)
      BY <2>0, <2>1 DEF ResetBitInv
    <2>3. ssr[k] = HandleSsr
      BY <2>1, <2>2 DEF And_FF04, HandleSsr, Ssr
    <2>4. \A l \in Fitted : l[1] = board => ssr[l] = ssr[k]
      BY <2>1 DEF Uniform
    <2> QED  BY <1>3, <2>3, <2>4 DEF Configured
  <1> QED  BY <1>2, <1>3
LEMMA LossStep ==
  ASSUME Control, ResetBitInv, UniformInv, LossInv, [Next]_vars
  PROVE  LossInv'
  <1> SUFFICES ASSUME NEW b \in open, ~Configured(b)'
               PROVE  Paid(b)'
    BY Frame DEF LossInv
  <1>0. /\ TypeOK /\ ControlInv
        /\ faults \in Nat /\ faults' \in {faults, faults + 1} /\ faults' <= 7
        /\ board \in 0 .. MAX_NBOARDS /\ b \in 0 .. MAX_NBOARDS - 1
        /\ MAX_NBOARDS \notin open
        /\ chip \in 0 .. MAX_NCHIPS_PER_BOARD /\ retry \in 0 .. MaxRetry
    <2>1. TypeOK /\ ControlInv  BY DEF Control
    <2>2. open \subseteq 0 .. 3  BY <2>1 DEF TypeOK, Boards, MAX_NBOARDS
    <2> QED  BY Frame, <2>1, <2>2 DEF TypeOK, MAX_NBOARDS
  <1>1. pc \notin {"reset", "release"} => ~Configured(b) /\ Paid(b)
    BY ConfiguredKept DEF LossInv
  <1>2. CASE ResetSet \/ ResetRelease
    BY <1>2 DEF ResetSet, ResetRelease, Paid
  <1>3. CASE WriteSsr
    <2>1. PICK ok \in BOOLEAN :
            Bus(ok) /\ ssr' = regwrite(ssr, board, 0, HandleSsr, TRUE, ok)
      BY <1>3 DEF WriteSsr
    <2>2. b = board => faults' = faults + 1
      BY <2>1, WriteUnifies DEF Bus
    <2> QED  BY <1>0, <1>1, <1>3, <2>2 DEF WriteSsr, AtBoard, Paid, Verifying
  <1>4. CASE WritePsr
    BY <1>0, <1>1, <1>4 DEF WritePsr, AtBoard, Paid, Verifying
  <1>5. CASE VerifyRead
    <2>1. PICK ok \in BOOLEAN :
          LET seen == And_FF04(regread(ssr, board, chip, buf, Cleared, ok)) IN
          /\ Bus(ok)
          /\ \/ seen = HandleSsr /\ NextChip
             \/ /\ seen # HandleSsr
                /\ pc' = "retry" /\ buf' = seen /\ UNCHANGED <<chip, retry>>
      BY <1>5 DEF VerifyRead
    <2>2. pc = "verify" /\ retry = 0 /\ board \in open /\ board' = board
      BY <1>0, <1>5 DEF VerifyRead, AtBoard, ControlInv
    <2>3. (b > board /\ faults >= 1) \/ (b = board /\ faults >= Base(chip))
      BY <1>1, <2>2 DEF Paid, Debt, Verifying
    <2>4. CASE pc' = "retry" /\ UNCHANGED <<chip, retry>>
      BY <1>0, <2>2, <2>3, <2>4 DEF Paid, Debt, Base, Verifying
    <2>5. CASE NextChip /\ And_FF04(regread(ssr, board, chip, buf, Cleared, ok))
                              = HandleSsr
      <3>1. Uniform(board)
        BY <2>2, VerifyUniform
      <3>2. b = board => ~ok /\ buf # Cleared
        BY <1>1, <2>2, <2>5, <3>1, Accepted
      <3>3. b = board => faults' = faults + 1 /\ chip = 0
        BY <1>0, <2>1, <2>2, <3>2 DEF Bus, ControlInv
      <3>4. b = board => Base(chip) = 1 /\ Base(chip)' = 2
        BY <2>5, <3>3, StepFacts DEF NextChip, Base, Step
      <3> QED
        BY <1>0, <2>2, <2>3, <2>5, <3>3, <3>4 DEF NextChip, Paid, Debt, Verifying
    <2> QED  BY <2>1, <2>4, <2>5
  <1>6. CASE VerifyNextBoard
    <2>1. Base(chip) = 8
      BY <1>6, <1>0, StepFacts
      DEF VerifyNextBoard, Base, MAX_NCHIPS_PER_BOARD
    <2>2. b > board /\ faults >= 1
      BY <1>0, <1>1, <1>6, <2>1 DEF VerifyNextBoard, AtBoard, Paid, Debt, Verifying
    <2> QED
      BY <1>0, <1>6, <2>2
      DEF VerifyNextBoard, AtBoard, Paid, Debt, Base, Verifying
  <1>7. CASE RetryWrite
    <2>1. PICK ok \in BOOLEAN :
            Bus(ok) /\ ssr' = regwrite(ssr, board, 0, HandleSsr, TRUE, ok)
      BY <1>7 DEF RetryWrite
    <2>2. b = board => faults' = faults + 1
      BY <2>1, WriteUnifies DEF Bus
    <2>3. (b > board /\ faults >= 1) \/ (b = board /\ faults >= Base(chip) + retry)
      BY <1>1, <1>7 DEF RetryWrite, Paid, Debt, Verifying
    <2> QED
      BY <1>0, <1>7, <2>2, <2>3, StepFacts
      DEF RetryWrite, Paid, Debt, Base, Verifying, MaxRetry
  <1>8. CASE RetryRead
    <2>1. PICK ok \in BOOLEAN :
          LET seen == And_FF00(regread(ssr, board, chip, buf, Cleared, ok)) IN
          /\ Bus(ok)
          /\ \/ /\ seen # HandleSsr /\ retry < MaxRetry
                /\ retry' = retry + 1
                /\ pc' = "retry" /\ buf' = seen /\ UNCHANGED chip
             \/ (seen = HandleSsr \/ retry >= MaxRetry) /\ NextChip
      BY <1>8 DEF RetryRead
    <2>2. And_FF00(regread(ssr, board, chip, buf, Cleared, ok)) # HandleSsr
      <3>1. regread(ssr, board, chip, buf, Cleared, ok) \in Ssr
        BY <1>0, Values, RegreadType DEF TypeOK
      <3> QED  BY <3>1, RetryNeverMatches
    <2>3. /\ pc = "reread" /\ board' = board
          /\ \/ b > board /\ faults >= 1
             \/ b = board /\ faults >= Base(chip) + retry + 1
      BY <1>1, <1>8 DEF RetryRead, Paid, Debt, Verifying
    <2>4. CASE pc' = "retry" /\ retry' = retry + 1 /\ UNCHANGED chip
      BY <1>0, <2>3, <2>4, StepFacts DEF Paid, Debt, Base, Verifying, MaxRetry
    <2>5. CASE retry >= MaxRetry /\ NextChip
      <3>1. b = board => faults >= Base(chip) + 6
        BY <1>0, <2>3, <2>5, StepFacts DEF MaxRetry, Base
      <3>2. b = board => chip = 0 /\ faults >= 2
        BY <1>0, <3>1, StepFacts DEF Base
      <3>3. b = board => Base(chip)' = 2
        BY <2>5, <3>2, StepFacts DEF NextChip, Base, Step
      <3> QED
        BY <1>0, <2>3, <2>5, <3>2, <3>3 DEF NextChip, Paid, Debt, Verifying
    <2> QED  BY <2>1, <2>2, <2>4, <2>5
  <1>9. CASE SetInterrupt
    BY <1>1, <1>9 DEF SetInterrupt, AtBoard, Paid, Verifying
  <1>10. CASE SkipBoard
    <2>1. b # board /\ chip = 0
      BY <1>0, <1>10 DEF SkipBoard, ControlInv
    <2> QED
      BY <1>0, <1>1, <1>10, <2>1 DEF SkipBoard, Paid, Debt, Base, Verifying
  <1>11. CASE EndLoop
    <2>1. chip = 0 /\ chip' = 0 /\ board = MAX_NBOARDS /\ board' = 0
      BY <1>0, <1>11 DEF EndLoop, ControlInv
    <2>2. CASE pc = "reset"
      BY <1>0, <1>11, <2>1, <2>2 DEF EndLoop, After, Paid
    <2>3. CASE pc \in {"ssr", "psr"}
      <3>1. faults >= 1 /\ pc' \in {"psr", "verify"} /\ faults' = faults
        BY <1>0, <1>1, <1>11, <2>1, <2>3 DEF EndLoop, After, Paid, Verifying
      <3> QED  BY <1>0, <2>1, <3>1 DEF Paid, Debt, Base, Verifying
    <2>4. CASE pc \in {"verify", "irq"}
      BY <1>0, <1>1, <2>1, <2>4 DEF Paid, Verifying
    <2> QED  BY <1>11, <2>2, <2>3, <2>4 DEF EndLoop
  <1>12. CASE UNCHANGED vars
    <2>1. pc \in {"reset", "release"} \/ Paid(b)  BY <1>1
    <2> QED  BY <1>12, <2>1 DEF vars, Paid, Debt, Base
  <1> QED
    BY <1>2, <1>3, <1>4, <1>5, <1>6, <1>7, <1>8, <1>9, <1>10, <1>11, <1>12
    DEF Next
-----------------------------------------------------------------------------
LEMMA InitInv == Init => IInv
  <1> SUFFICES ASSUME Init PROVE IInv  OBVIOUS
  <1>1. TypeOK /\ ControlInv  BY InitType
  <1>2. BudgetInv
    <2>1. faults = 0 /\ MaxFaults >= 0 /\ MaxFaultsMixed >= 0
      BY FaultsAssumption DEF Init
    <2> QED  BY <2>1 DEF BudgetInv
  <1>3. ResetBitInv
    <2>1. \A v \in StartSsr : v.rst => ~v.b64
      BY StartAssumption DEF SoftReset
    <2> QED  BY <2>1 DEF Init, ResetBitInv
  <1>4. UniformInv
    <2>1. ASSUME NEW b \in open PROVE Uniform(b) \/ mixed
      BY <1>1 DEF Init, TypeOK
    <2>2. \A b \in open : faults >= Writes(b)
      BY <1>1 DEF Init, Writes, TypeOK, Boards, MAX_NBOARDS
    <2> QED  BY <2>1, <2>2 DEF UniformInv
  <1>5. LossInv
    BY DEF Init, LossInv, Paid
  <1>6. OpenInv
    BY DEF Init, OpenInv
  <1> QED  BY <1>1, <1>2, <1>3, <1>4, <1>5, <1>6 DEF IInv

LEMMA StepInv == IInv /\ [Next]_vars => IInv'
  <1> SUFFICES ASSUME IInv, [Next]_vars PROVE IInv'  OBVIOUS
  <1>1. OpenInv'
    BY Frame DEF IInv, Control, OpenInv
  <1> QED
    BY <1>1, ControlStep, ResetBitStep, UniformStep, LossStep DEF IInv, Control

\* IInv is inductive, so every reachable state satisfies it.
LEMMA Invariance == Spec => []IInv
  BY InitInv, StepInv, PTL DEF Spec

\* Every variable keeps its type, for any fitted chips, nchips, mask and
\* starting registers.
THEOREM TypeCorrect == Spec => []TypeOK
  <1>1. IInv => TypeOK  BY DEF IInv
  <1> QED  BY <1>1, Invariance, PTL

\* bnt_init returns with handle->ssr in every chip of every open board, if at
\* most seven transactions are lost (two with chips that differed before).
THEOREM ReturnsConfigured == Spec => []ConfiguredAtReturn
  <1>1. IInv => ConfiguredAtReturn
    BY DEF IInv, LossInv, Paid, Verifying, ConfiguredAtReturn
  <1> QED  BY <1>1, Invariance, PTL

\* bnt_init implements its contract: it never takes a configuration back after
\* the reset phase, and returns only with every open board configured.
THEOREM MeetsContract == Spec => ImplementsContract
  <1> DEFINE P == CASE pc \in {"reset", "release"} -> "resetting"
                    [] pc = "done"                 -> "returned"
                    [] OTHER                       -> "configuring"
             C == {b \in open : Configured(b)}
  <1>1. Init => Contract!CInit
    BY InitType DEF Init, Contract!CInit, TypeOK
  <1>2. IInv /\ [Next]_vars => [Contract!CNext]_(Contract!cvars)
    <2> SUFFICES ASSUME IInv, [Next]_vars
                 PROVE  Contract!CNext \/ UNCHANGED Contract!cvars
      OBVIOUS
    <2>0. Control /\ TypeOK /\ ControlInv /\ open' = open
      BY Frame DEF IInv, Control
    <2>a. ASSUME NEW v \in {SoftReset, Cleared}, board \in open,
                 ssr' = regwrite(ssr, board, 0, v, TRUE, TRUE)
          PROVE  C' = C \ {board}
      <3>1. <<board, 0>> \in Fitted  BY <2>a DEF IInv, OpenInv
      <3>2. ssr'[<<board, 0>>] = v
        BY <2>0, <2>a, <3>1 DEF TypeOK, regwrite
      <3>3. v # HandleSsr  BY DEF SoftReset, Cleared, HandleSsr
      <3>4. ASSUME NEW b, b = board PROVE ~Configured(b)'
        BY <3>1, <3>2, <3>3, <3>4 DEF Configured
      <3> QED  BY <2>0, <3>4, ConfiguredElsewhere
    <2>b. board \in open => board \in Boards
      BY <2>0 DEF TypeOK
    <2>1. CASE ResetSet
      <3> PICK ok \in BOOLEAN :
            /\ ssr' = regwrite(ssr, board, 0, SoftReset, TRUE, ok)
            /\ flushed' = IF ok THEN flushed \cup {board} ELSE flushed
        BY <2>1 DEF ResetSet
      <3>1. CASE ok
        <4>1. C' = C \ {board} /\ flushed' = flushed \cup {board}
          BY <2>1, <2>a, <3>1 DEF ResetSet, AtBoard
        <4>2. Contract!Reset(board)
          BY <2>0, <2>1, <4>1 DEF ResetSet, AtBoard, Contract!Reset
        <4> QED  BY <2>1, <2>b, <4>2 DEF ResetSet, AtBoard, Contract!CNext
      <3>2. CASE ~ok
        <4>1. ssr' = ssr /\ flushed' = flushed
          BY <2>0, <3>2 DEF regwrite, TypeOK
        <4> QED
          BY <2>0, <2>1, <4>1
          DEF ResetSet, AtBoard, Contract!cvars, Configured
      <3> QED  BY <3>1, <3>2
    <2>2. CASE ResetRelease
      <3> PICK ok \in BOOLEAN : ssr' = regwrite(ssr, board, 0, Cleared, TRUE, ok)
        BY <2>2 DEF ResetRelease
      <3>0. board \in open  BY <2>0, <2>2 DEF ResetRelease, ControlInv
      <3>1. CASE ok
        <4>1. C' = C \ {board}
          BY <2>a, <3>0, <3>1
        <4>2. Contract!Reset(board)
          BY <2>0, <2>2, <3>0, <4>1 DEF ResetRelease, Contract!Reset
        <4> QED  BY <2>b, <3>0, <4>2 DEF Contract!CNext
      <3>2. CASE ~ok
        <4>1. ssr' = ssr
          BY <2>0, <3>2 DEF regwrite, TypeOK
        <4> QED
          BY <2>0, <2>2, <4>1 DEF ResetRelease, Contract!cvars, Configured
      <3> QED  BY <3>1, <3>2
    <2>3. CASE WriteSsr \/ RetryWrite
      <3> PICK ok \in BOOLEAN :
            ssr' = regwrite(ssr, board, 0, HandleSsr, TRUE, ok)
        BY <2>3 DEF WriteSsr, RetryWrite
      <3>0. board \in open /\ pc \in {"ssr", "retry"} /\ pc' \in {"ssr", "reread"}
            /\ flushed' = flushed
        BY <2>0, <2>3 DEF WriteSsr, RetryWrite, ControlInv, AtBoard
      <3>1. CASE ok
        <4>1. ASSUME NEW b, b = board PROVE Configured(b)'
          BY <2>0, <3>1, <4>1, WriteUnifies
        <4>2. C' = C \cup {board}
          BY <2>0, <3>0, <4>1, ConfiguredElsewhere
        <4>3. Contract!Configure(board)
          BY <2>0, <3>0, <4>2 DEF Contract!Configure
        <4> QED  BY <2>b, <3>0, <4>3 DEF Contract!CNext
      <3>2. CASE ~ok
        <4>1. ssr' = ssr
          BY <2>0, <3>2 DEF regwrite, TypeOK
        <4> QED  BY <2>0, <3>0, <4>1 DEF Contract!cvars, Configured
      <3> QED  BY <3>1, <3>2
    <2>4. CASE WritePsr \/ VerifyRead \/ VerifyNextBoard \/ RetryRead
               \/ SetInterrupt \/ SkipBoard
      <3>1. ssr' = ssr /\ flushed' = flushed
        BY <2>4 DEF WritePsr, VerifyRead, VerifyNextBoard, RetryRead,
                    SetInterrupt, SkipBoard, chips
      <3>2. P' = P
        BY <2>4 DEF WritePsr, VerifyRead, VerifyNextBoard, RetryRead,
                    SetInterrupt, SkipBoard, AtBoard, NextChip
      <3> QED  BY <2>0, <3>1, <3>2 DEF Contract!cvars, Configured
    <2>5. CASE EndLoop
      <3>1. ssr' = ssr /\ flushed' = flushed /\ C' = C
        BY <2>0, <2>5 DEF EndLoop, chips, Configured
      <3>2. CASE pc = "reset"
        BY <2>0, <2>5, <3>1, <3>2
        DEF EndLoop, After, Contract!EndReset, Contract!CNext
      <3>3. CASE pc \in {"ssr", "psr", "verify"}
        <4>1. P' = P  BY <2>5, <3>3 DEF EndLoop, After
        <4> QED  BY <2>0, <3>1, <4>1 DEF Contract!cvars
      <3>4. CASE pc = "irq"
        <4>1. C = open
          BY <3>4 DEF IInv, LossInv, Paid, Verifying
        <4> QED
          BY <2>0, <2>5, <3>1, <3>4, <4>1
          DEF EndLoop, After, Contract!Return, Contract!CNext
      <3> QED  BY <2>5, <3>2, <3>3, <3>4 DEF EndLoop
    <2>6. CASE UNCHANGED vars
      BY <2>6 DEF vars, Contract!cvars, Configured
    <2> QED  BY <2>1, <2>2, <2>3, <2>4, <2>5, <2>6 DEF Next
  <1> QED
    BY <1>1, <1>2, Invariance, PTL DEF Spec, ImplementsContract, Contract!CSpec

-----------------------------------------------------------------------------
\* How far each loop of broadcasts has got, when nothing has been lost.
Reached(b) == \/ pc \notin {"reset", "release"}
              \/ b < board
              \/ pc = "release" /\ b = board

Sped(b) == fast /\ (pc = "psr" => b < board) /\ pc \notin {"reset", "release", "ssr"}

Enabled(b) == pc = "done" \/ (pc = "irq" /\ b < board)

CleanInv == faults = 0 =>
    /\ flushed = {b \in open : Reached(b)}
    /\ pll = {b \in open : Sped(b)}
    /\ \A k \in Fitted : k[1] \in open /\ Enabled(k[1]) => ier[k] = IntAll
    /\ pc = "psr" => fast

LEMMA InitClean == Init => CleanInv
  <1> SUFFICES ASSUME Init PROVE CleanInv  OBVIOUS
  <1>1. pc = "reset" /\ board = 0 /\ flushed = {} /\ pll = {} /\ open \subseteq Boards
    BY InitType DEF Init, TypeOK
  <1>2. \A b \in open : ~Reached(b) /\ ~Sped(b)
    BY <1>1 DEF Reached, Sped, Boards, MAX_NBOARDS
  <1>3. \A b : ~Enabled(b)
    BY <1>1 DEF Enabled
  <1> QED  BY <1>1, <1>2, <1>3 DEF CleanInv

\* Outside its loop each of the three stays as it is.
LEMMA CleanStep ==
  ASSUME IInv, CleanInv, [Next]_vars
  PROVE  CleanInv'
  <1> SUFFICES ASSUME faults' = 0
               PROVE  /\ flushed' = {b \in open : Reached(b)'}
                      /\ pll' = {b \in open : Sped(b)'}
                      /\ \A k \in Fitted :
                           k[1] \in open /\ Enabled(k[1])' => ier'[k] = IntAll
                      /\ (pc = "psr" => fast)'
    BY Frame DEF CleanInv, IInv, Control
  <1>0. /\ TypeOK /\ ControlInv /\ faults = 0
        /\ board \in 0 .. 4 /\ open \subseteq 0 .. 3
        /\ ier \in [Fitted -> SUBSET IntKinds]
    <2>1. Control  BY DEF IInv, Control
    <2>2. faults \in Nat /\ faults' \in {faults, faults + 1}  BY <2>1, Frame
    <2> QED  BY <2>1, <2>2 DEF Control, TypeOK, Boards, MAX_NBOARDS
  <1>a. /\ flushed = {b \in open : Reached(b)}
        /\ pll = {b \in open : Sped(b)}
        /\ \A k \in Fitted : k[1] \in open /\ Enabled(k[1]) => ier[k] = IntAll
        /\ pc = "psr" => fast
    BY <1>0 DEF CleanInv
  <1>b. \A ok \in BOOLEAN : Bus(ok) => ok
    BY <1>0 DEF Bus
  <1>1. CASE ResetSet
    <2>1. /\ pc = "reset" /\ board \in open /\ pc' = "release"
          /\ flushed' = flushed \cup {board}
          /\ UNCHANGED <<pll, open, fast, board>>
      BY <1>1, <1>b DEF ResetSet, AtBoard, env
    <2>2. flushed' = {b \in open : Reached(b)'}
      BY <1>0, <1>a, <2>1 DEF Reached
    <2>3. pll' = {b \in open : Sped(b)'}
      BY <1>0, <1>a, <2>1 DEF Sped
    <2>4. \A b : ~Enabled(b)'
      BY <2>1 DEF Enabled
    <2>5. (pc = "psr" => fast)'
      BY <1>a, <2>1 DEF Verifying
    <2> QED  BY <2>2, <2>3, <2>4, <2>5
  <1>2. CASE ResetRelease
    <2>1. /\ pc = "release" /\ pc' = "reset" /\ board' = board + 1
          /\ UNCHANGED <<pll, flushed, ier, open, fast>>
      BY <1>2 DEF ResetRelease, env
    <2>2. flushed' = {b \in open : Reached(b)'}
      <3>1. \A b \in open : b < board + 1 <=> b < board \/ b = board
        BY <1>0
      <3>2. \A b \in open : Reached(b)' <=> Reached(b)
        BY <2>1, <3>1 DEF Reached
      <3> QED  BY <1>a, <2>1, <3>2
    <2>3. pll' = {b \in open : Sped(b)'}
      BY <1>0, <1>a, <2>1 DEF Sped
    <2>4. \A b : ~Enabled(b)'
      BY <2>1 DEF Enabled
    <2>5. (pc = "psr" => fast)'
      BY <1>a, <2>1 DEF Verifying
    <2> QED  BY <2>2, <2>3, <2>4, <2>5
  <1>3. CASE WriteSsr
    <2>1. /\ pc = "ssr" /\ pc' = "ssr"
          /\ UNCHANGED <<pll, flushed, ier, open, fast>>
      BY <1>3 DEF WriteSsr, AtBoard, env
    <2>2. flushed' = {b \in open : Reached(b)'}
      BY <1>0, <1>a, <2>1 DEF Reached
    <2>3. pll' = {b \in open : Sped(b)'}
      BY <1>0, <1>a, <2>1 DEF Sped
    <2>4. \A b : ~Enabled(b)'
      BY <2>1 DEF Enabled
    <2>5. (pc = "psr" => fast)'
      BY <1>a, <2>1 DEF Verifying
    <2> QED  BY <2>2, <2>3, <2>4, <2>5
  <1>4. CASE WritePsr
    <2>1. /\ pc = "psr" /\ pc' = "psr" /\ board \in open /\ board' = board + 1
          /\ pll' = pll \cup {board}
          /\ UNCHANGED <<flushed, ier, open, fast>>
      BY <1>4, <1>b DEF WritePsr, AtBoard, env
    <2>2. flushed' = {b \in open : Reached(b)'}
      BY <1>0, <1>a, <2>1 DEF Reached
    <2>3. pll' = {b \in open : Sped(b)'}
      <3>1. \A b \in open : b < board + 1 <=> b < board \/ b = board
        BY <1>0
      <3>2. \A b \in open : Sped(b)' <=> Sped(b) \/ b = board
        BY <1>a, <2>1, <3>1 DEF Sped
      <3> QED  BY <1>a, <2>1, <3>2
    <2>4. \A b : ~Enabled(b)'
      BY <2>1 DEF Enabled
    <2>5. (pc = "psr" => fast)'
      BY <1>a, <2>1 DEF Verifying
    <2> QED  BY <2>2, <2>3, <2>4, <2>5
  <1>5. CASE VerifyRead \/ VerifyNextBoard \/ RetryWrite \/ RetryRead
    <2>1. /\ pc \in Verifying /\ pc' \in Verifying
          /\ UNCHANGED <<pll, flushed, ier, open, fast>>
      BY <1>5 DEF VerifyRead, VerifyNextBoard, RetryWrite, RetryRead, AtBoard,
                  NextChip, env, chips, Verifying
    <2> QED  BY <1>0, <1>a, <2>1 DEF Reached, Sped, Enabled, Verifying
  <1>6. CASE SetInterrupt
    <2>1. PICK seen \in SUBSET IntKinds :
            ier' = regwrite(ier, board, 0, seen \cup IntAll, TRUE, TRUE)
      BY <1>6, <1>b DEF SetInterrupt
    <2>2. seen \cup IntAll = IntAll
      BY DEF IntAll
    <2>3. \A k \in Fitted :
            ier'[k] = IF k[1] = board THEN IntAll ELSE ier[k]
      BY <1>0, <2>1, <2>2 DEF regwrite
    <2>4. /\ pc = "irq" /\ pc' = "irq" /\ board' = board + 1
          /\ UNCHANGED <<pll, flushed, open, fast>>
      BY <1>6 DEF SetInterrupt, AtBoard, env
    <2>5. flushed' = {b \in open : Reached(b)'} /\ pll' = {b \in open : Sped(b)'}
      BY <1>a, <2>4 DEF Reached, Sped
    <2>6. ASSUME NEW k \in Fitted, k[1] \in open, Enabled(k[1])'
          PROVE  ier'[k] = IntAll
      <3>1. k[1] \in 0 .. 3 /\ k[1] < board + 1
        BY <1>0, <2>4, <2>6 DEF Enabled
      <3>2. k[1] = board \/ k[1] < board
        BY <1>0, <3>1
      <3> QED  BY <1>a, <2>3, <2>4, <2>6, <3>2 DEF Enabled
    <2> QED  BY <2>4, <2>5, <2>6
  <1>7. CASE SkipBoard
    <2>1. /\ pc \in {"reset", "ssr", "psr", "verify", "irq"} /\ pc' = pc
          /\ board \notin open /\ board' = board + 1
          /\ UNCHANGED <<pll, flushed, ier, open, fast>>
      BY <1>7 DEF SkipBoard, chips, env
    <2>2. \A b \in open : b < board' <=> b < board
      BY <1>0, <2>1
    <2>3. flushed' = {b \in open : Reached(b)'} /\ pll' = {b \in open : Sped(b)'}
      BY <1>a, <2>1, <2>2 DEF Reached, Sped
    <2>4. \A b \in open : Enabled(b)' <=> Enabled(b)
      BY <2>1, <2>2 DEF Enabled
    <2> QED  BY <1>a, <2>1, <2>3, <2>4
  <1>8. CASE EndLoop
    <2>1. /\ pc \in {"reset", "ssr", "psr", "verify", "irq"} /\ pc' = After(pc)
          /\ board = 4 /\ board' = 0
          /\ UNCHANGED <<pll, flushed, ier, open, fast>>
      BY <1>8 DEF EndLoop, chips, env, MAX_NBOARDS
    <2>2. /\ \A b \in open : 0 <= b /\ b < board
          /\ pc = "reset" => pc' = "ssr"
          /\ pc = "ssr" /\ fast => pc' = "psr"
          /\ pc = "ssr" /\ ~fast => pc' = "verify"
          /\ pc = "psr" => pc' = "verify"
          /\ pc = "verify" => pc' = "irq"
          /\ pc = "irq" => pc' = "done"
      BY <1>0, <2>1 DEF After
    <2>3. flushed' = {b \in open : Reached(b)'}
      BY <1>a, <2>1, <2>2 DEF Reached
    <2>4. \A b \in open : Sped(b)' <=> Sped(b)
      <3>1. CASE pc = "ssr"
        <4>1. CASE fast
          BY <1>0, <2>1, <2>2, <3>1, <4>1 DEF Sped
        <4>2. CASE ~fast
          BY <2>1, <4>2 DEF Sped
        <4> QED  BY <4>1, <4>2
      <3>2. CASE pc = "psr"
        BY <2>1, <2>2, <3>2 DEF Sped
      <3>3. CASE pc \in {"reset", "verify", "irq"}
        BY <2>1, <2>2, <3>3 DEF Sped
      <3> QED  BY <2>1, <3>1, <3>2, <3>3
    <2>5. \A b \in open : Enabled(b)' => Enabled(b)
      BY <1>0, <2>1, <2>2 DEF Enabled
    <2>6. (pc = "psr" => fast)'
      BY <2>1, <2>2
    <2> QED  BY <1>a, <2>1, <2>3, <2>4, <2>5, <2>6
  <1>9. CASE UNCHANGED vars
    BY <1>9, <1>a DEF vars, Reached, Sped, Enabled
  <1> QED
    BY <1>1, <1>2, <1>3, <1>4, <1>5, <1>6, <1>7, <1>8, <1>9 DEF Next

\* If no transaction is lost, bnt_init returns with every open board flushed,
\* sped up if that was asked for, and with all interrupts on, for any chips.
THEOREM CleanRunReachesAll == Spec => []CleanReturn
  <1>1. IInv /\ CleanInv => CleanReturn
    BY DEF CleanInv, CleanReturn, Reached, Sped, Enabled
  <1>2. Spec => []CleanInv
    BY InitClean, CleanStep, Invariance, PTL DEF Spec
  <1> QED  BY <1>1, <1>2, Invariance, PTL

-----------------------------------------------------------------------------
LEMMA RetryStep ==
  ASSUME IInv, RetryMeansFault, [Next]_vars
  PROVE  RetryMeansFault'
  <1> SUFFICES ASSUME pc' \in {"retry", "reread"}, faults' = 0,
                      <<board', chip'>> \in Fitted
               PROVE  FALSE
    <2>1. faults' \in Nat
      BY StepInv, FaultsAssumption DEF IInv, TypeOK
    <2> QED  BY <2>1 DEF RetryMeansFault
  <1>0. Control /\ TypeOK /\ ControlInv /\ faults = 0
    <2>1. Control  BY DEF IInv, Control
    <2>2. faults \in Nat /\ faults' \in {faults, faults + 1}  BY <2>1, Frame
    <2> QED  BY <2>1, <2>2 DEF Control
  <1>1. CASE VerifyRead
    <2> PICK ok \in BOOLEAN :
          LET seen == And_FF04(regread(ssr, board, chip, buf, Cleared, ok)) IN
          /\ Bus(ok)
          /\ \/ seen = HandleSsr /\ NextChip
             \/ /\ seen # HandleSsr
                /\ pc' = "retry" /\ buf' = seen /\ UNCHANGED <<chip, retry>>
      BY <1>1 DEF VerifyRead
    <2>1. ok  BY <1>0 DEF Bus
    <2>2. /\ pc = "verify" /\ board \in open /\ board' = board /\ chip' = chip
          /\ And_FF04(regread(ssr, board, chip, buf, Cleared, ok)) # HandleSsr
      BY <1>1 DEF VerifyRead, AtBoard, NextChip
    <2>3. ~Paid(board)
      BY <1>0, <2>2, StepFacts DEF Paid, Debt, Base, Verifying
    <2>4. Configured(board)
      BY <2>2, <2>3 DEF IInv, LossInv
    <2>5. ssr[<<board, chip>>] = HandleSsr
      BY <2>2, <2>4 DEF Configured
    <2>6. regread(ssr, board, chip, buf, Cleared, ok) = HandleSsr
      BY <1>0, <2>1, <2>2, <2>5 DEF regread, TypeOK
    <2>7. And_FF04(HandleSsr) = HandleSsr
      <3>1. HandleSsr.rst = FALSE /\ DOMAIN HandleSsr = {"mask", "b64", "rst"}
        BY DEF HandleSsr
      <3> QED  BY <3>1 DEF And_FF04, HandleSsr
    <2> QED  BY <2>2, <2>6, <2>7
  <1>2. CASE RetryWrite \/ RetryRead
    <2>1. pc \in {"retry", "reread"} /\ board' = board /\ chip' = chip
      BY <1>2 DEF RetryWrite, RetryRead, NextChip
    <2> QED  BY <1>0, <2>1 DEF RetryMeansFault
  <1>3. CASE ~(VerifyRead \/ RetryWrite \/ RetryRead) /\ Next
    <2>1. pc' \notin {"retry", "reread"}
      BY <1>3 DEF Next, ResetSet, ResetRelease, WriteSsr, WritePsr, VerifyNextBoard,
                  SetInterrupt, SkipBoard, EndLoop, AtBoard, After
    <2> QED  BY <2>1
  <1>4. CASE UNCHANGED vars
    BY <1>0, <1>4 DEF vars, RetryMeansFault
  <1> QED  BY <1>1, <1>2, <1>3, <1>4

\* The retry loop is entered only after a lost transaction or for an id without
\* a chip: a clean write of a board is never rewritten.
THEOREM RetryHasReason == Spec => []RetryMeansFault
  <1>1. Init => RetryMeansFault
    BY DEF Init, RetryMeansFault
  <1> QED  BY <1>1, RetryStep, Invariance, PTL DEF Spec
-----------------------------------------------------------------------------
(* bnt_init ends by itself: the steps it may still take become fewer.       *)

\* What the verification of n boards has left to do, at chip c of the first.
Unread(n, c) == n * PerBoard - PerId * (PolledIds(0) - PolledIds(c)) + 6

\* The ids that are left, as the chip loop sees them.
LEMMA PolledLeft ==
  ASSUME NEW c \in 0 .. 64, c % Step = 0
  PROVE  /\ PolledIds(0) \in 1 .. 64 /\ PolledIds(c) \in 0 .. PolledIds(0)
         /\ PolledIds(64) = 0
         /\ c < 64 => PolledIds(c + Step) = PolledIds(c) - 1
  <1> USE DEF MAX_NCHIPS_PER_BOARD
  <1>0. \A i \in 0 .. 96 : PolledIds(i) = (64 - i) \div Step
    BY DEF PolledIds, Step
  <1>s. c + Step \in 0 .. 96 /\ Step \in 1 .. 32
    BY StepFacts
  <1>1. CASE Step = 1   BY <1>0, <1>s, <1>1
  <1>2. CASE Step = 2   BY <1>0, <1>s, <1>2
  <1>3. CASE Step = 4   BY <1>0, <1>s, <1>3
  <1>4. CASE Step = 8   BY <1>0, <1>s, <1>4
  <1>5. CASE Step = 16  BY <1>0, <1>s, <1>5
  <1>6. CASE Step = 32  BY <1>0, <1>s, <1>6
  <1> QED  BY <1>1, <1>2, <1>3, <1>4, <1>5, <1>6, StepFacts

LEMMA Sizes ==
  /\ PerId = 13 /\ PolledIds(0) \in 1 .. 64
  /\ PerBoard = 13 * PolledIds(0) + 1 /\ PerBoard \in Nat
  <1>1. 0 % Step = 0  BY StepFacts
  <1>2. PolledIds(0) \in 1 .. 64  BY <1>1, PolledLeft
  <1> QED  BY <1>2 DEF PerBoard, PerId, MaxRetry

\* What verification still has to read: at a polled id, at the next one, after
\* the last one, and at the start of a board.
LEMMA UnreadFacts ==
  ASSUME NEW n \in 1 .. 4, NEW c \in 0 .. 64, c % Step = 0
  PROVE  /\ Unread(n, c) \in 7 .. 4 * PerBoard + 6
         /\ c < 64 => Unread(n, c) >= 20 /\ Unread(n, c + Step) = Unread(n, c) - 13
         /\ Unread(n, 64) = (n - 1) * PerBoard + 7
         /\ Unread(n, 0) = n * PerBoard + 6
  <1> DEFINE P == PolledIds(0)  q == PolledIds(c)
  <1>1. /\ P \in 1 .. 64 /\ q \in 0 .. P /\ PolledIds(64) = 0
        /\ c < 64 => PolledIds(c + Step) = q - 1
    BY PolledLeft
  <1>2. c < 64 => q >= 1
    <2> SUFFICES ASSUME c < 64 PROVE q >= 1  OBVIOUS
    <2>1. c + Step \in 0 .. 64 /\ (c + Step) % Step = 0
      BY NextPolled DEF MAX_NCHIPS_PER_BOARD
    <2>2. PolledIds(c + Step) \in 0 .. PolledIds(0)
      BY <2>1, PolledLeft
    <2> QED  BY <1>1, <2>2
  <1>3. /\ Unread(n, c) = n * PerBoard - 13 * (P - q) + 6
        /\ Unread(n, c + Step) = n * PerBoard - 13 * (P - PolledIds(c + Step)) + 6
        /\ Unread(n, 64) = n * PerBoard - 13 * (P - PolledIds(64)) + 6
        /\ Unread(n, 0) = n * PerBoard - 13 * (P - P) + 6
    BY Sizes DEF Unread
  <1>4. PerBoard = 13 * P + 1
    BY Sizes
  <1> HIDE DEF P, q
  <1>5. n = 1 \/ n = 2 \/ n = 3 \/ n = 4
    OBVIOUS
  <1>6. \E B \in Int : B = n * PerBoard /\ B >= PerBoard /\ B <= 4 * PerBoard
                        /\ (n - 1) * PerBoard = B - PerBoard
    BY <1>1, <1>4, <1>5
  <1>7. PICK B \in Int : B = n * PerBoard /\ B >= PerBoard /\ B <= 4 * PerBoard
                        /\ (n - 1) * PerBoard = B - PerBoard
    BY <1>6
  <1>8. Unread(n, c) \in 7 .. 4 * PerBoard + 6
    BY <1>1, <1>3, <1>4, <1>7
  <1>9. c < 64 => Unread(n, c) >= 20 /\ Unread(n, c + Step) = Unread(n, c) - 13
    BY <1>1, <1>2, <1>3, <1>4, <1>7
  <1>10. Unread(n, 64) = (n - 1) * PerBoard + 7
    BY <1>1, <1>3, <1>4, <1>7
  <1>11. Unread(n, 0) = n * PerBoard + 6
    BY <1>1, <1>3, <1>4, <1>7
  <1> QED  BY <1>8, <1>9, <1>10, <1>11

\* In each control state, the steps that are left.
LEMMA LeftFacts ==
  ASSUME Control
  PROVE  /\ pc = "reset"   => StepsLeft = 2 * (4 - board) + 4 * PerBoard + 17
         /\ pc = "release" => StepsLeft = 2 * (4 - board) + 4 * PerBoard + 16
         /\ pc = "ssr"     => StepsLeft = (4 - board) + 4 * PerBoard + 12
         /\ pc = "psr"     => StepsLeft = (4 - board) + 4 * PerBoard + 7
         /\ pc = "verify"  => StepsLeft = Unread(4 - board, chip)
         /\ pc = "retry"   => StepsLeft = Unread(4 - board, chip) - 2 * retry - 1
         /\ pc = "reread"  => StepsLeft = Unread(4 - board, chip) - 2 * retry - 2
         /\ pc = "irq"     => StepsLeft = (4 - board) + 1
         /\ pc = "done"    => StepsLeft = 0
  BY DEF StepsLeft, Unread, MAX_NBOARDS

\* At the end of the loop over the boards no chip is pending.
LEMMA UnreadDone == Unread(0, 0) = 6
  <1>1. Unread(0, 0) = 0 * PerBoard - 13 * (PolledIds(0) - PolledIds(0)) + 6
    BY Sizes DEF Unread
  <1> QED  BY <1>1, Sizes

LEMMA LeftBound == Control => StepsLeft \in 0 .. MaxSteps
  <1> SUFFICES ASSUME Control PROVE StepsLeft \in 0 .. MaxSteps  OBVIOUS
  <1>1. /\ board \in 0 .. 4 /\ chip \in 0 .. 64 /\ chip % Step = 0
        /\ retry \in 0 .. 5 /\ open \subseteq 0 .. 3
        /\ pc \in {"retry", "reread"} => board \in open /\ chip < 64
        /\ chip # 0 => board \in open
        /\ pc = "release" => board \in open
    BY DEF Control, TypeOK, ControlInv, Boards, MAX_NBOARDS, MAX_NCHIPS_PER_BOARD,
           MaxRetry
  <1>2. MaxSteps = 4 * PerBoard + 25 /\ PerBoard \in Nat
    BY Sizes DEF MaxSteps
  <1>3. CASE pc \in {"reset", "release", "ssr", "psr", "irq", "done"}
    BY <1>1, <1>2, <1>3, LeftFacts
  <1>4. CASE pc \in Verifying
    <2>1. CASE board = 4
      <3>1. chip = 0 /\ pc = "verify"
        BY <1>1, <1>4, <2>1 DEF Verifying
      <3>2. StepsLeft = 6
        BY <3>1, <2>1, LeftFacts, UnreadDone
      <3> QED  BY <3>2, <1>2
    <2>2. CASE board < 4
      <3>1. 4 - board \in 1 .. 4  BY <1>1, <2>2
      <3>2. /\ Unread(4 - board, chip) \in 7 .. 4 * PerBoard + 6
            /\ chip < 64 => Unread(4 - board, chip) >= 20
        BY <1>1, <3>1, UnreadFacts
      <3> QED  BY <1>1, <1>2, <1>4, <3>2, LeftFacts DEF Verifying
    <2> QED  BY <1>1, <2>1, <2>2
  <1> QED  BY <1>3, <1>4 DEF Control, TypeOK, Verifying

\* Every step leaves fewer: what the loop over the boards, the loop over the
\* ids and the retry loop count is never set back.
LEMMA StepShortens ==
  Control /\ Next => StepsLeft' < StepsLeft
  <1> SUFFICES ASSUME Control, Next PROVE StepsLeft' < StepsLeft  OBVIOUS
  <1>0. Control'  BY ControlStep
  <1>1. /\ board \in 0 .. 4 /\ chip \in 0 .. 64 /\ chip % Step = 0
        /\ retry \in 0 .. 5 /\ open \subseteq 0 .. 3
        /\ pc \in {"retry", "reread"} => board \in open /\ chip < 64
        /\ pc \notin {"retry", "reread"} => retry = 0
        /\ chip # 0 => pc \in Verifying /\ board \in open
        /\ pc = "release" => board \in open
    BY DEF Control, TypeOK, ControlInv, Boards, MAX_NBOARDS, MAX_NCHIPS_PER_BOARD,
           MaxRetry
  <1>2. board' \in 0 .. 4 /\ PerBoard \in Nat
    BY <1>0, Sizes DEF Control, TypeOK, MAX_NBOARDS
  <1>3. /\ pc' = "reset"   => StepsLeft' = 2 * (4 - board') + 4 * PerBoard + 17
        /\ pc' = "release" => StepsLeft' = 2 * (4 - board') + 4 * PerBoard + 16
        /\ pc' = "ssr"     => StepsLeft' = (4 - board') + 4 * PerBoard + 12
        /\ pc' = "psr"     => StepsLeft' = (4 - board') + 4 * PerBoard + 7
        /\ pc' = "verify"  => StepsLeft' = Unread(4 - board', chip')
        /\ pc' = "retry"   => StepsLeft' = Unread(4 - board', chip') - 2 * retry' - 1
        /\ pc' = "reread"  => StepsLeft' = Unread(4 - board', chip') - 2 * retry' - 2
        /\ pc' = "irq"     => StepsLeft' = (4 - board') + 1
        /\ pc' = "done"    => StepsLeft' = 0
    BY <1>0 DEF StepsLeft, Unread, MAX_NBOARDS, PerId, PerBoard, PolledIds
  <1>4. board < 4 /\ pc \in Verifying =>
          /\ Unread(4 - board, chip) \in 7 .. 4 * PerBoard + 6
          /\ chip < 64 => /\ Unread(4 - board, chip) >= 20
                          /\ Unread(4 - board, chip + Step)
                               = Unread(4 - board, chip) - 13
          /\ Unread(4 - board, 64) = (3 - board) * PerBoard + 7
          /\ Unread(4 - board, 0) = (4 - board) * PerBoard + 6
    <2> SUFFICES ASSUME board < 4 PROVE
          /\ Unread(4 - board, chip) \in 7 .. 4 * PerBoard + 6
          /\ chip < 64 => /\ Unread(4 - board, chip) >= 20
                          /\ Unread(4 - board, chip + Step)
                               = Unread(4 - board, chip) - 13
          /\ Unread(4 - board, 64) = (3 - board) * PerBoard + 7
          /\ Unread(4 - board, 0) = (4 - board) * PerBoard + 6
      OBVIOUS
    <2>1. 4 - board \in 1 .. 4 /\ (4 - board) - 1 = 3 - board  BY <1>1
    <2> QED  BY <1>1, <2>1, UnreadFacts
  <1>5. CASE ResetSet
    BY <1>1, <1>2, <1>3, <1>5, LeftFacts DEF ResetSet, AtBoard
  <1>6. CASE ResetRelease
    BY <1>1, <1>2, <1>3, <1>6, LeftFacts DEF ResetRelease
  <1>7. CASE WriteSsr
    BY <1>1, <1>2, <1>3, <1>7, LeftFacts DEF WriteSsr, AtBoard
  <1>8. CASE WritePsr
    BY <1>1, <1>2, <1>3, <1>8, LeftFacts DEF WritePsr, AtBoard
  <1>9. CASE VerifyRead
    <2>1. /\ pc = "verify" /\ board \in open /\ chip < 64 /\ board' = board
          /\ \/ pc' = "verify" /\ chip' = chip + Step
             \/ pc' = "retry" /\ chip' = chip /\ retry' = retry
      BY <1>9 DEF VerifyRead, AtBoard, NextChip, Step, MAX_NCHIPS_PER_BOARD
    <2> QED  BY <1>1, <1>3, <1>4, <2>1, LeftFacts DEF Verifying
  <1>10. CASE VerifyNextBoard
    <2>1. /\ pc = "verify" /\ board \in open /\ chip = 64 /\ board' = board + 1
          /\ chip' = 0 /\ pc' = pc
      BY <1>1, <1>10 DEF VerifyNextBoard, AtBoard, MAX_NCHIPS_PER_BOARD
    <2>2. board < 4 /\ StepsLeft = (3 - board) * PerBoard + 7
      BY <1>1, <1>4, <2>1, LeftFacts DEF Verifying
    <2>3. StepsLeft' = (3 - board) * PerBoard + 6
      <3>1. CASE board = 3
        BY <1>3, <2>1, <3>1, UnreadDone, Sizes
      <3>2. CASE board < 3
        <4>1. 3 - board \in 1 .. 4 /\ 4 - board' = 3 - board  BY <1>1, <2>1, <3>2
        <4> QED  BY <1>1, <1>3, <2>1, <4>1, UnreadFacts
      <3> QED  BY <1>1, <2>2, <3>1, <3>2
    <2>4. (3 - board) * PerBoard \in Int  BY <1>1, <1>2
    <2> QED  BY <2>2, <2>3, <2>4
  <1>11. CASE RetryWrite
    <2>1. /\ pc = "retry" /\ pc' = "reread" /\ board' = board /\ chip' = chip
          /\ retry' = retry
      BY <1>11 DEF RetryWrite
    <2> QED  BY <1>1, <1>3, <1>4, <2>1, LeftFacts DEF Verifying
  <1>12. CASE RetryRead
    <2>1. /\ pc = "reread" /\ board' = board
          /\ \/ retry < 5 /\ retry' = retry + 1 /\ pc' = "retry" /\ chip' = chip
             \/ pc' = "verify" /\ chip' = chip + Step
      BY <1>12 DEF RetryRead, NextChip, Step, MaxRetry
    <2> QED  BY <1>1, <1>3, <1>4, <2>1, LeftFacts DEF Verifying
  <1>13. CASE SetInterrupt
    BY <1>1, <1>2, <1>3, <1>13, LeftFacts DEF SetInterrupt, AtBoard
  <1>14. CASE SkipBoard
    <2>1. /\ pc \in {"reset", "ssr", "psr", "verify", "irq"} /\ board < 4
          /\ board \notin open /\ board' = board + 1 /\ pc' = pc /\ chip' = chip
          /\ chip = 0
      BY <1>1, <1>14 DEF SkipBoard, MAX_NBOARDS
    <2>2. CASE pc # "verify"
      BY <1>1, <1>2, <1>3, <2>1, <2>2, LeftFacts
    <2>3. CASE pc = "verify"
      <3>1. StepsLeft = (4 - board) * PerBoard + 6
        BY <1>1, <1>4, <2>1, <2>3, LeftFacts DEF Verifying
      <3>2. StepsLeft' = (3 - board) * PerBoard + 6
        <4>1. CASE board = 3
          BY <1>3, <2>1, <2>3, <4>1, UnreadDone, Sizes
        <4>2. CASE board < 3
          <5>1. 3 - board \in 1 .. 4 /\ 4 - board' = 3 - board  BY <1>1, <2>1, <4>2
          <5> QED  BY <1>1, <1>3, <2>1, <2>3, <5>1, UnreadFacts
        <4> QED  BY <1>1, <2>1, <4>1, <4>2
      <3>3. PerBoard > 0  BY Sizes
      <3>4. CASE board = 0  BY <3>1, <3>2, <3>3, <3>4, <1>2
      <3>5. CASE board = 1  BY <3>1, <3>2, <3>3, <3>5, <1>2
      <3>6. CASE board = 2  BY <3>1, <3>2, <3>3, <3>6, <1>2
      <3>7. CASE board = 3  BY <3>1, <3>2, <3>3, <3>7, <1>2
      <3> QED  BY <1>1, <2>1, <3>4, <3>5, <3>6, <3>7
    <2> QED  BY <2>2, <2>3
  <1>15. CASE EndLoop
    <2>1. /\ pc \in {"reset", "ssr", "psr", "verify", "irq"} /\ board = 4
          /\ board' = 0 /\ pc' = After(pc) /\ chip' = chip /\ chip = 0
      BY <1>1, <1>15 DEF EndLoop, MAX_NBOARDS
    <2>2. Unread(4, 0) = 4 * PerBoard + 6
      <3>1. 0 % Step = 0 /\ 4 \in 1 .. 4 /\ 0 \in 0 .. 64  BY StepFacts
      <3> QED  BY <3>1, UnreadFacts
    <2>3. fast \in BOOLEAN  BY DEF Control, TypeOK
    <2>4. CASE pc = "reset"
      BY <1>2, <1>3, <2>1, <2>4, LeftFacts DEF After
    <2>5. CASE pc = "ssr"
      <3>1. pc' \in {"psr", "verify"}
        BY <2>1, <2>3, <2>5 DEF After
      <3> QED  BY <1>2, <1>3, <2>1, <2>2, <2>5, <3>1, LeftFacts
    <2>6. CASE pc = "psr"
      BY <1>2, <1>3, <2>1, <2>2, <2>6, LeftFacts DEF After
    <2>7. CASE pc = "verify"
      BY <1>2, <1>3, <2>1, <2>7, UnreadDone, LeftFacts DEF After
    <2>8. CASE pc = "irq"
      BY <1>2, <1>3, <2>1, <2>8, LeftFacts DEF After
    <2> QED  BY <2>1, <2>4, <2>5, <2>6, <2>7, <2>8
  <1> QED  BY <1>5, <1>6, <1>7, <1>8, <1>9, <1>10, <1>11, <1>12, <1>13, <1>14, <1>15
           DEF Next

\* bnt_init is over within MaxSteps steps, whatever is lost: no execution visits
\* more, because every step makes StepsLeft smaller and it is never negative.
\* (That a step is taken while one can be is the fairness Termination adds.)
THEOREM EndsInSteps ==
  Spec => [](StepsLeft \in 0 .. MaxSteps) /\ [][StepsLeft' < StepsLeft]_vars
  <1>1. IInv => StepsLeft \in 0 .. MaxSteps
    BY LeftBound DEF IInv, Control
  <1>2. IInv /\ [Next]_vars => [StepsLeft' < StepsLeft]_vars
    BY StepShortens DEF IInv, Control
  <1> QED  BY <1>1, <1>2, Invariance, PTL DEF Spec
=============================================================================

--------------------------- MODULE BntToolsProofs ---------------------------
(***************************************************************************)
(* bnt_reset and bnt_access beside the miner, for any chips, command lines, *)
(* numbers of tools and headers, and losses of the tools' transactions:     *)
(* type correctness, the four safety invariants of BntTools, when bnt_reset *)
(* resets all boards, and how many steps the miner and a tool take.         *)
(***************************************************************************)
EXTENDS BntTools, FiniteSetTheorems, WellFoundedInduction, TLAPS

Step == IdStep(NChips)
Polling == {"verify", "retry", "reread"}

\* Where the loops of the miner stand.
Control ==
    /\ chip % Step = 0
    /\ pc \in {"release", "retry", "reread", "enable"} => board \in open
    /\ pc \in {"retry", "reread"} => chip < MAX_NCHIPS_PER_BOARD
    /\ pc \in {"reset", "release", "ssr", "psr"} => chip = 0 /\ verified = {}
    /\ pc = "verify" /\ board \notin open => chip = 0

\* The polled id c of board b is behind the miner.
Behind(b, c) ==
    \/ pc \in {"irq", "enable", "done"}
    \/ pc \in Polling /\ b < board
    \/ pc \in Polling /\ b = board /\ c < chip
    \/ pc \in {"retry", "reread"} /\ b = board /\ c = chip

\* It has read every chip that is behind it ...
Checked ==
    \A k \in Fitted :
        k[1] \in open /\ k[2] % Step = 0 /\ Behind(k[1], k[2]) => k \in verified

\* ... and left it configured, but for the one it is about to rewrite.
Repaired ==
    \A k \in verified \cap Fitted :
        Miner!And_FF04(ssr[k]) # Miner!HandleSsr
        => k \in late \/ (pc = "retry" /\ k = <<board, chip>>)

\* Boards whose SSR bnt_init has written.
Rewritten(b) ==
    \/ pc \in {"psr", "irq", "enable", "done"} \cup Polling
    \/ pc = "ssr" /\ b < board
Written ==
    \A k \in Fitted :
        k[1] \in open /\ Rewritten(k[1]) /\ ssr[k] # Miner!HandleSsr => k \in spoiled

\* Boards whose interrupts were enabled.
Listening ==
    \A k \in Fitted :
        /\ k[1] \in open
        /\ pc = "done" \/ (pc \in {"irq", "enable"} /\ k[1] < board)
        /\ ~(Miner!IntAll \subseteq ier[k])
        => k \in muted

\* The tool and its command fit.
Fits ==
    /\ tpc # "idle" => cmd \in Commands /\ (~AllBoards => tboard = FirstBoard(cmd))
    /\ tpc \in {"set", "release"} => cmd.tool = "bnt_reset"
    /\ tpc = "write" => cmd.tool = "bnt_access"
    /\ tpc = "read" => cmd.tool = "bnt_access" /\ cmd.do # "write"

\* What is shown so far.
Seen ==
    /\ tpc = "open" /\ cmd.tool = "bnt_access" /\ cmd.do # "write"
       => DOMAIN shown = {} /\ missed = {}
    /\ tpc = "read" =>
        \A row \in DOMAIN shown \ missed :
            <<tboard, row[1]>> \notin changed => shown[row] = Register(row[1], row[2])

\* The buffer, and what was stored of it for a register that was not received,
\* is zeros or a register received for this table.
Received == {Blank} \cup {shown[r] : r \in DOMAIN shown \ missed}
Buffered ==
    tpc = "read" =>
        /\ missed \subseteq DOMAIN shown /\ rows \cap DOMAIN shown = {}
        /\ rxbuf \in Received
        /\ \A row \in missed : shown[row] \in Received

\* bnt_reset of everything resets the boards up to the first that does not open,
\* and no board behind it.
Gap == CHOOSE g \in 0 .. MAX_NBOARDS :
         g \notin Nodes /\ \A b \in 0 .. g - 1 : b \in Nodes
UpToGap ==
    cmd.tool = "bnt_reset" /\ tpc = "idle" /\ lost = 0 =>
        (cmd.sure /\ AllBoards => wiped = {k \in Fitted : k[1] < Gap})

\* The boards it has passed.
Swept ==
    cmd.tool = "bnt_reset" /\ AllBoards /\ lost = 0 =>
        /\ tpc \in {"open", "set", "release"} => \A b \in 0 .. tboard - 1 : b \in Nodes
        /\ tpc \in {"set", "release"} => tboard \in Nodes
        /\ tpc \in {"open", "set"} => wiped = {k \in Fitted : k[1] < tboard}
        /\ tpc = "release" => wiped = {k \in Fitted : k[1] < tboard + 1}

IInv == TypeOK /\ Control /\ Checked /\ Repaired /\ Written /\ Listening /\ Fits
        /\ Seen /\ Buffered /\ Swept /\ UpToGap
-----------------------------------------------------------------------------
(* The bus and the arithmetic of the polled ids.                            *)

LEMMA StepFacts == Step \in {1, 2, 4, 8, 16, 32}
  BY DEF Step, IdStep

\* The next polled id, and the only one before it that was not passed.
LEMMA NextPolled ==
    ASSUME NEW c \in 0 .. MAX_NCHIPS_PER_BOARD, c % Step = 0,
           c < MAX_NCHIPS_PER_BOARD
    PROVE  /\ c + Step \in 0 .. MAX_NCHIPS_PER_BOARD
           /\ (c + Step) % Step = 0
           /\ \A i \in ChipIds : i % Step = 0 /\ i < c + Step => i <= c
<1> USE DEF MAX_NCHIPS_PER_BOARD, ChipIds
<1>1. CASE Step = 1   BY <1>1
<1>2. CASE Step = 2   BY <1>2
<1>3. CASE Step = 4   BY <1>3
<1>4. CASE Step = 8   BY <1>4
<1>5. CASE Step = 16  BY <1>5
<1>6. CASE Step = 32  BY <1>6
<1> QED BY <1>1, <1>2, <1>3, <1>4, <1>5, <1>6, StepFacts

LEMMA WriteType ==
    ASSUME NEW S, NEW file \in [Fitted -> S], NEW b, NEW c, NEW v \in S, NEW bcast, NEW ok
    PROVE  /\ regwrite(file, b, c, v, bcast, ok) \in [Fitted -> S]
           /\ Miner!regwrite(file, b, c, v, bcast, ok) \in [Fitted -> S]
  BY DEF regwrite, Miner!regwrite

LEMMA ReadType ==
    ASSUME NEW S, NEW file \in [Fitted -> S], NEW b, NEW c, NEW buffer \in S,
           NEW idle \in S, NEW ok \in BOOLEAN
    PROVE  /\ regread(file, b, c, buffer, idle, ok) \in S
           /\ Miner!regread(file, b, c, buffer, idle, ok) \in S
  BY DEF regread, Miner!regread

LEMMA Values ==
    /\ Miner!HandleSsr \in Miner!Ssr /\ Miner!SoftReset \in Miner!Ssr
    /\ Miner!Cleared \in Miner!Ssr
  BY ChipsAssumption DEF Miner!HandleSsr, Miner!SoftReset, Miner!Cleared, Miner!Ssr

LEMMA MaskType ==
    ASSUME NEW v \in Miner!Ssr
    PROVE  Miner!And_FF04(v) \in Miner!Ssr /\ Miner!And_FF00(v) \in Miner!Ssr
  BY DEF Miner!And_FF04, Miner!And_FF00, Miner!Ssr

LEMMA HandleIsRight == Miner!And_FF04(Miner!HandleSsr) = Miner!HandleSsr
<1>1. \A v \in Miner!Ssr : v.rst = FALSE => [v EXCEPT !.rst = FALSE] = v
  BY DEF Miner!Ssr
<1>2. Miner!HandleSsr.rst = FALSE
  BY DEF Miner!HandleSsr
<1> QED BY <1>1, <1>2, Values DEF Miner!And_FF04

\* The miner loses nothing.
LEMMA BusWorks ==
    ASSUME TypeOK, NEW ok \in BOOLEAN, Miner!Bus(ok)
    PROVE  ok = TRUE /\ faults' = 0
<1>1. faults = 0
  BY DEF TypeOK
<1>2. ok = TRUE
  BY <1>1, SMT DEF Miner!Bus
<1> QED BY <1>1, <1>2 DEF Miner!Bus

LEMMA SameBus ==
    /\ Miner!MAX_NBOARDS = 4 /\ Miner!MAX_NCHIPS_PER_BOARD = 64
    /\ Miner!IdStep(NChips) = Step
  BY DEF Miner!MAX_NBOARDS, Miner!MAX_NCHIPS_PER_BOARD, Miner!IdStep, IdStep, Step

LEMMA Where == \A k \in Fitted : /\ k[1] \in 0 .. 3 /\ k[2] \in 0 .. 63
                                 /\ k = <<k[1], k[2]>>
  BY ChipsAssumption DEF Boards, ChipIds, MAX_NBOARDS, MAX_NCHIPS_PER_BOARD

-----------------------------------------------------------------------------
(* Who changes what.                                                        *)

LEMMA MinerKeeps ==
    ASSUME MinerStep
    PROVE  UNCHANGED toolVars /\ UNCHANGED open /\ Changed
<1>1. CASE Initialise
  BY <1>1 DEF Initialise, Miner!ResetSet, Miner!ResetRelease, Miner!WriteSsr,
     Miner!WritePsr, Miner!VerifyNextBoard, Miner!RetryWrite, Miner!RetryRead,
     Miner!SkipBoard, Miner!EndLoop, Miner!env, toolVars
<1>2. CASE Verify
  BY <1>2 DEF Verify, Miner!VerifyRead, Miner!chips, Miner!env, toolVars, Changed
<1>3. CASE IrqRead
  BY <1>3 DEF IrqRead, toolVars, Changed
<1>4. CASE IrqWrite
  BY <1>4 DEF IrqWrite, toolVars
<1>5. CASE NextJob
  BY <1>5 DEF NextJob, toolVars, Changed
<1> QED BY <1>1, <1>2, <1>3, <1>4, <1>5 DEF MinerStep

LEMMA ToolKeeps ==
    ASSUME ToolStep \/ \E c \in Commands : Start(c)
    PROVE  UNCHANGED minerVars
<1>1. CASE \E c \in Commands : Start(c)
  BY <1>1 DEF Start, initVars, minerVars
<1>2. CASE OpenBoard
  BY <1>2 DEF OpenBoard, initVars, minerVars
<1>3. CASE NoBoard
  BY <1>3 DEF NoBoard, initVars, minerVars
<1>4. CASE ResetSet \/ ResetRelease \/ Write \/ Read \/ Show
  BY <1>4 DEF ResetSet, ResetRelease, Write, Read, Show, minerVars
<1> QED BY <1>1, <1>2, <1>3, <1>4 DEF ToolStep

-----------------------------------------------------------------------------
(* Types, and where the loops of the miner stand.                           *)

MinerType ==
    /\ ssr \in [Fitted -> Miner!Ssr] /\ ier \in [Fitted -> SUBSET Miner!IntKinds]
    /\ pc \in {"reset", "release", "ssr", "psr", "verify", "retry", "reread",
               "irq", "enable", "done"}
    /\ board \in 0 .. MAX_NBOARDS /\ chip \in 0 .. MAX_NCHIPS_PER_BOARD
    /\ retry \in 0 .. Miner!MaxRetry /\ buf \in Miner!Ssr /\ faults = 0
    /\ fast \in BOOLEAN /\ job \in 0 .. MaxJobs /\ irq \subseteq Miner!IntKinds
    /\ late \subseteq verified \cap Fitted

LEMMA MinerTypes ==
    ASSUME TypeOK, Control, MinerStep
    PROVE  MinerType' /\ Control'
<1> USE SameBus DEF MAX_NBOARDS, MAX_NCHIPS_PER_BOARD
<1>a. open \subseteq 0 .. 3 /\ open' = open
  <2>1. open \subseteq Nodes /\ open' = open
    BY MinerKeeps DEF TypeOK
  <2> QED BY <2>1, NodesAssumption DEF Boards
<1>b. MinerType
  BY DEF TypeOK, MinerType
<1>c. 0 % Step = 0
  BY StepFacts
<1>d. {} \in SUBSET Miner!IntKinds
  OBVIOUS
<1>1. CASE Initialise
  <2>0. UNCHANGED <<job, irq, verified, late>>
    BY <1>1 DEF Initialise
  <2>1. CASE Miner!ResetSet
    <3> PICK ok \in BOOLEAN :
          /\ Miner!Bus(ok)
          /\ ssr' = Miner!regwrite(ssr, board, 0, Miner!SoftReset, TRUE, ok)
          /\ ier' \in {ier, Miner!regwrite(ier, board, 0, {}, TRUE, ok)}
      BY <2>1 DEF Miner!ResetSet
    <3>0. ok = TRUE /\ faults' = 0
      BY BusWorks
    <3>1. ssr' \in [Fitted -> Miner!Ssr] /\ ier' \in [Fitted -> SUBSET Miner!IntKinds]
      <4>1. Miner!regwrite(ssr, board, 0, Miner!SoftReset, TRUE, ok) \in [Fitted -> Miner!Ssr]
        BY <1>b, Values, WriteType DEF MinerType
      <4>2. Miner!regwrite(ier, board, 0, {}, TRUE, ok) \in [Fitted -> SUBSET Miner!IntKinds]
        BY <1>b, <1>d, WriteType DEF MinerType
      <4> QED BY <1>b, <4>1, <4>2 DEF MinerType
    <3>2. MinerType'
      BY <1>b, <2>0, <2>1, <3>0, <3>1 DEF MinerType, Miner!env, Miner!ResetSet
    <3>3. Control'
      BY <1>a, <2>0, <2>1 DEF Control, Miner!ResetSet, Miner!AtBoard
    <3> QED BY <3>2, <3>3
  <2>2. CASE Miner!ResetRelease
    <3> PICK ok \in BOOLEAN :
          /\ Miner!Bus(ok)
          /\ ssr' = Miner!regwrite(ssr, board, 0, Miner!Cleared, TRUE, ok)
      BY <2>2 DEF Miner!ResetRelease
    <3>0. ok = TRUE /\ faults' = 0
      BY BusWorks
    <3>1. ssr' \in [Fitted -> Miner!Ssr]
      BY <1>b, Values, WriteType DEF MinerType
    <3>2. board' \in 0 .. 4
      <4>1. board \in open /\ board' = board + 1
        BY <2>2 DEF Miner!ResetRelease, Control
      <4> QED BY <1>a, <4>1
    <3>3. MinerType'
      BY <1>b, <2>0, <2>2, <3>0, <3>1, <3>2 DEF MinerType, Miner!env, Miner!ResetRelease
    <3>4. Control'
      BY <1>a, <2>0, <2>2 DEF Control, Miner!ResetRelease
    <3> QED BY <3>3, <3>4
  <2>3. CASE Miner!WriteSsr
    <3> PICK ok \in BOOLEAN :
          /\ Miner!Bus(ok)
          /\ ssr' = Miner!regwrite(ssr, board, 0, Miner!HandleSsr, TRUE, ok)
      BY <2>3 DEF Miner!WriteSsr
    <3>0. ok = TRUE /\ faults' = 0
      BY BusWorks
    <3>1. ssr' \in [Fitted -> Miner!Ssr]
      BY <1>b, Values, WriteType DEF MinerType
    <3>2. board' \in 0 .. 4
      BY <1>a, <2>3 DEF Miner!WriteSsr, Miner!AtBoard
    <3>3. MinerType'
      BY <1>b, <2>0, <2>3, <3>0, <3>1, <3>2 DEF MinerType, Miner!env, Miner!WriteSsr
    <3>4. Control'
      BY <1>a, <2>0, <2>3 DEF Control, Miner!WriteSsr, Miner!AtBoard
    <3> QED BY <3>3, <3>4
  <2>4. CASE Miner!WritePsr
    <3>1. faults' = 0
      <4> PICK ok \in BOOLEAN : Miner!Bus(ok)
        BY <2>4 DEF Miner!WritePsr
      <4> QED BY BusWorks
    <3>2. board' \in 0 .. 4
      BY <1>a, <2>4 DEF Miner!WritePsr, Miner!AtBoard
    <3>3. MinerType'
      BY <1>b, <2>0, <2>4, <3>1, <3>2 DEF MinerType, Miner!env, Miner!WritePsr
    <3>4. Control'
      BY <1>a, <2>0, <2>4 DEF Control, Miner!WritePsr, Miner!AtBoard
    <3> QED BY <3>3, <3>4
  <2>5. CASE Miner!VerifyNextBoard
    <3>1. board' \in 0 .. 4
      BY <1>a, <2>5 DEF Miner!VerifyNextBoard, Miner!AtBoard
    <3>2. MinerType'
      BY <1>b, <2>0, <2>5, <3>1 DEF MinerType, Miner!env, Miner!VerifyNextBoard, Miner!chips
    <3>3. Control'
      BY <1>a, <1>c, <2>0, <2>5 DEF Control, Miner!VerifyNextBoard, Miner!AtBoard
    <3> QED BY <3>2, <3>3
  <2>6. CASE Miner!RetryWrite
    <3> PICK ok \in BOOLEAN :
          /\ Miner!Bus(ok)
          /\ ssr' = Miner!regwrite(ssr, board, 0, Miner!HandleSsr, TRUE, ok)
      BY <2>6 DEF Miner!RetryWrite
    <3>0. ok = TRUE /\ faults' = 0
      BY BusWorks
    <3>1. ssr' \in [Fitted -> Miner!Ssr]
      BY <1>b, Values, WriteType DEF MinerType
    <3>2. MinerType'
      BY <1>b, <2>0, <2>6, <3>0, <3>1, Values DEF MinerType, Miner!env, Miner!RetryWrite
    <3>3. Control'
      BY <1>a, <2>0, <2>6 DEF Control, Miner!RetryWrite
    <3> QED BY <3>2, <3>3
  <2>7. CASE Miner!RetryRead
    <3> DEFINE seen(ok) == Miner!And_FF00(Miner!regread(ssr, board, chip, buf, Miner!Cleared, ok))
    <3> PICK ok \in BOOLEAN :
          /\ Miner!Bus(ok)
          /\ \/ /\ seen(ok) # Miner!HandleSsr /\ retry < Miner!MaxRetry
                /\ retry' = retry + 1
                /\ pc' = "retry" /\ buf' = seen(ok) /\ UNCHANGED chip
             \/ Miner!NextChip
      BY <2>7 DEF Miner!RetryRead
    <3>0. ok = TRUE /\ faults' = 0
      BY BusWorks
    <3>1. seen(ok) \in Miner!Ssr
      BY <1>b, Values, MaskType, ReadType DEF MinerType
    <3> HIDE DEF seen
    <3>2. CASE /\ retry < Miner!MaxRetry /\ retry' = retry + 1
               /\ pc' = "retry" /\ buf' = seen(ok) /\ UNCHANGED chip
      <4>1. retry' \in 0 .. Miner!MaxRetry
        BY <1>b, <3>2 DEF MinerType, Miner!env, Miner!MaxRetry
      <4>2. MinerType'
        BY <1>b, <2>0, <2>7, <3>0, <3>1, <3>2, <4>1
           DEF MinerType, Miner!env, Miner!RetryRead, Miner!chips
      <4>3. Control'
        BY <1>a, <2>0, <2>7, <3>2 DEF Control, Miner!RetryRead, Miner!env
      <4> QED BY <4>2, <4>3
    <3>3. CASE Miner!NextChip
      <4>1. chip < 64 /\ chip % Step = 0
        BY <2>7 DEF Miner!RetryRead, Control
      <4>2. chip' \in 0 .. 64 /\ chip' % Step = 0
        BY <1>b, <3>3, <4>1, NextPolled DEF MinerType, Miner!env, Miner!NextChip, Step
      <4>3. MinerType'
        BY <1>b, <2>0, <2>7, <3>0, <3>3, <4>2, Values
           DEF MinerType, Miner!env, Miner!RetryRead, Miner!chips, Miner!NextChip, Miner!MaxRetry
      <4>4. Control'
        BY <1>a, <2>0, <2>7, <3>3, <4>2
           DEF Control, Miner!RetryRead, Miner!env, Miner!NextChip
      <4> QED BY <4>3, <4>4
    <3> QED BY <3>2, <3>3
  <2>8. CASE Miner!SkipBoard
    <3>1. board' \in 0 .. 4
      BY <1>b, <2>8 DEF Miner!SkipBoard, MinerType
    <3>2. MinerType'
      BY <1>b, <2>0, <2>8, <3>1 DEF MinerType, Miner!env, Miner!SkipBoard, Miner!chips
    <3>3. Control'
      BY <1>a, <2>0, <2>8 DEF Control, Miner!SkipBoard, Miner!env
    <3> QED BY <3>2, <3>3
  <2>9. CASE Miner!EndLoop
    <3>1. /\ pc = "reset" => pc' = "ssr"
          /\ pc = "ssr" => pc' \in {"psr", "verify"}
          /\ pc = "psr" => pc' = "verify"
          /\ pc = "verify" => pc' = "irq"
          /\ pc = "irq" => pc' = "done"
      BY <1>b, <2>9 DEF Miner!EndLoop, Miner!After, MinerType
    <3>2. MinerType'
      BY <1>b, <2>0, <2>9, <3>1, Values
         DEF MinerType, Miner!env, Miner!EndLoop, Miner!chips
    <3>3. Control'
      BY <1>a, <2>0, <2>9, <3>1 DEF Control, Miner!EndLoop, Miner!env
    <3> QED BY <3>2, <3>3
  <2> QED BY <1>1, <2>1, <2>2, <2>3, <2>4, <2>5, <2>6, <2>7, <2>8, <2>9
          DEF Initialise
<1>2. CASE Verify
  <2>0. /\ UNCHANGED <<job, irq, late>> /\ verified' = verified \cup {<<board, chip>>}
        /\ Miner!VerifyRead
    BY <1>2 DEF Verify
  <2> DEFINE seen(ok) == Miner!And_FF04(Miner!regread(ssr, board, chip, buf, Miner!Cleared, ok))
  <2> PICK ok \in BOOLEAN :
        /\ Miner!Bus(ok)
        /\ \/ Miner!NextChip
           \/ pc' = "retry" /\ buf' = seen(ok) /\ UNCHANGED <<chip, retry>>
    BY <2>0 DEF Miner!VerifyRead
  <2>1. ok = TRUE /\ faults' = 0
    BY BusWorks
  <2>2. seen(ok) \in Miner!Ssr
    BY <1>b, Values, MaskType, ReadType DEF MinerType
  <2> HIDE DEF seen
  <2>3. board \in open /\ pc = "verify" /\ chip < 64 /\ chip % Step = 0
    BY <2>0 DEF Miner!VerifyRead, Miner!AtBoard, Control
  <2>4. CASE pc' = "retry" /\ buf' = seen(ok) /\ UNCHANGED <<chip, retry>>
    <3>1. MinerType'
      BY <1>b, <2>0, <2>1, <2>2, <2>4
         DEF MinerType, Miner!env, Miner!VerifyRead, Miner!chips
    <3>2. Control'
      BY <1>a, <2>0, <2>3, <2>4 DEF Control, Miner!VerifyRead, Miner!env
    <3> QED BY <3>1, <3>2
  <2>5. CASE Miner!NextChip
    <3>1. chip' \in 0 .. 64 /\ chip' % Step = 0
      BY <1>b, <2>3, <2>5, NextPolled DEF MinerType, Miner!NextChip, Step
    <3>2. MinerType'
      BY <1>b, <2>0, <2>1, <2>5, <3>1, Values
         DEF MinerType, Miner!env, Miner!VerifyRead, Miner!chips, Miner!NextChip,
             Miner!MaxRetry
    <3>3. Control'
      BY <1>a, <2>0, <2>3, <2>5, <3>1
         DEF Control, Miner!VerifyRead, Miner!env, Miner!NextChip
    <3> QED BY <3>2, <3>3
  <2> QED BY <2>4, <2>5
<1>3. CASE IrqRead
  <2>1. irq' \in SUBSET Miner!IntKinds
    BY <1>3, <1>b, <1>d, ReadType DEF IrqRead, MinerType
  <2>2. MinerType'
    BY <1>3, <1>b, <2>1 DEF IrqRead, MinerType
  <2>3. Control'
    BY <1>3, <1>a DEF IrqRead, Control, Miner!AtBoard
  <2> QED BY <2>2, <2>3
<1>4. CASE IrqWrite
  <2>1. Enabled(irq) \in SUBSET Miner!IntKinds
    BY <1>b DEF Enabled, MinerType, Miner!IntAll
  <2>2. ier' \in [Fitted -> SUBSET Miner!IntKinds]
    BY <1>4, <1>b, <2>1, WriteType DEF IrqWrite, MinerType
  <2>3. board' \in 0 .. 4
    <3>1. board \in open /\ board' = board + 1
      BY <1>4 DEF IrqWrite, Control
    <3> QED BY <1>a, <3>1
  <2>4. MinerType'
    BY <1>4, <1>b, <2>2, <2>3 DEF IrqWrite, MinerType
  <2>5. Control'
    BY <1>4, <1>a DEF IrqWrite, Control
  <2> QED BY <2>4, <2>5
<1>5. CASE NextJob
  <2>1. job' \in 0 .. MaxJobs
    BY <1>5, <1>b, BoundsAssumption DEF NextJob, MinerType
  <2>2. MinerType'
    BY <1>5, <1>b, <2>1 DEF NextJob, MinerType, Miner!MaxRetry
  <2>3. Control'
    BY <1>5, <1>a, <1>c DEF NextJob, Control
  <2> QED BY <2>2, <2>3
<1> QED BY <1>1, <1>2, <1>3, <1>4, <1>5 DEF MinerStep

-----------------------------------------------------------------------------
\* A set of natural numbers has a least element.
LEMMA Least ==
    ASSUME NEW S, S \subseteq Nat, S # {}
    PROVE  \E i \in S : \A j \in S : i <= j
<1>1. \E i \in S : \A j \in S : ~ (<<j, i>> \in OpToRel(<, Nat))
  BY NatLessThanWellFounded, WFMin
<1>2. \A i, j \in Nat : <<j, i>> \in OpToRel(<, Nat) <=> j < i
  BY DEF OpToRel
<1>3. PICK i \in S : \A j \in S : ~ (<<j, i>> \in OpToRel(<, Nat))
  BY <1>1
<1>4. \A j \in S : ~ (j < i)
  BY <1>2, <1>3
<1>5. \A j \in S : i <= j
  BY <1>4, SMT
<1> QED BY <1>5

\* The register read next is one of those that are left.
LEMMA FirstIsRow ==
    ASSUME NEW S, S \subseteq ChipIds \X {SSR, IER}, S # {}
    PROVE  First(S) \in S
<1> DEFINE Ids == {r[1] : r \in S}
<1>1. Ids \subseteq Nat /\ Ids # {}
  BY DEF ChipIds
<1>2. PICK r \in S : \A s \in S : r[1] <= s[1]
  <2>1. PICK i \in Ids : \A j \in Ids : i <= j
    <3> HIDE DEF Ids
    <3> QED BY <1>1, Least
  <2> QED BY <2>1
<1> DEFINE Addrs == {s[2] : s \in {t \in S : t[1] = r[1]}}
<1>3. Addrs \subseteq Nat /\ Addrs # {}
  BY <1>2 DEF SSR, IER
<1>4. PICK m \in S : m[1] = r[1] /\ \A s \in S : s[1] = r[1] => m[2] <= s[2]
  <2>1. PICK i \in Addrs : \A j \in Addrs : i <= j
    <3> HIDE DEF Addrs
    <3> QED BY <1>3, Least
  <2> QED BY <2>1
<1>5. \A s \in S : m[1] < s[1] \/ (m[1] = s[1] /\ m[2] <= s[2])
  BY <1>2, <1>4 DEF ChipIds
<1> QED BY <1>5, Zenon DEF First

-----------------------------------------------------------------------------
(* The tools.                                                               *)

LEMMA CommandShape ==
    ASSUME NEW c \in Commands
    PROVE  /\ c.tool \in {"bnt_reset", "bnt_access"}
           /\ c.b \in 0 .. 3 \cup {-1}
           /\ c.tool = "bnt_access" =>
                /\ c.do \in {"dump", "regscan", "read", "write"}
                /\ c.c \in ChipIds /\ c.addr \in {SSR, IER}
                /\ c.ssr \in Miner!Ssr /\ c.ier \in SUBSET Miner!IntKinds
<1>1. CASE c \in ResetLine
  BY <1>1 DEF ResetLine, Boards, MAX_NBOARDS, None
<1>2. CASE c \in AccessLine
  BY <1>2 DEF AccessLine, Boards, MAX_NBOARDS, None
<1> QED BY <1>1, <1>2, CommandsAssumption

LEMMA BoardRange ==
    ASSUME cmd \in Commands
    PROVE  /\ FirstBoard(cmd) \in 0 .. 3 /\ LastBoard \in 0 .. 3
           /\ ~AllBoards => LastBoard = FirstBoard(cmd)
           /\ AllBoards => LastBoard = 3 /\ FirstBoard(cmd) = 0
<1>1. cmd.b \in 0 .. 3 \cup {-1}
  BY CommandShape
<1>2. FirstBoard(cmd) \in 0 .. 3
  BY <1>1 DEF FirstBoard, None
<1>3. AllBoards => cmd.b = -1
  BY DEF AllBoards, None
<1>4. AllBoards => FirstBoard(cmd) = 0
  BY <1>3 DEF FirstBoard, None
<1> QED BY <1>2, <1>4 DEF LastBoard, MAX_NBOARDS

\* What the tool has, and what goes over the bus for it.
ToolType ==
    /\ cmd \in Commands \cup {Idle}
    /\ tpc \in {"idle", "open", "set", "release", "write", "read"}
    /\ tboard \in Boards
    /\ rows \subseteq ChipIds \X {SSR, IER} /\ rxbuf \in Words
    /\ DOMAIN shown \subseteq ChipIds \X {SSR, IER}
    /\ \A row \in DOMAIN shown : shown[row] \in Words
    /\ started \in 0 .. MaxCommands /\ lost \in 0 .. MaxLost

BusType ==
    /\ ssr \in [Fitted -> Miner!Ssr] /\ ier \in [Fitted -> SUBSET Miner!IntKinds]
    /\ late \subseteq verified \cap Fitted

\* The board that comes after this one, if any, is one of the command's.
LEMMA NextBoardRange ==
    ASSUME cmd \in Commands, tboard \in Boards, NextBoard,
           ~AllBoards => tboard = FirstBoard(cmd)
    PROVE  /\ tboard' \in Boards /\ tpc' \in {"idle", "open"}
           /\ tpc' = "open" => AllBoards /\ tboard' = tboard + 1
<1>1. tboard \in 0 .. 3
  BY DEF Boards, MAX_NBOARDS
<1>2. CASE tboard < LastBoard
  BY <1>1, <1>2, BoardRange DEF NextBoard, Boards, MAX_NBOARDS
<1>3. CASE ~(tboard < LastBoard)
  BY <1>1, <1>3 DEF NextBoard, Boards, MAX_NBOARDS
<1> QED BY <1>2, <1>3

LEMMA LoseType ==
    ASSUME NEW ok \in BOOLEAN, lost \in 0 .. MaxLost, Lose(ok)
    PROVE  lost' \in 0 .. MaxLost /\ (lost' = 0 => ok /\ lost = 0)
<1>1. CASE ok
  BY <1>1 DEF Lose
<1>2. CASE ~ok
  BY <1>2, BoundsAssumption DEF Lose
<1> QED BY <1>1, <1>2

LEMMA RegisterType ==
    ASSUME BusType, NEW id, NEW addr
    PROVE  Register(id, addr) \in Words
  BY DEF BusType, Register, Words

LEMMA RowsType ==
    ASSUME cmd \in Commands, cmd.tool = "bnt_access", cmd.do # "write"
    PROVE  Rows \subseteq ChipIds \X {SSR, IER}
  BY CommandShape DEF Rows

LEMMA ToolTypes ==
    ASSUME TypeOK, Fits, ToolStep \/ \E c \in Commands : Start(c)
    PROVE  ToolType' /\ BusType' /\ Fits'
<1>a. ToolType /\ BusType
  BY DEF TypeOK, ToolType, BusType
<1>b. verified' = verified
  BY ToolKeeps DEF minerVars
<1>c. tpc # "idle" => cmd \in Commands /\ (~AllBoards => tboard = FirstBoard(cmd))
  BY DEF Fits
<1>d. {} \in SUBSET Miner!IntKinds /\ Blank \in Words
  BY DEF Words
<1>1. CASE \E c \in Commands : Start(c)
  <2> PICK c \in Commands : Start(c)
    BY <1>1
  <2>1. FirstBoard(c) \in Boards
    BY CommandShape DEF FirstBoard, Boards, MAX_NBOARDS, None
  <2>2. started' \in 0 .. MaxCommands
    BY <1>a, BoundsAssumption DEF Start, ToolType
  <2>3. ToolType'
    BY <1>a, <2>1, <2>2 DEF Start, ToolType
  <2>4. BusType'
    BY <1>a, <1>b DEF Start, BusType, initVars
  <2>5. Fits'
    BY DEF Start, Fits, FirstBoard
  <2> QED BY <2>3, <2>4, <2>5
<1>2. CASE OpenBoard
  <2>0. /\ cmd \in Commands /\ cmd' = cmd /\ tboard' = tboard /\ tpc = "open"
        /\ UNCHANGED <<shown, started, lost, late, ssr, ier>> /\ rxbuf' = Blank
    BY <1>2, <1>c DEF OpenBoard, initVars
  <2>1. CASE cmd.tool = "bnt_reset"
    <3>1. tpc' = "set" /\ rows' = rows
      BY <1>2, <2>1 DEF OpenBoard
    <3> QED BY <1>a, <1>b, <1>c, <1>d, <2>0, <2>1, <3>1
            DEF ToolType, BusType, Fits, AllBoards, FirstBoard
  <2>2. CASE cmd.tool # "bnt_reset" /\ cmd.do = "write"
    <3>1. tpc' = "write" /\ rows' = rows /\ cmd.tool = "bnt_access"
      BY <1>2, <2>0, <2>2, CommandShape DEF OpenBoard
    <3> QED BY <1>a, <1>b, <1>c, <1>d, <2>0, <3>1
            DEF ToolType, BusType, Fits, AllBoards, FirstBoard
  <2>3. CASE cmd.tool # "bnt_reset" /\ cmd.do # "write"
    <3>1. tpc' = "read" /\ rows' = Rows /\ cmd.tool = "bnt_access"
      BY <1>2, <2>0, <2>3, CommandShape DEF OpenBoard
    <3>2. rows' \subseteq ChipIds \X {SSR, IER}
      BY <2>0, <2>3, <3>1, RowsType
    <3> QED BY <1>a, <1>b, <1>c, <1>d, <2>0, <2>3, <3>1, <3>2
            DEF ToolType, BusType, Fits, AllBoards, FirstBoard
  <2> QED BY <2>1, <2>2, <2>3
<1>3. CASE NoBoard
  <2>0. /\ cmd \in Commands /\ cmd' = cmd /\ tpc = "open" /\ AfterNoBoard
        /\ UNCHANGED <<rows, rxbuf, shown, started, lost, late, ssr, ier>>
    BY <1>3, <1>c DEF NoBoard, initVars
  <2>1. /\ tboard' \in Boards /\ tpc' \in {"idle", "open"}
        /\ tpc' = "open" => AllBoards
    BY <1>a, <1>c, <2>0, NextBoardRange DEF AfterNoBoard, ToolType
  <2> QED BY <1>a, <1>b, <2>0, <2>1 DEF ToolType, BusType, Fits, AllBoards
<1>4. CASE ResetSet
  <2>0. /\ cmd \in Commands /\ cmd' = cmd /\ tpc = "set" /\ tpc' = "release"
        /\ UNCHANGED <<tboard, rows, rxbuf, shown, started>>
    BY <1>4, <1>c DEF ResetSet
  <2> PICK ok \in BOOLEAN :
        /\ Lose(ok)
        /\ ssr' = regwrite(ssr, tboard, cmd.c, Miner!SoftReset, cmd.c = None, ok)
        /\ ier' \in {ier, regwrite(ier, tboard, cmd.c, {}, cmd.c = None, ok)}
        /\ late' = late \cup (Reached(cmd.c, cmd.c = None, ok) \cap verified)
    BY <1>4 DEF ResetSet
  <2>1. ssr' \in [Fitted -> Miner!Ssr]
    BY <1>a, Values, WriteType DEF BusType
  <2>2. regwrite(ier, tboard, cmd.c, {}, cmd.c = None, ok)
          \in [Fitted -> SUBSET Miner!IntKinds]
    BY <1>a, <1>d, WriteType DEF BusType
  <2>3. BusType'
    BY <1>a, <1>b, <2>1, <2>2 DEF BusType, Reached
  <2>4. ToolType'
    BY <1>a, <2>0, LoseType DEF ToolType
  <2>5. Fits'
    BY <1>c, <2>0 DEF Fits, AllBoards, FirstBoard
  <2> QED BY <2>3, <2>4, <2>5
<1>5. CASE ResetRelease
  <2>0. /\ cmd \in Commands /\ cmd' = cmd /\ tpc = "release" /\ NextBoard
        /\ UNCHANGED <<ier, rows, rxbuf, shown, started>>
    BY <1>5, <1>c DEF ResetRelease
  <2> PICK ok \in BOOLEAN :
        /\ Lose(ok)
        /\ ssr' = regwrite(ssr, tboard, cmd.c, Miner!Cleared, cmd.c = None, ok)
        /\ late' = late \cup (Reached(cmd.c, cmd.c = None, ok) \cap verified)
    BY <1>5 DEF ResetRelease
  <2>1. ssr' \in [Fitted -> Miner!Ssr]
    BY <1>a, Values, WriteType DEF BusType
  <2>2. /\ tboard' \in Boards /\ tpc' \in {"idle", "open"}
        /\ tpc' = "open" => AllBoards
    BY <1>a, <1>c, <2>0, NextBoardRange DEF ToolType
  <2>3. BusType'
    BY <1>a, <1>b, <2>0, <2>1 DEF BusType, Reached
  <2>4. ToolType'
    BY <1>a, <2>0, <2>2, LoseType DEF ToolType
  <2>5. Fits'
    BY <2>0, <2>2 DEF Fits, AllBoards
  <2> QED BY <2>3, <2>4, <2>5
<1>6. CASE Write
  <2>0. /\ cmd \in Commands /\ cmd' = cmd /\ tpc = "write" /\ NextBoard
        /\ UNCHANGED <<rows, rxbuf, shown, started>> /\ cmd.tool = "bnt_access"
    BY <1>6, <1>c DEF Write, Fits
  <2> PICK ok \in BOOLEAN :
        /\ Lose(ok)
        /\ \/ /\ ssr' = regwrite(ssr, tboard, cmd.c, cmd.ssr, cmd.all, ok)
              /\ late' = late \cup (Reached(cmd.c, cmd.all, ok) \cap verified)
              /\ UNCHANGED ier
           \/ /\ ier' = regwrite(ier, tboard, cmd.c, cmd.ier, cmd.all, ok)
              /\ UNCHANGED <<ssr, late>>
    BY <1>6 DEF Write
  <2>1. /\ regwrite(ssr, tboard, cmd.c, cmd.ssr, cmd.all, ok) \in [Fitted -> Miner!Ssr]
        /\ regwrite(ier, tboard, cmd.c, cmd.ier, cmd.all, ok)
             \in [Fitted -> SUBSET Miner!IntKinds]
    <3>1. cmd.ssr \in Miner!Ssr /\ cmd.ier \in SUBSET Miner!IntKinds
      BY <2>0, CommandShape
    <3> QED BY <1>a, <3>1, WriteType DEF BusType
  <2>2. /\ tboard' \in Boards /\ tpc' \in {"idle", "open"}
        /\ tpc' = "open" => AllBoards
    BY <1>a, <1>c, <2>0, NextBoardRange DEF ToolType
  <2>3. BusType'
    BY <1>a, <1>b, <2>1 DEF BusType, Reached
  <2>4. ToolType'
    BY <1>a, <2>0, <2>2, LoseType DEF ToolType
  <2>5. Fits'
    BY <2>0, <2>2 DEF Fits, AllBoards
  <2> QED BY <2>3, <2>4, <2>5
<1>7. CASE Read
  <2> DEFINE row == First(rows)
  <2>0. /\ cmd' = cmd /\ tpc = "read" /\ rows # {} /\ rows' = rows \ {row}
        /\ shown' = Shown(row, rxbuf')
        /\ UNCHANGED <<ssr, ier, late, tpc, tboard, started>>
    BY <1>7 DEF Read
  <2> PICK ok \in BOOLEAN :
        Lose(ok) /\ rxbuf' = IF ok THEN Register(row[1], row[2]) ELSE rxbuf
    BY <1>7 DEF Read
  <2>1. row \in ChipIds \X {SSR, IER}
    <3>1. row \in rows
      BY <1>a, <2>0, FirstIsRow DEF ToolType
    <3> QED BY <1>a, <3>1 DEF ToolType
  <2> HIDE DEF row
  <2>2. rxbuf' \in Words
    BY <1>a, RegisterType DEF ToolType
  <2>3. /\ DOMAIN shown' \subseteq ChipIds \X {SSR, IER}
        /\ \A r \in DOMAIN shown' : shown'[r] \in Words
    BY <1>a, <2>0, <2>1, <2>2 DEF ToolType, Shown
  <2>4. ToolType'
    BY <1>a, <2>0, <2>2, <2>3, LoseType DEF ToolType
  <2>5. BusType' /\ Fits'
    BY <1>a, <1>b, <1>c, <2>0 DEF BusType, Fits, AllBoards, FirstBoard
  <2> QED BY <2>4, <2>5
<1>8. CASE Show
  <2>0. /\ cmd \in Commands /\ cmd' = cmd /\ tpc = "read" /\ NextBoard
        /\ UNCHANGED <<ssr, ier, late, rows, rxbuf, shown, started, lost>>
    BY <1>8, <1>c DEF Show
  <2>1. /\ tboard' \in Boards /\ tpc' \in {"idle", "open"}
        /\ tpc' = "open" => AllBoards
    BY <1>a, <1>c, <2>0, NextBoardRange DEF ToolType
  <2> QED BY <1>a, <1>b, <2>0, <2>1 DEF ToolType, BusType, Fits, AllBoards
<1> QED BY <1>1, <1>2, <1>3, <1>4, <1>5, <1>6, <1>7, <1>8 DEF ToolStep

-----------------------------------------------------------------------------
(* What bnt_init has read and repaired.                                     *)

\* A tool that changes a register the miner relies on is put on record.
LEMMA ToolMarks ==
    ASSUME TypeOK, ToolStep \/ \E c \in Commands : Start(c), NEW k \in Fitted
    PROVE  /\ late \subseteq late' /\ muted \subseteq muted'
           /\ spoiled \subseteq spoiled' /\ spoiled' \subseteq spoiled \cup Fitted
           /\ ssr'[k] = ssr[k] \/ k \in late' \/ k \notin verified
           /\ ssr'[k] = ssr[k] \/ k \in spoiled'
           /\ ier'[k] = ier[k] \/ k \in muted'
<1>a. ssr \in [Fitted -> Miner!Ssr] /\ ier \in [Fitted -> SUBSET Miner!IntKinds]
  BY DEF TypeOK
<1>1. CASE UNCHANGED <<ssr, ier, late, spoiled, muted>>
  BY <1>1
<1>2. CASE ResetSet
  <2> DEFINE all == cmd.c = None
  <2> PICK ok \in BOOLEAN :
        /\ ssr' = regwrite(ssr, tboard, cmd.c, Miner!SoftReset, all, ok)
        /\ ier' \in {ier, regwrite(ier, tboard, cmd.c, {}, all, ok)}
        /\ late' = late \cup (Reached(cmd.c, all, ok) \cap verified)
        /\ spoiled' = spoiled \cup Reached(cmd.c, all, ok)
        /\ muted' = muted \cup Reached(cmd.c, all, ok)
    BY <1>2 DEF ResetSet
  <2> HIDE DEF all
  <2>0. Reached(cmd.c, all, ok) \subseteq Fitted
    BY DEF Reached
  <2>1. CASE k \in Reached(cmd.c, all, ok)
    BY <2>0, <2>1
  <2>2. CASE k \notin Reached(cmd.c, all, ok)
    <3>1. ~(ok /\ k[1] = tboard /\ (all \/ k[2] = cmd.c))
      BY <2>2 DEF Reached
    <3>2. /\ regwrite(ssr, tboard, cmd.c, Miner!SoftReset, all, ok)[k] = ssr[k]
          /\ regwrite(ier, tboard, cmd.c, {}, all, ok)[k] = ier[k]
      BY <1>a, <3>1 DEF regwrite
    <3> QED BY <2>0, <3>2
  <2> QED BY <2>1, <2>2
<1>3. CASE ResetRelease
  <2> DEFINE all == cmd.c = None
  <2> PICK ok \in BOOLEAN :
        /\ ssr' = regwrite(ssr, tboard, cmd.c, Miner!Cleared, all, ok)
        /\ late' = late \cup (Reached(cmd.c, all, ok) \cap verified)
        /\ spoiled' = spoiled \cup Reached(cmd.c, all, ok)
    BY <1>3 DEF ResetRelease
  <2>0. UNCHANGED <<ier, muted>> /\ Reached(cmd.c, all, ok) \subseteq Fitted
    BY <1>3 DEF ResetRelease, Reached
  <2> HIDE DEF all
  <2>1. CASE k \in Reached(cmd.c, all, ok)
    BY <2>0, <2>1
  <2>2. CASE k \notin Reached(cmd.c, all, ok)
    <3>1. ~(ok /\ k[1] = tboard /\ (all \/ k[2] = cmd.c))
      BY <2>2 DEF Reached
    <3>2. regwrite(ssr, tboard, cmd.c, Miner!Cleared, all, ok)[k] = ssr[k]
      BY <1>a, <3>1 DEF regwrite
    <3> QED BY <2>0, <3>2
  <2> QED BY <2>1, <2>2
<1>4. CASE Write
  <2> PICK ok \in BOOLEAN :
        \/ /\ ssr' = regwrite(ssr, tboard, cmd.c, cmd.ssr, cmd.all, ok)
           /\ late' = late \cup (Reached(cmd.c, cmd.all, ok) \cap verified)
           /\ spoiled' = spoiled \cup Reached(cmd.c, cmd.all, ok)
           /\ UNCHANGED <<ier, muted>>
        \/ /\ ier' = regwrite(ier, tboard, cmd.c, cmd.ier, cmd.all, ok)
           /\ muted' = muted \cup Reached(cmd.c, cmd.all, ok)
           /\ UNCHANGED <<ssr, late, spoiled>>
    BY <1>4 DEF Write
  <2>0. Reached(cmd.c, cmd.all, ok) \subseteq Fitted
    BY DEF Reached
  <2>1. CASE k \in Reached(cmd.c, cmd.all, ok)
    BY <2>0, <2>1
  <2>2. CASE k \notin Reached(cmd.c, cmd.all, ok)
    <3>1. ~(ok /\ k[1] = tboard /\ (cmd.all \/ k[2] = cmd.c))
      BY <2>2 DEF Reached
    <3>2. /\ regwrite(ssr, tboard, cmd.c, cmd.ssr, cmd.all, ok)[k] = ssr[k]
          /\ regwrite(ier, tboard, cmd.c, cmd.ier, cmd.all, ok)[k] = ier[k]
      BY <1>a, <3>1 DEF regwrite
    <3> QED BY <2>0, <3>2
  <2> QED BY <2>1, <2>2
<1>5. ASSUME OpenBoard \/ NoBoard \/ Read \/ Show \/ \E c \in Commands : Start(c)
      PROVE  UNCHANGED <<ssr, ier, late, spoiled, muted>>
  <2>1. CASE OpenBoard    BY <2>1 DEF OpenBoard, initVars
  <2>2. CASE NoBoard      BY <2>2 DEF NoBoard, initVars
  <2>3. CASE Read         BY <2>3 DEF Read
  <2>4. CASE Show         BY <2>4 DEF Show
  <2>5. CASE \E c \in Commands : Start(c)
    BY <2>5 DEF Start, initVars
  <2> QED BY <1>5, <2>1, <2>2, <2>3, <2>4, <2>5
<1> QED BY <1>1, <1>2, <1>3, <1>4, <1>5 DEF ToolStep

\* What was passed, and what a pass over a polled id adds.
LEMMA BehindGrows ==
    ASSUME TypeOK, Control, pc \in Polling, chip < MAX_NCHIPS_PER_BOARD,
           <<board, chip>> \in verified' \/ pc # "verify", Checked,
           UNCHANGED <<open, board>>, verified \subseteq verified', Miner!NextChip
    PROVE  Checked'
<1> SUFFICES ASSUME NEW k \in Fitted, k[1] \in open, k[2] % Step = 0,
                    Behind(k[1], k[2])'
             PROVE  k \in verified'
  BY DEF Checked
<1>1. pc' = "verify" /\ chip' = chip + Step
  BY SameBus DEF Miner!NextChip
<1>2. k[1] < board \/ (k[1] = board /\ k[2] < chip + Step)
  BY <1>1 DEF Behind, Polling
<1>3. k[1] < board \/ (k[1] = board /\ k[2] <= chip)
  <2>1. chip \in 0 .. MAX_NCHIPS_PER_BOARD /\ chip % Step = 0 /\ k[2] \in ChipIds
    BY ChipsAssumption DEF TypeOK, Control
  <2> QED BY <1>2, <2>1, NextPolled
<1>4. CASE k = <<board, chip>> /\ pc = "verify"
  BY <1>4
<1>5. CASE Behind(k[1], k[2])
  BY <1>5 DEF Checked
<1>6. board \in Int /\ chip \in Int /\ k[2] \in Int /\ k = <<k[1], k[2]>>
  BY Where DEF TypeOK, MAX_NBOARDS, MAX_NCHIPS_PER_BOARD
<1>7. k[1] < board \/ (k[1] = board /\ k[2] < chip) \/ (k[1] = board /\ k[2] = chip)
  BY <1>3, <1>6
<1> QED BY <1>4, <1>5, <1>6, <1>7 DEF Behind, Polling

\* Before the verification there is nothing to keep.
LEMMA NothingRead ==
    ASSUME Control', pc' \in {"reset", "release", "ssr", "psr"}
    PROVE  Checked' /\ Repaired'
  BY DEF Control, Checked, Repaired, Behind, Polling

LEMMA MinerChecks ==
    ASSUME TypeOK, Control, Checked, Repaired, MinerStep
    PROVE  Checked' /\ Repaired'
<1>a. Control' /\ open' = open
  BY MinerTypes, MinerKeeps
<1>b. open \subseteq 0 .. 3 /\ board \in 0 .. 4 /\ chip \in 0 .. 64
  BY NodesAssumption DEF TypeOK, Boards, MAX_NBOARDS, MAX_NCHIPS_PER_BOARD
<1>c. ssr \in [Fitted -> Miner!Ssr]
  BY DEF TypeOK
\* A step that only moves on.
<1>d. ASSUME UNCHANGED <<ssr, verified, late>>, pc # "retry",
             \A k \in Fitted : k[1] \in open /\ Behind(k[1], k[2])' => Behind(k[1], k[2])
      PROVE  Checked' /\ Repaired'
  BY <1>a, <1>d DEF Checked, Repaired
<1>1. CASE Initialise
  <2>0. UNCHANGED <<verified, late>>
    BY <1>1 DEF Initialise
  <2>1. CASE \/ Miner!ResetSet \/ Miner!ResetRelease \/ Miner!WriteSsr
             \/ Miner!WritePsr
    <3>1. pc' \in {"reset", "release", "ssr", "psr"}
      BY <2>1 DEF Miner!ResetSet, Miner!ResetRelease, Miner!WriteSsr,
         Miner!WritePsr, Miner!AtBoard
    <3> QED BY <1>a, <3>1, NothingRead
  <2>2. CASE Miner!VerifyNextBoard
    <3>1. /\ pc = "verify" /\ pc' = "verify" /\ board' = board + 1 /\ chip' = 0
          /\ chip >= 64 /\ ssr' = ssr
      BY <2>2, SameBus DEF Miner!VerifyNextBoard, Miner!AtBoard, Miner!chips
    <3>2. ASSUME NEW k \in Fitted, Behind(k[1], k[2])'
          PROVE  Behind(k[1], k[2])
      BY <1>b, <3>1, <3>2, Where DEF Behind, Polling
    <3> QED BY <1>d, <2>0, <3>1, <3>2
  <2>3. CASE Miner!RetryWrite
    <3>1. /\ pc = "retry" /\ pc' = "reread" /\ UNCHANGED <<board, chip>>
          /\ ssr' = Miner!regwrite(ssr, board, 0, Miner!HandleSsr, TRUE, TRUE)
      <4> PICK ok \in BOOLEAN :
            /\ Miner!Bus(ok)
            /\ ssr' = Miner!regwrite(ssr, board, 0, Miner!HandleSsr, TRUE, ok)
        BY <2>3 DEF Miner!RetryWrite
      <4>1. ok = TRUE
        BY BusWorks
      <4> QED BY <2>3, <4>1 DEF Miner!RetryWrite
    <3>2. Checked'
      BY <1>a, <2>0, <3>1 DEF Checked, Behind, Polling
    <3>3. ASSUME NEW k \in verified \cap Fitted,
                 Miner!And_FF04(ssr'[k]) # Miner!HandleSsr
          PROVE  k \in late
      <4>1. CASE k[1] = board
        <5>1. ssr'[k] = Miner!HandleSsr
          BY <1>c, <3>1, <4>1 DEF Miner!regwrite
        <5> QED BY <3>3, <5>1, HandleIsRight
      <4>2. CASE k[1] # board
        <5>1. ssr'[k] = ssr[k]
          BY <1>c, <3>1, <4>2 DEF Miner!regwrite
        <5> QED BY <3>3, <4>2, <5>1 DEF Repaired
      <4> QED BY <4>1, <4>2
    <3>4. Repaired'
      BY <2>0, <3>3 DEF Repaired
    <3> QED BY <3>2, <3>4
  <2>4. CASE Miner!RetryRead
    <3>1. /\ pc = "reread" /\ UNCHANGED <<ssr, board>>
          /\ Miner!NextChip \/ (pc' = "retry" /\ chip' = chip)
      BY <2>4 DEF Miner!RetryRead, Miner!chips
    <3>2. Repaired'
      BY <2>0, <3>1 DEF Repaired
    <3>3. CASE Miner!NextChip
      <4>1. chip < MAX_NCHIPS_PER_BOARD
        BY <3>1 DEF Control
      <4> QED BY <1>a, <2>0, <3>1, <3>2, <3>3, <4>1, BehindGrows DEF Polling
    <3>4. CASE pc' = "retry" /\ chip' = chip
      <4>1. Checked'
        BY <1>a, <2>0, <3>1, <3>4 DEF Checked, Behind, Polling
      <4> QED BY <3>2, <4>1
    <3> QED BY <3>1, <3>3, <3>4
  <2>5. CASE Miner!SkipBoard
    <3>1. /\ pc' = pc /\ ssr' = ssr /\ chip' = chip /\ board' = board + 1
          /\ board \notin open /\ pc \in {"reset", "ssr", "psr", "verify", "irq"}
      BY <2>5 DEF Miner!SkipBoard, Miner!chips
    <3>2. CASE pc \in {"reset", "ssr", "psr"}
      BY <1>a, <3>1, <3>2, NothingRead
    <3>3. CASE pc = "verify"
      <4>1. chip = 0
        BY <3>1, <3>3 DEF Control
      <4>2. ASSUME NEW k \in Fitted, k[1] \in open, Behind(k[1], k[2])'
            PROVE  Behind(k[1], k[2])
        BY <1>b, <3>1, <3>3, <4>1, <4>2, Where DEF Behind, Polling
      <4> QED BY <1>d, <2>0, <3>1, <3>3, <4>2
    <3>4. CASE pc = "irq"
      BY <1>d, <2>0, <3>1, <3>4 DEF Behind
    <3> QED BY <3>1, <3>2, <3>3, <3>4
  <2>6. CASE Miner!EndLoop
    <3>1. /\ pc \in {"reset", "ssr", "psr", "verify", "irq"} /\ board = 4
          /\ pc = "reset" => pc' = "ssr"
          /\ pc = "ssr" => pc' \in {"psr", "verify"}
          /\ pc = "psr" => pc' = "verify"
          /\ pc = "verify" => pc' = "irq"
          /\ pc = "irq" => pc' = "done"
          /\ board' = 0 /\ chip' = chip /\ ssr' = ssr
      BY <2>6, SameBus DEF Miner!EndLoop, Miner!After, Miner!chips, TypeOK
    <3>2. CASE pc' \in {"ssr", "psr"}
      BY <1>a, <3>2, NothingRead
    <3>3. CASE pc' = "verify"
      <4>1. chip = 0 /\ pc # "retry"
        BY <3>1, <3>3 DEF Control
      <4>2. ASSUME NEW k \in Fitted, k[1] \in open, Behind(k[1], k[2])'
            PROVE  Behind(k[1], k[2])
        BY <3>1, <3>3, <4>1, <4>2, Where DEF Behind
      <4> QED BY <1>d, <2>0, <3>1, <4>1, <4>2
    <3>4. CASE pc' \in {"irq", "done"}
      <4>1. pc \in {"verify", "irq"}
        BY <3>1, <3>4
      <4>2. ASSUME NEW k \in Fitted, k[1] \in open, Behind(k[1], k[2])'
            PROVE  Behind(k[1], k[2])
        BY <3>1, <4>1, Where DEF Behind, Polling
      <4> QED BY <1>d, <2>0, <3>1, <4>1, <4>2
    <3> QED BY <3>1, <3>2, <3>3, <3>4
  <2> QED BY <1>1, <2>1, <2>2, <2>3, <2>4, <2>5, <2>6 DEF Initialise
<1>2. CASE Verify
  <2> DEFINE seen(ok) ==
               Miner!And_FF04(Miner!regread(ssr, board, chip, buf, Miner!Cleared, ok))
  <2>0. /\ late' = late /\ verified' = verified \cup {<<board, chip>>}
        /\ Miner!VerifyRead
    BY <1>2 DEF Verify
  <2>1. /\ pc = "verify" /\ chip < MAX_NCHIPS_PER_BOARD /\ UNCHANGED <<ssr, board>>
    BY <2>0, SameBus DEF Miner!VerifyRead, Miner!AtBoard, Miner!chips, MAX_NCHIPS_PER_BOARD
  <2>2. \/ seen(TRUE) = Miner!HandleSsr /\ Miner!NextChip
        \/ pc' = "retry" /\ chip' = chip
    <3> PICK ok \in BOOLEAN :
          /\ Miner!Bus(ok)
          /\ \/ seen(ok) = Miner!HandleSsr /\ Miner!NextChip
             \/ pc' = "retry" /\ chip' = chip
      BY <2>0 DEF Miner!VerifyRead
    <3>1. ok = TRUE
      BY BusWorks
    <3> QED BY <3>1
  <2>3. CASE seen(TRUE) = Miner!HandleSsr /\ Miner!NextChip
    <3>1. Checked'
      <4> HIDE DEF seen
      <4> QED BY <1>a, <2>0, <2>1, <2>3, BehindGrows DEF Polling
    <3>2. <<board, chip>> \in Fitted =>
            Miner!And_FF04(ssr[<<board, chip>>]) = Miner!HandleSsr
      BY <1>c, <2>3 DEF Miner!regread
    <3>3. Repaired'
      <4> HIDE DEF seen
      <4> QED BY <2>0, <2>1, <3>2 DEF Repaired
    <3> QED BY <3>1, <3>3
  <2>4. CASE pc' = "retry" /\ chip' = chip
    <3> HIDE DEF seen
    <3>1. ASSUME NEW k \in Fitted, k[1] \in open, k[2] % Step = 0, Behind(k[1], k[2])'
          PROVE  k \in verified'
      <4>1. Behind(k[1], k[2]) \/ k = <<board, chip>>
        BY <2>1, <2>4, <3>1, Where DEF Behind, Polling
      <4> QED BY <2>0, <3>1, <4>1 DEF Checked
    <3>2. Checked'
      BY <1>a, <3>1 DEF Checked
    <3>3. Repaired'
      BY <2>0, <2>1, <2>4 DEF Repaired
    <3> QED BY <3>2, <3>3
  <2> QED BY <2>2, <2>3, <2>4
<1>3. CASE IrqRead \/ IrqWrite
  <2>1. /\ pc \in {"irq", "enable"} /\ UNCHANGED <<ssr, verified, late>>
    BY <1>3 DEF IrqRead, IrqWrite, Miner!AtBoard
  <2> QED BY <1>d, <2>1 DEF Behind
<1>4. CASE NextJob
  <2>1. pc' = "reset"
    BY <1>4 DEF NextJob
  <2> QED BY <1>a, <2>1, NothingRead
<1> QED BY <1>1, <1>2, <1>3, <1>4 DEF MinerStep

LEMMA ToolChecks ==
    ASSUME TypeOK, Checked, Repaired, ToolStep \/ \E c \in Commands : Start(c)
    PROVE  Checked' /\ Repaired'
<1>1. UNCHANGED <<open, pc, board, chip, verified>>
  BY ToolKeeps DEF minerVars
<1>2. Checked'
  BY <1>1 DEF Checked, Behind
<1>3. Repaired'
  BY <1>1, ToolMarks DEF Repaired
<1> QED BY <1>2, <1>3

\* What bnt_init writes goes to all chips of a board, in its first write of SSR
\* and in a retry: none keeps what it held before.
LEMMA MinerWrites ==
    ASSUME TypeOK, Control, Written, MinerStep
    PROVE  Written' /\ spoiled' \subseteq spoiled
<1>a. open' = open /\ open \subseteq 0 .. 3 /\ board \in 0 .. 4
  <2>1. open' = open
    BY MinerKeeps
  <2>2. open \subseteq Nodes /\ board \in 0 .. MAX_NBOARDS
    BY DEF TypeOK
  <2> QED BY <2>1, <2>2, NodesAssumption DEF Boards, MAX_NBOARDS
<1>c. ssr \in [Fitted -> Miner!Ssr]
  BY DEF TypeOK
\* A write to the board.
<1>w. ASSUME ssr' = Miner!regwrite(ssr, board, 0, Miner!HandleSsr, TRUE, TRUE),
             spoiled' = {k \in spoiled : k[1] # board},
             \A k \in Fitted : k[1] # board /\ k[1] \in open /\ Rewritten(k[1])'
                              => Rewritten(k[1])
      PROVE  Written'
  <2> SUFFICES ASSUME NEW k \in Fitted, k[1] \in open, Rewritten(k[1])',
                      ssr'[k] # Miner!HandleSsr
               PROVE  k \in spoiled'
    BY <1>a DEF Written
  <2>1. CASE k[1] = board
    BY <1>c, <1>w, <2>1 DEF Miner!regwrite
  <2>2. CASE k[1] # board
    <3>1. ssr'[k] = ssr[k]
      BY <1>c, <1>w, <2>2 DEF Miner!regwrite
    <3> QED BY <1>w, <2>2, <3>1 DEF Written
  <2> QED BY <2>1, <2>2
\* A step that only moves on.
<1>d. ASSUME UNCHANGED <<ssr, spoiled>>,
             \A k \in Fitted : k[1] \in open /\ Rewritten(k[1])' => Rewritten(k[1])
      PROVE  Written'
  BY <1>a, <1>d DEF Written
<1>1. CASE Initialise
  <2>0. spoiled' = IF pc = "retry" \/ (pc = "ssr" /\ board \in open)
                   THEN {k \in spoiled : k[1] # board} ELSE spoiled
    BY <1>1 DEF Initialise
  <2>1. CASE Miner!ResetSet \/ Miner!ResetRelease
    <3>1. pc' \in {"reset", "release"} /\ pc \in {"reset", "release"}
      BY <2>1 DEF Miner!ResetSet, Miner!ResetRelease, Miner!AtBoard
    <3> QED BY <2>0, <3>1 DEF Written, Rewritten, Polling
  <2>2. CASE Miner!WriteSsr
    <3>1. /\ pc = "ssr" /\ pc' = "ssr" /\ board \in open /\ board' = board + 1
          /\ ssr' = Miner!regwrite(ssr, board, 0, Miner!HandleSsr, TRUE, TRUE)
      <4> PICK ok \in BOOLEAN :
            /\ Miner!Bus(ok)
            /\ ssr' = Miner!regwrite(ssr, board, 0, Miner!HandleSsr, TRUE, ok)
        BY <2>2 DEF Miner!WriteSsr
      <4>1. ok = TRUE
        BY BusWorks
      <4> QED BY <2>2, <4>1 DEF Miner!WriteSsr, Miner!AtBoard
    <3>2. ASSUME NEW k \in Fitted, k[1] # board, Rewritten(k[1])'
          PROVE  Rewritten(k[1])
      BY <1>a, <3>1, <3>2, Where DEF Rewritten, Polling
    <3> QED BY <1>w, <2>0, <3>1, <3>2
  <2>3. CASE Miner!RetryWrite
    <3>1. /\ pc = "retry" /\ pc' = "reread"
          /\ ssr' = Miner!regwrite(ssr, board, 0, Miner!HandleSsr, TRUE, TRUE)
      <4> PICK ok \in BOOLEAN :
            /\ Miner!Bus(ok)
            /\ ssr' = Miner!regwrite(ssr, board, 0, Miner!HandleSsr, TRUE, ok)
        BY <2>3 DEF Miner!RetryWrite
      <4>1. ok = TRUE
        BY BusWorks
      <4> QED BY <2>3, <4>1 DEF Miner!RetryWrite
    <3>2. \A k \in Fitted : Rewritten(k[1])
      BY <3>1 DEF Rewritten, Polling
    <3> QED BY <1>w, <2>0, <3>1, <3>2
  <2>4. CASE Miner!SkipBoard
    <3>1. /\ pc' = pc /\ ssr' = ssr /\ board' = board + 1 /\ board \notin open
          /\ pc # "retry"
      BY <2>4 DEF Miner!SkipBoard, Miner!chips
    <3>2. ASSUME NEW k \in Fitted, k[1] \in open, Rewritten(k[1])'
          PROVE  Rewritten(k[1])
      BY <1>a, <3>1, <3>2, Where DEF Rewritten, Polling
    <3> QED BY <1>d, <2>0, <3>1, <3>2
  <2>5. CASE Miner!EndLoop
    <3>1. /\ pc = "reset" => pc' = "ssr"
          /\ pc \in {"reset", "ssr", "psr", "verify", "irq"}
          /\ board = 4 /\ board' = 0 /\ ssr' = ssr
      BY <2>5, SameBus DEF Miner!EndLoop, Miner!After, Miner!chips
    <3>2. ASSUME NEW k \in Fitted, Rewritten(k[1])'
          PROVE  Rewritten(k[1])
      BY <3>1, <3>2, Where DEF Rewritten, Polling
    <3>3. spoiled' = spoiled
      BY <1>a, <2>0, <3>1
    <3> QED BY <1>d, <3>1, <3>2, <3>3
  <2>6. CASE Miner!WritePsr \/ Miner!VerifyNextBoard \/ Miner!RetryRead
    <3>1. pc \in {"psr", "verify", "reread"} /\ ssr' = ssr
      BY <2>6 DEF Miner!WritePsr, Miner!VerifyNextBoard, Miner!RetryRead,
         Miner!AtBoard, Miner!chips
    <3>2. \A k \in Fitted : Rewritten(k[1])
      BY <3>1 DEF Rewritten, Polling
    <3> QED BY <1>d, <2>0, <3>1, <3>2
  <2>7. spoiled' \subseteq spoiled
    BY <2>0
  <2> QED BY <1>1, <2>1, <2>2, <2>3, <2>4, <2>5, <2>6, <2>7 DEF Initialise
<1>2. CASE Verify \/ IrqRead \/ IrqWrite
  <2>1. pc \in {"verify", "irq", "enable"} /\ UNCHANGED <<ssr, spoiled>>
    BY <1>2 DEF Verify, Miner!VerifyRead, Miner!chips, IrqRead, IrqWrite, Miner!AtBoard
  <2>2. \A k \in Fitted : Rewritten(k[1])
    BY <2>1 DEF Rewritten, Polling
  <2> QED BY <1>d, <2>1, <2>2
<1>3. CASE NextJob
  <2>1. pc' = "reset" /\ spoiled' = spoiled
    BY <1>3 DEF NextJob
  <2> QED BY <2>1 DEF Written, Rewritten, Polling
<1> QED BY <1>1, <1>2, <1>3 DEF MinerStep

LEMMA ToolWrites ==
    ASSUME TypeOK, Written, ToolStep \/ \E c \in Commands : Start(c)
    PROVE  Written' /\ spoiled' \subseteq Fitted
<1>1. UNCHANGED <<open, pc, board>>
  BY ToolKeeps DEF minerVars
<1>2. Written'
  BY <1>1, ToolMarks DEF Written, Rewritten
<1>3. spoiled' \subseteq Fitted
  <2>1. CASE Fitted = {}
    <3>1. \A id, bcast, ok : Reached(id, bcast, ok) = {}
      BY <2>1 DEF Reached
    <3> QED BY <2>1, <3>1
            DEF TypeOK, ToolStep, OpenBoard, NoBoard, ResetSet, ResetRelease, Write,
                Read, Show, Start
  <2>2. CASE Fitted # {}
    BY <2>2, ToolMarks DEF TypeOK
  <2> QED BY <2>1, <2>2
<1> QED BY <1>2, <1>3

-----------------------------------------------------------------------------
(* The interrupts.                                                          *)

LEMMA MinerListens ==
    ASSUME TypeOK, Control, Listening, MinerStep
    PROVE  Listening'
<1>a. open' = open /\ open \subseteq 0 .. 3 /\ board \in 0 .. 4
  <2>1. open' = open
    BY MinerKeeps
  <2>2. open \subseteq Nodes /\ board \in 0 .. MAX_NBOARDS
    BY DEF TypeOK
  <2> QED BY <2>1, <2>2, NodesAssumption DEF Boards, MAX_NBOARDS
<1>b. ier \in [Fitted -> SUBSET Miner!IntKinds]
  BY DEF TypeOK
<1>1. CASE pc' \notin {"irq", "enable", "done"}
  BY <1>1 DEF Listening
<1>2. CASE Miner!SkipBoard /\ Initialise /\ pc' \in {"irq", "enable", "done"}
  <2>1. /\ pc = "irq" /\ pc' = "irq" /\ board' = board + 1 /\ board \notin open
        /\ UNCHANGED <<ier, muted>>
    BY <1>2 DEF Miner!SkipBoard, Miner!chips, Initialise
  <2>2. \A k \in Fitted : k[1] < board + 1 /\ k[1] \in open => k[1] < board
    BY <1>a, <2>1, Where
  <2> QED BY <1>a, <2>1, <2>2 DEF Listening
<1>3. CASE Miner!EndLoop /\ Initialise /\ pc' \in {"irq", "enable", "done"}
  <2>1. /\ pc = "verify" => pc' = "irq"
        /\ pc = "irq" => pc' = "done"
        /\ pc \in {"verify", "irq"}
        /\ board = 4 /\ board' = 0 /\ UNCHANGED <<ier, muted>>
    BY <1>3, SameBus DEF Miner!EndLoop, Miner!After, Miner!chips, Initialise, TypeOK
  <2>2. \A k \in Fitted : ~(k[1] < 0) /\ k[1] < 4
    BY Where
  <2> QED BY <1>a, <2>1, <2>2 DEF Listening
<1>4. CASE IrqRead
  BY <1>4, <1>a DEF IrqRead, Miner!AtBoard, Listening
<1>5. CASE IrqWrite
  <2>1. /\ pc = "enable" /\ pc' = "irq" /\ board' = board + 1
        /\ ier' = regwrite(ier, board, 0, Enabled(irq), TRUE, TRUE)
        /\ muted' = {k \in muted : k[1] # board}
    BY <1>5 DEF IrqWrite
  <2> SUFFICES ASSUME NEW k \in Fitted, k[1] \in open, k[1] < board + 1,
                      ~(Miner!IntAll \subseteq ier'[k])
               PROVE  k \in muted'
    BY <1>a, <2>1 DEF Listening
  <2>2. CASE k[1] = board
    <3>1. ier'[k] = Enabled(irq)
      BY <1>b, <2>1, <2>2 DEF regwrite
    <3> QED BY <3>1 DEF Enabled
  <2>3. CASE k[1] # board
    <3>1. ier'[k] = ier[k] /\ k[1] < board
      BY <1>a, <1>b, <2>1, <2>3, Where DEF regwrite
    <3> QED BY <2>1, <2>3, <3>1 DEF Listening
  <2> QED BY <2>2, <2>3
<1>6. ASSUME MinerStep, pc' \in {"irq", "enable", "done"}
      PROVE  \/ Initialise /\ (Miner!SkipBoard \/ Miner!EndLoop)
             \/ IrqRead \/ IrqWrite
  <2>1. CASE Initialise
    BY <1>6, <2>1 DEF Initialise, Miner!ResetSet, Miner!ResetRelease, Miner!WriteSsr,
       Miner!WritePsr, Miner!VerifyNextBoard, Miner!RetryWrite, Miner!RetryRead,
       Miner!NextChip, Miner!AtBoard
  <2>2. CASE Verify
    BY <1>6, <2>2 DEF Verify, Miner!VerifyRead, Miner!NextChip
  <2>3. CASE NextJob
    BY <1>6, <2>3 DEF NextJob
  <2> QED BY <1>6, <2>1, <2>2, <2>3 DEF MinerStep
<1> QED BY <1>1, <1>2, <1>3, <1>4, <1>5, <1>6

LEMMA ToolListens ==
    ASSUME TypeOK, Listening, ToolStep \/ \E c \in Commands : Start(c)
    PROVE  Listening'
<1>1. UNCHANGED <<open, pc, board>>
  BY ToolKeeps DEF minerVars
<1> QED BY <1>1, ToolMarks DEF Listening

-----------------------------------------------------------------------------
(* What is shown, and which boards are reset.                               *)

LEMMA MinerShows ==
    ASSUME TypeOK, Seen, Buffered, Fits, Swept, UpToGap, MinerStep
    PROVE  Seen' /\ Buffered' /\ Fits' /\ Swept' /\ UpToGap'
<1>1. UNCHANGED <<cmd, tpc, tboard, rows, rxbuf, shown, started, lost, wiped, missed>>
      /\ Changed
  BY MinerKeeps DEF toolVars
<1>2. Buffered' /\ Fits' /\ Swept' /\ UpToGap'
  BY <1>1 DEF Buffered, Received, Fits, Swept, UpToGap, AllBoards, FirstBoard
<1>3. ASSUME tpc = "read", NEW row \in DOMAIN shown \ missed,
             <<tboard, row[1]>> \notin changed'
      PROVE  shown[row] = Register(row[1], row[2])'
  <2>1. changed' = changed \cup {k \in Fitted : ssr'[k] # ssr[k] \/ ier'[k] # ier[k]}
    BY <1>1, <1>3 DEF Changed
  <2>2. shown[row] = Register(row[1], row[2])
    BY <1>3, <2>1 DEF Seen
  <2>3. <<tboard, row[1]>> \in Fitted =>
          /\ ssr'[<<tboard, row[1]>>] = ssr[<<tboard, row[1]>>]
          /\ ier'[<<tboard, row[1]>>] = ier[<<tboard, row[1]>>]
    BY <1>3, <2>1
  <2> QED BY <1>1, <2>2, <2>3 DEF Register
<1>4. Seen'
  BY <1>1, <1>3 DEF Seen
<1> QED BY <1>2, <1>4

LEMMA ToolShows ==
    ASSUME TypeOK, Fits, Seen, ToolStep \/ \E c \in Commands : Start(c)
    PROVE  Seen'
<1>c. tpc # "idle" => cmd \in Commands /\ (~AllBoards => tboard = FirstBoard(cmd))
  BY DEF Fits
\* Only a command that writes goes on to another board.
<1>d. ASSUME NextBoard, tpc # "idle", cmd' = cmd
      PROVE  Seen'
  <2>1. tpc' \in {"idle", "open"} /\ (tpc' = "open" => AllBoards)
    BY <1>c, <1>d, NextBoardRange DEF TypeOK
  <2> QED BY <1>d, <2>1 DEF Seen, AllBoards
<1>1. CASE \E c \in Commands : Start(c)
  <2>1. shown' = <<>> /\ missed' = {} /\ tpc' \in {"idle", "open"}
    BY <1>1 DEF Start
  <2> QED BY <2>1 DEF Seen
<1>2. CASE OpenBoard
  <2>1. CASE tpc' = "read"
    <3>1. cmd \in Commands /\ cmd.tool # "bnt_reset" /\ cmd.do # "write" /\ tpc = "open"
          /\ shown' = shown
      BY <1>2, <1>c, <2>1 DEF OpenBoard
    <3>2. DOMAIN shown = {}
      BY <3>1, CommandShape DEF Seen
    <3> QED BY <2>1, <3>1, <3>2 DEF Seen
  <2>2. CASE tpc' # "read"
    <3>1. tpc' \in {"set", "write"}
      BY <1>2, <2>2 DEF OpenBoard
    <3> QED BY <3>1 DEF Seen
  <2> QED BY <2>1, <2>2
<1>3. CASE NoBoard
  <2>1. AfterNoBoard /\ tpc = "open" /\ cmd' = cmd
    BY <1>3 DEF NoBoard
  <2>2. CASE cmd.tool = "bnt_reset"
    BY <2>1, <2>2 DEF AfterNoBoard, Seen
  <2>3. CASE cmd.tool # "bnt_reset"
    BY <1>d, <2>1, <2>3 DEF AfterNoBoard
  <2> QED BY <2>2, <2>3
<1>4. CASE ResetSet
  BY <1>4 DEF ResetSet, Seen
<1>5. CASE ResetRelease \/ Write \/ Show
  <2>1. NextBoard /\ tpc # "idle" /\ cmd' = cmd
    BY <1>5 DEF ResetRelease, Write, Show
  <2> QED BY <1>d, <2>1
<1>6. CASE Read
  <2> DEFINE row == First(rows)
  <2>0. /\ tpc = "read" /\ shown' = Shown(row, rxbuf')
        /\ UNCHANGED <<ssr, ier, changed, tpc, tboard>>
    BY <1>6, ToolKeeps DEF Read
  <2> PICK ok \in BOOLEAN :
        /\ rxbuf' = IF ok THEN Register(row[1], row[2]) ELSE rxbuf
        /\ missed' = IF ok THEN missed ELSE missed \cup {row}
    BY <1>6 DEF Read
  <2> HIDE DEF row
  <2> SUFFICES ASSUME NEW r \in DOMAIN shown' \ missed', <<tboard, r[1]>> \notin changed
               PROVE  shown'[r] = Register(r[1], r[2])
    BY <2>0 DEF Seen, Register
  <2>1. CASE r = row
    <3>1. rxbuf' = Register(row[1], row[2])
      BY <2>1
    <3> QED BY <2>0, <2>1, <3>1 DEF Shown
  <2>2. CASE r # row
    <3>1. r \in DOMAIN shown \ missed /\ shown'[r] = shown[r]
      BY <2>0, <2>2 DEF Shown
    <3> QED BY <2>0, <3>1 DEF Seen
  <2> QED BY <2>1, <2>2
<1> QED BY <1>1, <1>2, <1>3, <1>4, <1>5, <1>6 DEF ToolStep

LEMMA ToolBuffers ==
    ASSUME TypeOK, Fits, Seen, Buffered, ToolStep \/ \E c \in Commands : Start(c)
    PROVE  Buffered'
<1>1. CASE OpenBoard
  <2>1. CASE tpc' = "read"
    <3>1. /\ cmd \in Commands /\ cmd.tool # "bnt_reset" /\ cmd.do # "write"
          /\ tpc = "open" /\ rxbuf' = Blank /\ UNCHANGED <<shown, missed>>
      BY <1>1, <2>1 DEF OpenBoard, Fits
    <3>2. DOMAIN shown = {} /\ missed = {}
      BY <3>1, CommandShape DEF Seen
    <3> QED BY <3>1, <3>2 DEF Buffered, Received
  <2> QED BY <2>1 DEF Buffered
<1>2. CASE Read
  <2> DEFINE row == First(rows)
  <2>0. /\ tpc = "read" /\ rows # {} /\ rows' = rows \ {row}
        /\ shown' = Shown(row, rxbuf')
    BY <1>2 DEF Read
  <2> PICK ok \in BOOLEAN :
        /\ rxbuf' = IF ok THEN Register(row[1], row[2]) ELSE rxbuf
        /\ missed' = IF ok THEN missed ELSE missed \cup {row}
    BY <1>2 DEF Read
  <2>1. row \in rows
    BY <2>0, FirstIsRow DEF TypeOK
  <2> HIDE DEF row
  <2>2. /\ missed \subseteq DOMAIN shown /\ rows \cap DOMAIN shown = {}
        /\ rxbuf \in Received /\ \A r \in missed : shown[r] \in Received
    BY <2>0 DEF Buffered
  <2>3. /\ DOMAIN shown' = {row} \cup DOMAIN shown /\ shown'[row] = rxbuf'
        /\ \A r \in DOMAIN shown : shown'[r] = shown[r]
    BY <2>0, <2>1, <2>2 DEF Shown
  <2>4. missed' \subseteq DOMAIN shown' /\ rows' \cap DOMAIN shown' = {}
    BY <2>0, <2>2, <2>3
  <2>5. Received \subseteq Received'
    <3>1. \A r \in DOMAIN shown \ missed :
            r \in DOMAIN shown' \ missed' /\ shown'[r] = shown[r]
      BY <2>1, <2>2, <2>3
    <3> QED BY <3>1 DEF Received
  <2>6. rxbuf' \in Received'
    <3>1. CASE ok
      <4>1. row \in DOMAIN shown' \ missed' /\ shown'[row] = rxbuf'
        BY <2>1, <2>2, <2>3, <3>1
      <4> QED BY <4>1 DEF Received
    <3>2. CASE ~ok
      BY <2>2, <2>5, <3>2
    <3> QED BY <3>1, <3>2
  <2>7. \A r \in missed' : shown'[r] \in Received'
    BY <2>2, <2>3, <2>5, <2>6
  <2> QED BY <2>4, <2>6, <2>7 DEF Buffered
<1>3. CASE ~OpenBoard /\ ~Read
  <2>1. tpc' # "read"
    BY <1>3 DEF ToolStep, NoBoard, AfterNoBoard, NextBoard, ResetSet, ResetRelease,
       Write, Show, Start
  <2> QED BY <2>1 DEF Buffered
<1> QED BY <1>1, <1>2, <1>3

LEMMA GapIs ==
    ASSUME NEW g \in 0 .. 4, g \notin Nodes, \A b \in 0 .. g - 1 : b \in Nodes
    PROVE  Gap = g
<1> DEFINE IsGap(x) == x \notin Nodes /\ \A b \in 0 .. x - 1 : b \in Nodes
<1>1. \A x \in 0 .. 4 : IsGap(x) => x = g
  <2> SUFFICES ASSUME NEW x \in 0 .. 4, IsGap(x), x # g PROVE FALSE
    OBVIOUS
  <2>1. CASE x < g
    <3>1. x \in 0 .. g - 1
      BY <2>1
    <3> QED BY <3>1
  <2>2. CASE g < x
    <3>1. g \in 0 .. x - 1
      BY <2>2
    <3> QED BY <3>1
  <2> QED BY <2>1, <2>2
<1>2. g \in 0 .. 4 /\ IsGap(g)
  OBVIOUS
<1>3. Gap = CHOOSE x \in 0 .. 4 : IsGap(x)
  BY DEF Gap, MAX_NBOARDS
<1> HIDE DEF IsGap
<1> QED BY <1>1, <1>2, <1>3, Zenon

LEMMA ToolSweeps ==
    ASSUME TypeOK, Fits, Swept, UpToGap, ToolStep \/ \E c \in Commands : Start(c)
    PROVE  Swept' /\ UpToGap'
<1> SUFFICES ASSUME cmd'.tool = "bnt_reset", AllBoards', lost' = 0
             PROVE  Swept' /\ UpToGap'
  BY DEF Swept, UpToGap
<1>a. tboard \in 0 .. 3 /\ lost \in 0 .. MaxLost
  BY DEF TypeOK, Boards, MAX_NBOARDS
<1>b. 4 \notin Nodes
  BY NodesAssumption DEF Boards, MAX_NBOARDS
<1>1. CASE \E c \in Commands : Start(c)
  <2> PICK c \in Commands : Start(c)
    BY <1>1
  <2>1. /\ cmd' = c /\ tpc' = (IF Accepted(c) THEN "open" ELSE "idle")
        /\ tboard' = FirstBoard(c) /\ wiped' = {}
    BY DEF Start
  <2>2. c.b = None
    BY <2>1 DEF AllBoards
  <2>3. tboard' = 0
    BY <2>1, <2>2 DEF FirstBoard
  <2>4. {} = {k \in Fitted : k[1] < 0}
    BY Where
  <2>5. tpc' = "idle" => ~c.sure
    BY <2>1 DEF Accepted
  <2> QED BY <2>1, <2>3, <2>4, <2>5 DEF Swept, UpToGap
<1>2. CASE ~ \E c \in Commands : Start(c)
  <2>0. cmd' = cmd /\ cmd.tool = "bnt_reset" /\ AllBoards
    <3>1. cmd' = cmd
      BY <1>2 DEF ToolStep, OpenBoard, NoBoard, ResetSet, ResetRelease, Write, Read, Show
    <3> QED BY <3>1 DEF AllBoards
  <2>c. cmd.c = None
    BY <2>0 DEF AllBoards
  <2>1. CASE OpenBoard
    <3>1. /\ tpc = "open" /\ tpc' = "set" /\ tboard \in Nodes
          /\ UNCHANGED <<tboard, wiped, lost>>
      BY <2>0, <2>1 DEF OpenBoard
    <3> QED BY <2>0, <3>1 DEF Swept, UpToGap
  <2>2. CASE NoBoard
    <3>1. /\ tpc = "open" /\ tpc' = "idle" /\ tboard \notin Nodes
          /\ UNCHANGED <<wiped, lost>>
      BY <2>0, <2>2 DEF NoBoard, AfterNoBoard
    <3>2. wiped = {k \in Fitted : k[1] < tboard} /\ \A b \in 0 .. tboard - 1 : b \in Nodes
      BY <2>0, <3>1 DEF Swept
    <3>3. Gap = tboard
      BY <1>a, <3>1, <3>2, GapIs
    <3> QED BY <3>1, <3>2, <3>3 DEF Swept, UpToGap
  <2>3. CASE ResetSet
    <3> PICK ok \in BOOLEAN :
          /\ Lose(ok)
          /\ wiped' = wiped \cup Reached(cmd.c, cmd.c = None, ok)
      BY <2>3 DEF ResetSet
    <3>1. ok /\ lost = 0
      BY <1>a, LoseType
    <3>2. tpc = "set" /\ tpc' = "release" /\ tboard' = tboard
      BY <2>3 DEF ResetSet
    <3>3. /\ wiped = {k \in Fitted : k[1] < tboard} /\ tboard \in Nodes
          /\ \A b \in 0 .. tboard - 1 : b \in Nodes
      BY <2>0, <3>1, <3>2 DEF Swept
    <3>4. Reached(cmd.c, cmd.c = None, ok) = {k \in Fitted : k[1] = tboard}
      BY <2>c, <3>1 DEF Reached
    <3>5. wiped' = {k \in Fitted : k[1] < tboard + 1}
      BY <1>a, <3>3, <3>4, Where
    <3> QED BY <3>2, <3>3, <3>5 DEF Swept, UpToGap
  <2>4. CASE ResetRelease
    <3> PICK ok \in BOOLEAN : Lose(ok)
      BY <2>4 DEF ResetRelease
    <3>1. lost = 0
      BY <1>a, LoseType
    <3>2. tpc = "release" /\ NextBoard /\ wiped' = wiped
      BY <2>4 DEF ResetRelease
    <3>3. /\ wiped = {k \in Fitted : k[1] < tboard + 1} /\ tboard \in Nodes
          /\ \A b \in 0 .. tboard - 1 : b \in Nodes
      BY <2>0, <3>1, <3>2 DEF Swept
    <3>4. \A b \in 0 .. tboard + 1 - 1 : b \in Nodes
      BY <1>a, <3>3
    <3>5. LastBoard = 3
      BY <2>0 DEF LastBoard, MAX_NBOARDS
    <3>6. CASE tboard < 3
      <4>1. tpc' = "open" /\ tboard' = tboard + 1
        BY <3>2, <3>5, <3>6 DEF NextBoard
      <4>2. wiped' = {k \in Fitted : k[1] < tboard'}
        BY <1>a, <3>2, <3>3, <4>1
      <4>3. \A b \in 0 .. tboard' - 1 : b \in Nodes
        BY <1>a, <3>4, <4>1
      <4> QED BY <4>1, <4>2, <4>3 DEF Swept, UpToGap
    <3>7. CASE tboard = 3
      <4>1. tpc' = "idle" /\ Gap = 4
        BY <1>b, <3>2, <3>4, <3>5, <3>7, GapIs DEF NextBoard
      <4> QED BY <3>2, <3>3, <3>7, <4>1 DEF Swept, UpToGap
    <3> QED BY <1>a, <3>6, <3>7
  <2>5. CASE Write \/ Read \/ Show
    <3>1. cmd.tool = "bnt_access"
      BY <2>5 DEF Write, Read, Show, Fits
    <3> QED BY <2>0, <3>1
  <2> QED BY <1>2, <2>1, <2>2, <2>3, <2>4, <2>5 DEF ToolStep
<1> QED BY <1>1, <1>2

-----------------------------------------------------------------------------
LEMMA InitInvariant == Init => IInv
<1> SUFFICES ASSUME Init PROVE IInv
  OBVIOUS
<1>1. TypeOK
  <2>1. ssr \in [Fitted -> Miner!Ssr]
    BY ChipsAssumption DEF Init, Miner!Init
  <2>2. ier \in [Fitted -> SUBSET Miner!IntKinds]
    BY DEF Init, Miner!Init, Miner!IntAll
  <2>3. open \subseteq Nodes /\ fast \in BOOLEAN
    BY NodesAssumption DEF Init
  <2>4. /\ pc = "reset" /\ board = 0 /\ chip = 0 /\ retry = 0
        /\ buf \in Miner!Ssr /\ faults = 0
    BY Values DEF Init, Miner!Init
  <2>5. DOMAIN shown = {}
    BY DEF Init
  <2> QED BY <2>1, <2>2, <2>3, <2>4, <2>5, BoundsAssumption
          DEF Init, TypeOK, Words, Boards, MAX_NBOARDS, MAX_NCHIPS_PER_BOARD,
              Miner!MaxRetry
<1>2. 0 % Step = 0
  BY StepFacts
<1>3. pc = "reset" /\ chip = 0
  BY DEF Init, Miner!Init
<1>4. Control /\ Checked /\ Repaired /\ Written /\ Listening
  BY <1>2, <1>3 DEF Init, Control, Checked, Behind, Polling, Repaired, Written,
     Rewritten, Listening
<1>5. tpc = "idle" /\ cmd.tool = "none"
  BY DEF Init, Idle
<1>6. Fits /\ Seen /\ Buffered /\ Swept /\ UpToGap
  BY <1>5 DEF Fits, Seen, Buffered, Swept, UpToGap
<1> QED BY <1>1, <1>4, <1>6 DEF IInv

LEMMA NextInvariant == IInv /\ [Next]_vars => IInv'
<1> SUFFICES ASSUME IInv, [Next]_vars PROVE IInv'
  OBVIOUS
<1>a. TypeOK /\ Control /\ Checked /\ Repaired /\ Written /\ Listening /\ Fits /\ Seen
      /\ Buffered /\ Swept /\ UpToGap
  BY DEF IInv
<1>1. CASE MinerStep
  <2>1. MinerType' /\ Control' /\ Checked' /\ Repaired' /\ Written' /\ Listening'
        /\ Fits' /\ Seen' /\ Buffered' /\ Swept' /\ UpToGap'
        /\ spoiled' \subseteq spoiled
    BY <1>a, <1>1, MinerTypes, MinerChecks, MinerWrites, MinerListens, MinerShows
  <2>2. UNCHANGED toolVars /\ open' = open /\ fast' = fast
    <3>1. UNCHANGED toolVars /\ open' = open
      BY <1>1, MinerKeeps
    <3>2. fast' = fast
      BY <1>1 DEF MinerStep, Initialise, Miner!ResetSet, Miner!ResetRelease,
         Miner!WriteSsr, Miner!WritePsr, Miner!VerifyNextBoard, Miner!RetryWrite,
         Miner!RetryRead, Miner!SkipBoard, Miner!EndLoop, Miner!env, Verify,
         Miner!VerifyRead, IrqRead, IrqWrite, NextJob
    <3> QED BY <3>1, <3>2
  <2>3. TypeOK'
    BY <1>a, <2>1, <2>2 DEF TypeOK, MinerType, toolVars
  <2> QED BY <2>1, <2>3 DEF IInv
<1>2. CASE ToolStep \/ \E c \in Commands : Start(c)
  <2>1. UNCHANGED minerVars
    BY <1>2, ToolKeeps
  <2>2. ToolType' /\ BusType' /\ Fits' /\ Checked' /\ Repaired' /\ Written' /\ Listening'
        /\ Seen' /\ Buffered' /\ Swept' /\ UpToGap' /\ spoiled' \subseteq Fitted
    BY <1>a, <1>2, ToolTypes, ToolChecks, ToolWrites, ToolListens, ToolShows,
       ToolBuffers, ToolSweeps
  <2>3. TypeOK'
    BY <1>a, <2>1, <2>2 DEF TypeOK, ToolType, BusType, minerVars
  <2>4. Control'
    BY <1>a, <2>1 DEF Control, minerVars
  <2> QED BY <2>2, <2>3, <2>4 DEF IInv
<1>3. CASE UNCHANGED vars
  <2>1. /\ TypeOK' /\ Control' /\ Checked' /\ Repaired' /\ Written' /\ Listening'
    BY <1>a, <1>3 DEF vars, initVars, toolVars, TypeOK, Control, Checked, Behind,
       Repaired, Written, Rewritten, Listening
  <2>2. Fits' /\ Seen' /\ Buffered' /\ Swept' /\ UpToGap'
    BY <1>a, <1>3 DEF vars, initVars, toolVars, Fits, Seen, Buffered, Received, Swept, UpToGap,
       AllBoards, FirstBoard, Register
  <2> QED BY <2>1, <2>2 DEF IInv
<1> QED BY <1>1, <1>2, <1>3 DEF Next

LEMMA Invariant == Spec => []IInv
  BY InitInvariant, NextInvariant, PTL DEF Spec

-----------------------------------------------------------------------------
\* Every variable of the miner and the tools beside it keeps its type.
THEOREM TypeCorrect == Spec => []TypeOK
<1>1. IInv => TypeOK
  BY DEF IInv
<1> QED BY <1>1, Invariant, PTL

\* A chip bnt_init leaves with another mask had its SSR written by a tool after
\* bnt_init had read it: what tools did before is repaired.
THEOREM EarlierDamageRepaired == Spec => []RepairsEarlierDamage
<1>1. IInv => RepairsEarlierDamage
  <2> SUFFICES ASSUME IInv, pc = "done", NEW k \in Fitted, k[1] \in open,
                      k[2] % IdStep(NChips) = 0,
                      Miner!And_FF04(ssr[k]) # Miner!HandleSsr
               PROVE  k \in late
    BY DEF RepairsEarlierDamage
  <2>1. k \in verified
    BY DEF IInv, Checked, Behind, Step
  <2> QED BY <2>1 DEF IInv, Repaired
<1> QED BY <1>1, Invariant, PTL

\* After bnt_init every chip of an open board, polled or not, holds exactly
\* handle->ssr, unless a tool wrote its SSR after bnt_init's last write to the
\* board: neither a mask nor a reset flag from before that is left.
THEOREM NoOldDamageLeft == Spec => []OldDamageIsGone
<1>1. IInv => OldDamageIsGone
  BY DEF IInv, Written, Rewritten, OldDamageIsGone
<1> QED BY <1>1, Invariant, PTL

\* bnt_set_interrupt reads IER of chip 0 and writes it to all chips: whatever
\* tools do between, the miner's interrupts are on, unless turned off later.
THEOREM InterruptsKept == Spec => []NoInterruptLost
<1>1. IInv => NoInterruptLost
  BY DEF IInv, Listening, NoInterruptLost
<1> QED BY <1>1, Invariant, PTL

\* What bnt_access prints of a register is what the register holds, unless its
\* transfer was lost or the chip changed while the board was read; of a register
\* it did not receive it prints zeros or another one it received for the table.
THEOREM ShowsWhatIsThere == Spec => []ShowsCurrent
<1>1. IInv => ShowsCurrent
  BY DEF IInv, Seen, Buffered, Received, ShowsCurrent
<1> QED BY <1>1, Invariant, PTL

\* bnt_reset keeps its "all boards & all chips", if it loses no write, whenever no
\* device node is missing below one that is there: AllBoardsReset has no other
\* counterexample than the loop that breaks off at such a gap.
THEOREM ResetsAllWithoutGap ==
    Spec => []((\A b \in Nodes : 0 .. b - 1 \subseteq Nodes) => AllBoardsReset)
<1>1. IInv => ((\A b \in Nodes : 0 .. b - 1 \subseteq Nodes) => AllBoardsReset)
  <2> SUFFICES ASSUME IInv, \A b \in Nodes : 0 .. b - 1 \subseteq Nodes
               PROVE  AllBoardsReset
    OBVIOUS
  <2>1. Nodes \subseteq 0 .. 3
    BY NodesAssumption DEF Boards, MAX_NBOARDS
  <2>2. PICK g \in 0 .. 4 : g \notin Nodes /\ \A b \in 0 .. g - 1 : b \in Nodes
    <3>1. CASE 0 \notin Nodes
      BY <3>1
    <3>2. CASE 0 \in Nodes /\ 1 \notin Nodes
      BY <3>2
    <3>3. CASE 0 \in Nodes /\ 1 \in Nodes /\ 2 \notin Nodes
      BY <3>3
    <3>4. CASE 0 \in Nodes /\ 1 \in Nodes /\ 2 \in Nodes /\ 3 \notin Nodes
      BY <3>4
    <3>5. CASE 0 \in Nodes /\ 1 \in Nodes /\ 2 \in Nodes /\ 3 \in Nodes
      BY <2>1, <3>5
    <3> QED BY <3>1, <3>2, <3>3, <3>4, <3>5
  <2>3. Gap = g
    BY <2>2, GapIs
  <2>4. \A b \in 0 .. 3 : b < g <=> b \in Nodes
    <3> SUFFICES ASSUME NEW b \in 0 .. 3 PROVE b < g <=> b \in Nodes
      OBVIOUS
    <3>1. CASE b < g
      BY <2>2, <3>1
    <3>2. CASE b = g
      BY <2>2, <3>2
    <3>3. CASE b > g
      <4>1. g \in 0 .. b - 1
        BY <3>3
      <4> QED BY <2>2, <3>3, <4>1
    <3> QED BY <3>1, <3>2, <3>3
  <2>5. {k \in Fitted : k[1] < Gap} = {k \in Fitted : k[1] \in Nodes}
    BY <2>3, <2>4, Where
  <2> QED BY <2>5 DEF IInv, UpToGap, AllBoardsReset
<1> QED BY <1>1, Invariant, PTL

-----------------------------------------------------------------------------
(* How long the miner and the tools keep each other busy.                   *)

Ids(c) == Miner!PolledIds(c)

\* What the verification of n boards has left to do, at chip c of the first.
Unread(n, c) == n * Miner!PerBoard - 13 * (Ids(0) - Ids(c)) + 6

LEMMA IdsLeft ==
    ASSUME NEW c \in 0 .. 64, c % Step = 0
    PROVE  /\ Ids(0) \in 1 .. 64 /\ Ids(64) = 0 /\ Ids(c) \in 0 .. Ids(0)
           /\ c < 64 => Ids(c) >= 1 /\ Ids(c + Step) = Ids(c) - 1
<1>0. \A i \in 0 .. 96 : Ids(i) = (64 - i) \div Step
  BY SameBus DEF Ids, Miner!PolledIds
<1>s. c + Step \in 0 .. 96 /\ Step \in 1 .. 32
  BY StepFacts
<1>1. CASE Step = 1   BY <1>0, <1>s, <1>1
<1>2. CASE Step = 2   BY <1>0, <1>s, <1>2
<1>3. CASE Step = 4   BY <1>0, <1>s, <1>3
<1>4. CASE Step = 8   BY <1>0, <1>s, <1>4
<1>5. CASE Step = 16  BY <1>0, <1>s, <1>5
<1>6. CASE Step = 32  BY <1>0, <1>s, <1>6
<1> QED BY <1>1, <1>2, <1>3, <1>4, <1>5, <1>6, StepFacts

LEMMA BoardSize ==
    /\ Ids(0) \in 1 .. 64 /\ Miner!PerId = 13
    /\ Miner!PerBoard = 13 * Ids(0) + 1 /\ Miner!PerBoard \in Nat
<1>1. 0 % Step = 0
  BY StepFacts
<1>2. Ids(0) \in 1 .. 64
  BY <1>1, IdsLeft
<1> QED BY <1>2 DEF Miner!PerBoard, Miner!PerId, Miner!MaxRetry, Ids

\* At a polled id, at the next one, after the last, at the start of a board.
LEMMA UnreadFacts ==
    ASSUME NEW n \in 1 .. 4, NEW c \in 0 .. 64, c % Step = 0
    PROVE  /\ Unread(n, c) \in 7 .. 4 * Miner!PerBoard + 6
           /\ c < 64 => Unread(n, c) >= 20 /\ Unread(n, c + Step) = Unread(n, c) - 13
           /\ Unread(n, 64) = Unread(n - 1, 0) + 1
           /\ Unread(n, 0) > Unread(n - 1, 0)
<1> DEFINE P == Ids(0)  q == Ids(c)  B == Miner!PerBoard
<1>1. /\ P \in 1 .. 64 /\ q \in 0 .. P /\ Ids(64) = 0
      /\ c < 64 => q >= 1 /\ Ids(c + Step) = q - 1
  BY IdsLeft
<1>2. B = 13 * P + 1 /\ B \in Nat
  BY BoardSize
<1>3. /\ Unread(n, c) = n * B - 13 * (P - q) + 6
      /\ c < 64 => Unread(n, c + Step) = n * B - 13 * (P - (q - 1)) + 6
      /\ Unread(n, 64) = n * B - 13 * (P - 0) + 6
      /\ Unread(n, 0) = n * B - 13 * (P - P) + 6
      /\ Unread(n - 1, 0) = (n - 1) * B - 13 * (P - P) + 6
  BY <1>1 DEF Unread
<1> HIDE DEF P, q, B
<1>4. n = 1 \/ n = 2 \/ n = 3 \/ n = 4
  OBVIOUS
<1>5. PICK N \in Int : N = n * B /\ N >= B /\ N <= 4 * B /\ (n - 1) * B = N - B
  BY <1>2, <1>4
<1>6. Unread(n, c) \in 7 .. 4 * B + 6
  BY <1>1, <1>2, <1>3, <1>5
<1>7. c < 64 => Unread(n, c) >= 20 /\ Unread(n, c + Step) = Unread(n, c) - 13
  BY <1>1, <1>2, <1>3, <1>5
<1>8. Unread(n, 64) = Unread(n - 1, 0) + 1 /\ Unread(n, 0) > Unread(n - 1, 0)
  BY <1>1, <1>2, <1>3, <1>5
<1> QED BY <1>6, <1>7, <1>8 DEF B

LEMMA UnreadType ==
    ASSUME NEW b \in 0 .. 4, NEW c \in 0 .. 64
    PROVE  Unread(4 - b, c) \in Int
<1>1. Ids(c) \in Int /\ Ids(0) \in Int
  BY SameBus, StepFacts DEF Ids, Miner!PolledIds
<1>2. (4 - b) * Miner!PerBoard \in Int
  BY BoardSize
<1> QED BY <1>1, <1>2 DEF Unread

LEMMA UnreadEnds == Unread(0, 0) = 6 /\ Unread(4, 0) = 4 * Miner!PerBoard + 6
<1>1. \A n \in 0 .. 4 : Unread(n, 0) = n * Miner!PerBoard + 6
  BY BoardSize DEF Unread
<1> QED BY <1>1, BoardSize

\* In each control state, the steps that are left.
LEMMA MinerLeftAt ==
    ASSUME TypeOK
    PROVE  /\ pc = "reset"   => MinerLeft = 2 * (4 - board) + 4 * Miner!PerBoard + 21
           /\ pc = "release" => MinerLeft = 2 * (4 - board) + 4 * Miner!PerBoard + 20
           /\ pc = "ssr"     => MinerLeft = (4 - board) + 4 * Miner!PerBoard + 16
           /\ pc = "psr"     => MinerLeft = (4 - board) + 4 * Miner!PerBoard + 11
           /\ pc = "verify"  => MinerLeft = Unread(4 - board, chip) + 4
           /\ pc = "retry"   => MinerLeft = Unread(4 - board, chip) + 3 - 2 * retry
           /\ pc = "reread"  => MinerLeft = Unread(4 - board, chip) + 2 - 2 * retry
           /\ pc = "irq"     => MinerLeft = 2 * (4 - board) + 1
           /\ pc = "enable"  => MinerLeft = 2 * (4 - board)
           /\ pc = "done"    => MinerLeft = 0
<1>1. /\ board \in 0 .. 4 /\ chip \in 0 .. 64 /\ retry \in 0 .. 5
  BY DEF TypeOK, MAX_NBOARDS, MAX_NCHIPS_PER_BOARD, Miner!MaxRetry
<1>2. Miner!PerBoard \in Nat /\ Miner!PerId = 13
  BY BoardSize
<1>3. Unread(4 - board, chip) \in Int
  BY <1>1, UnreadType
<1>4. Unread(4 - board, chip)
        = (4 - board) * Miner!PerBoard
            - Miner!PerId * (Miner!PolledIds(0) - Miner!PolledIds(chip)) + 6
  BY <1>2 DEF Unread, Ids
<1> QED BY <1>1, <1>2, <1>3, <1>4, SameBus DEF MinerLeft, Miner!StepsLeft, MAX_NBOARDS

MinerAt == {"reset", "release", "ssr", "psr", "verify", "retry", "reread", "irq",
            "enable", "done"}

\* Where the miner stands, in plain numbers.
LEMMA MinerStands ==
    ASSUME TypeOK, Control
    PROVE  /\ board \in 0 .. 4 /\ chip \in 0 .. 64 /\ retry \in 0 .. 5 /\ pc \in MinerAt
           /\ open \subseteq 0 .. 3 /\ chip % Step = 0
           /\ pc \in {"release", "retry", "reread", "enable"} => board \in open
           /\ pc \in {"retry", "reread"} => chip < 64
           /\ pc = "verify" /\ board \notin open => chip = 0
           /\ pc \in {"reset", "release", "ssr", "psr"} => chip = 0
<1>1. open \subseteq 0 .. 3
  BY NodesAssumption DEF TypeOK, Boards, MAX_NBOARDS
<1> QED BY <1>1 DEF TypeOK, Control, MAX_NBOARDS, MAX_NCHIPS_PER_BOARD,
                    Miner!MaxRetry, MinerAt

LEMMA MinerLeftBound == IInv => MinerLeft \in 0 .. MinerSteps
<1> SUFFICES ASSUME IInv PROVE MinerLeft \in 0 .. MinerSteps
  OBVIOUS
<1>0. TypeOK /\ Control
  BY DEF IInv
<1>1. MinerSteps = 4 * Miner!PerBoard + 29 /\ Miner!PerBoard \in Nat
  BY BoardSize DEF MinerSteps, Miner!MaxSteps, MAX_NBOARDS
<1>2. CASE pc \notin Polling
  BY <1>0, <1>1, <1>2, MinerStands, MinerLeftAt DEF Polling, MinerAt
<1>3. CASE pc \in Polling /\ board = 4
  <2>1. pc = "verify" /\ chip = 0
    BY <1>0, <1>3, MinerStands DEF Polling
  <2> QED BY <1>0, <1>1, <1>3, <2>1, MinerLeftAt, UnreadEnds
<1>4. CASE pc \in Polling /\ board # 4
  <2>1. 4 - board \in 1 .. 4
    BY <1>0, <1>4, MinerStands
  <2>2. /\ Unread(4 - board, chip) \in 7 .. 4 * Miner!PerBoard + 6
        /\ chip < 64 => Unread(4 - board, chip) >= 20
    BY <1>0, <2>1, MinerStands, UnreadFacts
  <2> QED BY <1>0, <1>1, <1>4, <2>2, MinerStands, MinerLeftAt DEF Polling
<1> QED BY <1>2, <1>3, <1>4

\* Whatever a tool has done to the chips, the next step of bnt_init leaves fewer:
\* the retry loop counts its tries, and the other loops only their passes.
LEMMA MinerShortens ==
    ASSUME IInv, IInv', MinerStep, pc # "done"
    PROVE  MinerLeft' < MinerLeft
<1>0. TypeOK /\ Control /\ TypeOK' /\ Control'
  BY DEF IInv
<1>1. /\ board \in 0 .. 4 /\ chip \in 0 .. 64 /\ retry \in 0 .. 5 /\ pc \in MinerAt
      /\ open \subseteq 0 .. 3 /\ chip % Step = 0
      /\ pc \in {"release", "retry", "reread", "enable"} => board \in open
      /\ pc \in {"retry", "reread"} => chip < 64
      /\ pc = "verify" /\ board \notin open => chip = 0
      /\ pc \in {"reset", "release", "ssr", "psr"} => chip = 0
  BY <1>0, MinerStands
<1>2. Miner!PerBoard \in Nat /\ board' \in 0 .. 4
  BY <1>0, BoardSize DEF TypeOK, MAX_NBOARDS
<1>3. /\ pc' = "reset"   => MinerLeft' = 2 * (4 - board') + 4 * Miner!PerBoard + 21
      /\ pc' = "release" => MinerLeft' = 2 * (4 - board') + 4 * Miner!PerBoard + 20
      /\ pc' = "ssr"     => MinerLeft' = (4 - board') + 4 * Miner!PerBoard + 16
      /\ pc' = "psr"     => MinerLeft' = (4 - board') + 4 * Miner!PerBoard + 11
      /\ pc' = "verify"  => MinerLeft' = Unread(4 - board', chip') + 4
      /\ pc' = "retry"   => MinerLeft' = Unread(4 - board', chip') + 3 - 2 * retry'
      /\ pc' = "reread"  => MinerLeft' = Unread(4 - board', chip') + 2 - 2 * retry'
      /\ pc' = "irq"     => MinerLeft' = 2 * (4 - board') + 1
      /\ pc' = "enable"  => MinerLeft' = 2 * (4 - board')
      /\ pc' = "done"    => MinerLeft' = 0
  <2>1. chip' \in 0 .. 64 /\ retry' \in 0 .. 5
    BY <1>0 DEF TypeOK, MAX_NCHIPS_PER_BOARD, Miner!MaxRetry
  <2>2. Unread(4 - board', chip') \in Int
    BY <1>2, <2>1, UnreadType
  <2>3. Unread(4 - board', chip')
          = (4 - board') * Miner!PerBoard
              - Miner!PerId * (Miner!PolledIds(0) - Miner!PolledIds(chip')) + 6
    BY BoardSize DEF Unread, Ids
  <2> QED BY <1>2, <2>1, <2>2, <2>3, BoardSize, SameBus
          DEF MinerLeft, Miner!StepsLeft, MAX_NBOARDS, Miner!PerBoard, Miner!PolledIds,
              Miner!PerId
<1>4. board < 4 /\ pc \in Polling =>
        /\ Unread(4 - board, chip) \in 7 .. 4 * Miner!PerBoard + 6
        /\ chip < 64 => /\ Unread(4 - board, chip) >= 20
                        /\ Unread(4 - board, chip + Step) = Unread(4 - board, chip) - 13
        /\ Unread(4 - board, 64) = Unread(3 - board, 0) + 1
        /\ Unread(4 - board, 0) > Unread(3 - board, 0)
  <2> SUFFICES ASSUME board < 4 PROVE
        /\ Unread(4 - board, chip) \in 7 .. 4 * Miner!PerBoard + 6
        /\ chip < 64 => /\ Unread(4 - board, chip) >= 20
                        /\ Unread(4 - board, chip + Step) = Unread(4 - board, chip) - 13
        /\ Unread(4 - board, 64) = Unread(3 - board, 0) + 1
        /\ Unread(4 - board, 0) > Unread(3 - board, 0)
    OBVIOUS
  <2>1. 4 - board \in 1 .. 4 /\ (4 - board) - 1 = 3 - board
    BY <1>1
  <2> QED BY <1>1, <2>1, UnreadFacts
<1> USE SameBus DEF Miner!AtBoard
<1>5. CASE Miner!ResetSet
  BY <1>0, <1>1, <1>2, <1>3, <1>5, MinerLeftAt DEF Miner!ResetSet
<1>6. CASE Miner!ResetRelease
  BY <1>0, <1>1, <1>2, <1>3, <1>6, MinerLeftAt DEF Miner!ResetRelease
<1>7. CASE Miner!WriteSsr
  BY <1>0, <1>1, <1>2, <1>3, <1>7, MinerLeftAt DEF Miner!WriteSsr
<1>8. CASE Miner!WritePsr
  BY <1>0, <1>1, <1>2, <1>3, <1>8, MinerLeftAt DEF Miner!WritePsr
<1>9. CASE Miner!VerifyRead
  <2>1. /\ pc = "verify" /\ board \in open /\ chip < 64 /\ board' = board
        /\ \/ pc' = "verify" /\ chip' = chip + Step
           \/ pc' = "retry" /\ chip' = chip /\ retry' = retry
    BY <1>9 DEF Miner!VerifyRead, Miner!NextChip
  <2> QED BY <1>0, <1>1, <1>3, <1>4, <2>1, MinerLeftAt DEF Polling
<1>10. CASE Miner!VerifyNextBoard
  <2>1. /\ pc = "verify" /\ board \in open /\ chip = 64 /\ board' = board + 1
        /\ chip' = 0 /\ pc' = pc
    BY <1>1, <1>10 DEF Miner!VerifyNextBoard
  <2>2. 4 - board' = 3 - board /\ board < 4
    BY <1>1, <2>1
  <2>3. Unread(3 - board, 0) \in Int
    BY <1>1, <1>2, BoardSize DEF Unread
  <2>4. MinerLeft = Unread(3 - board, 0) + 1 + 4
    BY <1>0, <1>4, <2>1, <2>2, MinerLeftAt DEF Polling
  <2>5. MinerLeft' = Unread(3 - board, 0) + 4
    BY <1>3, <2>1, <2>2
  <2> QED BY <2>3, <2>4, <2>5
<1>11. CASE Miner!RetryWrite
  <2>1. /\ pc = "retry" /\ pc' = "reread" /\ board' = board /\ chip' = chip
        /\ retry' = retry
    BY <1>11 DEF Miner!RetryWrite
  <2> QED BY <1>0, <1>1, <1>3, <1>4, <2>1, MinerLeftAt DEF Polling
<1>12. CASE Miner!RetryRead
  <2>1. /\ pc = "reread" /\ board' = board
        /\ \/ retry' = retry + 1 /\ pc' = "retry" /\ chip' = chip
           \/ pc' = "verify" /\ chip' = chip + Step
    BY <1>12 DEF Miner!RetryRead, Miner!NextChip
  <2> QED BY <1>0, <1>1, <1>3, <1>4, <2>1, MinerLeftAt DEF Polling
<1>13. CASE Miner!SkipBoard
  <2>1. /\ pc \in {"reset", "ssr", "psr", "verify", "irq"} /\ board < 4
        /\ board \notin open /\ board' = board + 1 /\ pc' = pc /\ chip' = chip
    BY <1>13 DEF Miner!SkipBoard
  <2>2. CASE pc # "verify"
    BY <1>0, <1>1, <1>2, <1>3, <2>1, <2>2, MinerLeftAt
  <2>3. CASE pc = "verify"
    <3>1. chip = 0 /\ 4 - board' = 3 - board
      BY <1>1, <2>1, <2>3
    <3>2. Unread(4 - board, 0) > Unread(3 - board, 0)
          /\ Unread(4 - board, 0) \in Int /\ Unread(3 - board, 0) \in Int
      BY <1>1, <1>2, <1>4, <2>1, <2>3, <3>1, BoardSize DEF Polling, Unread
    <3> QED BY <1>0, <1>3, <2>1, <2>3, <3>1, <3>2, MinerLeftAt
  <2> QED BY <2>2, <2>3
<1>14. CASE Miner!EndLoop
  <2>1. /\ pc \in {"reset", "ssr", "psr", "verify", "irq"} /\ board = 4
        /\ board' = 0 /\ pc' = Miner!After(pc) /\ chip' = chip
        /\ pc # "irq" => chip = 0
    BY <1>1, <1>14 DEF Miner!EndLoop
  <2>2. fast \in BOOLEAN
    BY <1>0 DEF TypeOK
  <2>3. CASE pc = "ssr"
    <3>1. pc' \in {"psr", "verify"}
      BY <2>1, <2>2, <2>3 DEF Miner!After
    <3> QED BY <1>0, <1>2, <1>3, <2>1, <2>3, <3>1, MinerLeftAt, UnreadEnds
  <2>4. CASE pc # "ssr"
    <3>1. /\ pc = "reset" => pc' = "ssr"
          /\ pc = "psr" => pc' = "verify"
          /\ pc = "verify" => pc' = "irq"
          /\ pc = "irq" => pc' = "done"
      BY <2>1 DEF Miner!After
    <3> QED BY <1>0, <1>2, <1>3, <2>1, <2>4, <3>1, MinerLeftAt, UnreadEnds
  <2> QED BY <2>3, <2>4
<1>15. CASE Initialise
  BY <1>5, <1>6, <1>7, <1>8, <1>10, <1>11, <1>12, <1>13, <1>14, <1>15 DEF Initialise
<1>16. CASE Verify
  BY <1>9, <1>16 DEF Verify
<1>17. CASE IrqRead
  BY <1>0, <1>1, <1>2, <1>3, <1>17, MinerLeftAt DEF IrqRead
<1>18. CASE IrqWrite
  BY <1>0, <1>1, <1>2, <1>3, <1>18, MinerLeftAt DEF IrqWrite
<1>19. CASE NextJob
  BY <1>19 DEF NextJob
<1> QED BY <1>15, <1>16, <1>17, <1>18, <1>19 DEF MinerStep

\* What the miner has left to do is its own affair.
LEMMA MinerUnmoved ==
    ASSUME [Next]_vars, ~MinerStep
    PROVE  MinerLeft' = MinerLeft
<1>1. UNCHANGED <<pc, board, chip, retry>>
  <2>1. CASE ToolStep \/ \E c \in Commands : Start(c)
    BY <2>1, ToolKeeps DEF minerVars
  <2>2. CASE UNCHANGED vars
    BY <2>2 DEF vars, initVars
  <2> QED BY <2>1, <2>2 DEF Next
<1> QED BY <1>1 DEF MinerLeft, Miner!StepsLeft, Miner!PerBoard, Miner!PolledIds

\* However tools interfere, and however often, each bnt_init of the miner is over
\* within MinerSteps transactions and loop passes of its own: a reset or a write
\* that a tool puts in between can cost retries, but no more than the loop has.
THEOREM InitEndsInSteps ==
    Spec => /\ [](MinerLeft \in 0 .. MinerSteps)
            /\ [][pc # "done" => IF MinerStep THEN MinerLeft' < MinerLeft
                                 ELSE MinerLeft' = MinerLeft]_vars
<1>1. IInv /\ IInv' /\ [Next]_vars
        => [pc # "done" => IF MinerStep THEN MinerLeft' < MinerLeft
                           ELSE MinerLeft' = MinerLeft]_vars
  BY MinerShortens, MinerUnmoved
<1> QED BY <1>1, MinerLeftBound, Invariant, PTL DEF Spec

-----------------------------------------------------------------------------
LEMMA LastBoardStays ==
    ASSUME UNCHANGED cmd
    PROVE  UNCHANGED LastBoard
  BY DEF LastBoard, AllBoards, FirstBoard

LEMMA IdsCount == IsFiniteSet(ChipIds) /\ Cardinality(ChipIds) = 64
<1>1. \A a, b \in Int : /\ IsFiniteSet(a .. b)
                        /\ Cardinality(a .. b) = IF a > b THEN 0 ELSE b - a + 1
  BY FS_Interval
<1>2. 0 \in Int /\ 63 \in Int /\ ~(0 > 63) /\ 63 - 0 + 1 = 64
  OBVIOUS
<1>3. IsFiniteSet(0 .. 63) /\ Cardinality(0 .. 63) = 64
  BY <1>1, <1>2, Zenon
<1>4. ChipIds = 0 .. 63
  BY DEF ChipIds, MAX_NCHIPS_PER_BOARD
<1> QED BY <1>3, <1>4

\* A command has at most the registers of one address, or two of one chip.
LEMMA RowsCount ==
    ASSUME cmd \in Commands, cmd.tool = "bnt_access", cmd.do # "write"
    PROVE  IsFiniteSet(Rows) /\ Cardinality(Rows) <= 64
<1>1. cmd.c \in ChipIds /\ cmd.do \in {"dump", "regscan", "read"}
  BY CommandShape
<1>2. \A S, T : IsFiniteSet(T) /\ S \subseteq T
                  => IsFiniteSet(S) /\ Cardinality(S) <= Cardinality(T)
  BY FS_Subset
<1>3. \A x : IsFiniteSet(ChipIds \X {x}) /\ Cardinality(ChipIds \X {x}) = 64
  <2> SUFFICES ASSUME NEW x
               PROVE  IsFiniteSet(ChipIds \X {x}) /\ Cardinality(ChipIds \X {x}) = 64
    OBVIOUS
  <2>1. IsFiniteSet({x}) /\ Cardinality({x}) = 1
    BY FS_Singleton
  <2>2. /\ IsFiniteSet(ChipIds \X {x})
        /\ Cardinality(ChipIds \X {x}) = Cardinality(ChipIds) * Cardinality({x})
    BY <2>1, IdsCount, FS_Product
  <2> QED BY <2>1, <2>2, IdsCount
<1>4. CASE cmd.do = "read"
  <2>1. Rows = {<<cmd.c, cmd.addr>>}
    BY <1>4 DEF Rows
  <2>2. \A x : IsFiniteSet({x}) /\ Cardinality({x}) = 1
    BY FS_Singleton
  <2>3. IsFiniteSet(Rows) /\ Cardinality(Rows) = 1
    BY <2>1, <2>2, Zenon
  <2> QED BY <2>3
<1>5. CASE cmd.do = "dump"
  <2>1. Rows = {<<cmd.c, SSR>>} \cup {<<cmd.c, IER>>}
    BY <1>5 DEF Rows
  <2>2. IsFiniteSet({<<cmd.c, SSR>>}) /\ Cardinality({<<cmd.c, SSR>>}) = 1
    BY FS_Singleton
  <2>3. /\ IsFiniteSet(Rows)
        /\ Cardinality(Rows) = IF <<cmd.c, IER>> \in {<<cmd.c, SSR>>}
                               THEN Cardinality({<<cmd.c, SSR>>})
                               ELSE Cardinality({<<cmd.c, SSR>>}) + 1
    BY <2>1, <2>2, FS_AddElement
  <2> QED BY <2>2, <2>3
<1>6. CASE cmd.do = "regscan"
  <2>1. Rows \subseteq ChipIds \X {cmd.addr}
    BY <1>6 DEF Rows
  <2>2. /\ IsFiniteSet(ChipIds \X {cmd.addr})
        /\ Cardinality(ChipIds \X {cmd.addr}) = 64
    BY <1>3
  <2>3. IsFiniteSet(Rows) /\ Cardinality(Rows) <= Cardinality(ChipIds \X {cmd.addr})
    BY <1>2, <2>1, <2>2, Zenon
  <2> QED BY <2>2, <2>3
<1> QED BY <1>1, <1>4, <1>5, <1>6

\* A board of a tool that has still R steps on the boards behind it.
LEMMA ToolLeftAt ==
    ASSUME NEW R, R = (LastBoard - tboard) * ToolPerBoard
    PROVE  /\ tpc = "idle"    => ToolLeft = 0
           /\ tpc = "open"    => ToolLeft = R + 66
           /\ tpc = "set"     => ToolLeft = R + 2
           /\ tpc = "release" => ToolLeft = R + 1
           /\ tpc = "write"   => ToolLeft = R + 1
           /\ tpc = "read"    => ToolLeft = R + Cardinality(rows) + 1
<1>1. ToolPerBoard = 66
  BY DEF ToolPerBoard, MAX_NCHIPS_PER_BOARD
<1> QED BY <1>1 DEF ToolLeft

\* The boards of a command, and the registers it has still to read.
LEMMA ToolStands ==
    ASSUME TypeOK, Fits, tpc # "idle"
    PROVE  /\ cmd \in Commands /\ tboard \in 0 .. LastBoard /\ LastBoard \in 0 .. 3
           /\ IsFiniteSet(rows) /\ Cardinality(rows) \in Nat
<1>1. cmd \in Commands /\ (~AllBoards => tboard = FirstBoard(cmd))
  BY DEF Fits
<1>2. tboard \in 0 .. LastBoard /\ LastBoard \in 0 .. 3
  BY <1>1, BoardRange DEF TypeOK, Boards, MAX_NBOARDS
<1>3. IsFiniteSet(rows)
  <2>1. IsFiniteSet(ChipIds) /\ IsFiniteSet({SSR, IER})
    <3>1. IsFiniteSet({SSR})
      BY FS_Singleton
    <3>2. IsFiniteSet({SSR} \cup {IER}) /\ {SSR} \cup {IER} = {SSR, IER}
      BY <3>1, FS_AddElement
    <3> QED BY <3>2, IdsCount
  <2>2. IsFiniteSet(ChipIds \X {SSR, IER})
    BY <2>1, FS_Product
  <2> QED BY <2>2, FS_Subset DEF TypeOK
<1> QED BY <1>1, <1>2, <1>3, FS_CardinalityType

LEMMA ToolLeftIsNat == IInv => ToolLeft \in Nat
<1> SUFFICES ASSUME IInv PROVE ToolLeft \in Nat
  OBVIOUS
<1>0. TypeOK /\ Fits
  BY DEF IInv
<1>1. CASE tpc = "idle"
  BY <1>1 DEF ToolLeft
<1>2. CASE tpc # "idle"
  <2>1. PICK R \in Nat : R = (LastBoard - tboard) * ToolPerBoard
    BY <1>0, <1>2, ToolStands DEF ToolPerBoard, MAX_NCHIPS_PER_BOARD
  <2> QED BY <1>0, <1>2, <2>1, ToolStands, ToolLeftAt DEF TypeOK
<1> QED BY <1>1, <1>2

\* After a board the tool has that of the boards behind it left, at most.
LEMMA NextBoardLeaves ==
    ASSUME IInv, tpc # "idle", NextBoard, UNCHANGED cmd
    PROVE  ToolLeft' <= (LastBoard - tboard) * 66
<1>0. TypeOK /\ Fits
  BY DEF IInv
<1>1. tboard \in 0 .. LastBoard /\ LastBoard \in 0 .. 3 /\ LastBoard' = LastBoard
  BY <1>0, ToolStands, LastBoardStays
<1>2. CASE tboard < LastBoard /\ tpc' = "open" /\ tboard' = tboard + 1
  <2>1. ToolLeft' = (LastBoard - (tboard + 1)) * 66 + 66
    BY <1>1, <1>2 DEF ToolLeft, ToolPerBoard, MAX_NCHIPS_PER_BOARD
  <2> QED BY <1>1, <1>2, <2>1
<1>3. CASE tpc' = "idle"
  <2>1. ToolLeft' = 0
    BY <1>3 DEF ToolLeft
  <2> QED BY <1>1, <2>1
<1> QED BY <1>2, <1>3 DEF NextBoard

\* A tool passes each board once and reads each register once.
LEMMA ToolShortens ==
    ASSUME IInv, ToolStep
    PROVE  ToolLeft' < ToolLeft
<1>0. TypeOK /\ Fits
  BY DEF IInv
<1>1. tpc # "idle" /\ cmd' = cmd
  BY DEF ToolStep, OpenBoard, NoBoard, ResetSet, ResetRelease, Write, Read, Show, initVars
<1>2. /\ cmd \in Commands /\ tboard \in 0 .. LastBoard /\ LastBoard \in 0 .. 3
      /\ IsFiniteSet(rows) /\ Cardinality(rows) \in Nat /\ LastBoard' = LastBoard
  BY <1>0, <1>1, ToolStands, LastBoardStays
<1>3. PICK R \in Nat : R = (LastBoard - tboard) * 66
  BY <1>2
<1>4. ToolPerBoard = 66
  BY DEF ToolPerBoard, MAX_NCHIPS_PER_BOARD
<1>5. NextBoard => ToolLeft' <= R
  BY <1>1, <1>3, NextBoardLeaves
<1>6. ToolLeft \in Nat /\ (NextBoard => ToolLeft' \in Int)
  <2>1. ASSUME NextBoard PROVE ToolLeft' \in Int
    BY <1>1, <1>2, <1>4, <2>1 DEF NextBoard, ToolLeft
  <2> QED BY <2>1, ToolLeftIsNat
<1>7. CASE OpenBoard
  <2>1. tpc = "open" /\ tboard' = tboard
    BY <1>7 DEF OpenBoard
  <2>2. ToolLeft = R + 66
    BY <1>3, <1>4, <2>1, ToolLeftAt
  <2>3. CASE cmd.tool = "bnt_reset" \/ cmd.do = "write"
    <3>1. tpc' \in {"set", "write"}
      BY <1>7, <2>3 DEF OpenBoard
    <3>2. ToolLeft' = R + 2 \/ ToolLeft' = R + 1
      BY <1>2, <1>3, <1>4, <2>1, <3>1 DEF ToolLeft
    <3> QED BY <2>2, <3>2
  <2>4. CASE ~(cmd.tool = "bnt_reset" \/ cmd.do = "write")
    <3>1. tpc' = "read" /\ rows' = Rows
      BY <1>7, <2>4 DEF OpenBoard
    <3>2. IsFiniteSet(Rows) /\ Cardinality(Rows) <= 64
      BY <1>2, <2>4, CommandShape, RowsCount
    <3>3. Cardinality(Rows) \in Nat
      BY <3>2, FS_CardinalityType
    <3>4. ToolLeft' = R + Cardinality(Rows) + 1
      BY <1>2, <1>3, <1>4, <2>1, <3>1 DEF ToolLeft
    <3> QED BY <2>2, <3>2, <3>3, <3>4
  <2> QED BY <2>3, <2>4
<1>8. CASE NoBoard
  <2>1. tpc = "open" /\ ToolLeft = R + 66
    BY <1>3, <1>4, <1>8, ToolLeftAt DEF NoBoard
  <2>2. CASE NextBoard
    BY <1>5, <1>6, <2>1, <2>2
  <2>3. CASE tpc' = "idle"
    BY <2>1, <2>3 DEF ToolLeft
  <2> QED BY <1>8, <2>2, <2>3 DEF NoBoard, AfterNoBoard
<1>9. CASE ResetSet
  <2>1. tpc = "set" /\ tpc' = "release" /\ tboard' = tboard
    BY <1>9 DEF ResetSet
  <2>2. ToolLeft = R + 2
    BY <1>3, <1>4, <2>1, ToolLeftAt
  <2>3. ToolLeft' = R + 1
    BY <1>2, <1>3, <1>4, <2>1 DEF ToolLeft
  <2> QED BY <2>2, <2>3
<1>10. CASE ResetRelease
  <2>1. tpc = "release" /\ NextBoard
    BY <1>10 DEF ResetRelease
  <2>2. ToolLeft = R + 1
    BY <1>3, <1>4, <2>1, ToolLeftAt
  <2> QED BY <1>5, <1>6, <2>1, <2>2
<1>11. CASE Write
  <2>1. tpc = "write" /\ NextBoard
    BY <1>11 DEF Write
  <2>2. ToolLeft = R + 1
    BY <1>3, <1>4, <2>1, ToolLeftAt
  <2> QED BY <1>5, <1>6, <2>1, <2>2
<1>12. CASE Read
  <2>1. /\ tpc = "read" /\ tpc' = "read" /\ tboard' = tboard
        /\ rows # {} /\ rows' = rows \ {First(rows)}
    BY <1>12 DEF Read
  <2>2. First(rows) \in rows
    BY <1>0, <2>1, FirstIsRow DEF TypeOK
  <2>3. Cardinality(rows') = Cardinality(rows) - 1
    BY <1>2, <2>1, <2>2, FS_RemoveElement
  <2>4. ToolLeft = R + Cardinality(rows) + 1
    BY <1>3, <1>4, <2>1, ToolLeftAt
  <2>5. ToolLeft' = R + Cardinality(rows') + 1
    BY <1>2, <1>3, <1>4, <2>1 DEF ToolLeft
  <2> QED BY <1>2, <2>3, <2>4, <2>5
<1>13. CASE Show
  <2>1. tpc = "read" /\ rows = {} /\ NextBoard
    BY <1>13 DEF Show
  <2>2. ToolLeft = R + Cardinality(rows) + 1
    BY <1>3, <1>4, <2>1, ToolLeftAt
  <2> QED BY <1>2, <1>5, <1>6, <2>1, <2>2
<1> QED BY <1>7, <1>8, <1>9, <1>10, <1>11, <1>12, <1>13 DEF ToolStep

\* The miner does not hold a tool up, and no second tool starts meanwhile.
LEMMA ToolUnmoved ==
    ASSUME [Next]_vars, tpc # "idle", ~ToolStep
    PROVE  ToolLeft' = ToolLeft
<1>1. UNCHANGED <<cmd, tpc, tboard, rows>>
  <2>1. CASE MinerStep
    BY <2>1, MinerKeeps DEF toolVars
  <2>2. CASE UNCHANGED vars
    BY <2>2 DEF vars, toolVars
  <2>3. ~ \E c \in Commands : Start(c)
    BY DEF Start
  <2> QED BY <2>1, <2>2, <2>3 DEF Next
<1> QED BY <1>1, LastBoardStays DEF ToolLeft, ToolPerBoard

\* bnt_reset and bnt_access are over within ToolSteps steps, for any command line
\* and whatever fails to open or is lost; the miner takes no step from them.
THEOREM ToolEndsInSteps ==
    Spec => /\ [](ToolLeft \in 0 .. ToolSteps)
            /\ [][tpc # "idle" => IF ToolStep THEN ToolLeft' < ToolLeft
                                  ELSE ToolLeft' = ToolLeft]_vars
<1> DEFINE Bounded == ToolLeft \in 0 .. ToolSteps
<1>s. ToolSteps = 264
  BY DEF ToolSteps, ToolPerBoard, MAX_NBOARDS, MAX_NCHIPS_PER_BOARD
<1>1. Init => Bounded
  BY <1>s DEF Init, ToolLeft
<1>2. IInv /\ [Next]_vars
        => [tpc # "idle" => IF ToolStep THEN ToolLeft' < ToolLeft
                            ELSE ToolLeft' = ToolLeft]_vars
  BY ToolShortens, ToolUnmoved
<1>3. IInv /\ IInv' /\ (IInv => ToolLeft \in Nat)' /\ Bounded /\ [Next]_vars => Bounded'
  <2> SUFFICES ASSUME IInv, IInv', (IInv => ToolLeft \in Nat)', Bounded, [Next]_vars
               PROVE  ToolLeft' \in 0 .. ToolSteps
    OBVIOUS
  <2>0. ToolLeft' \in Nat
    OBVIOUS
  <2>1. CASE tpc # "idle"
    <3>1. ToolLeft' <= ToolLeft
      BY <2>0, <2>1, <1>s, ToolShortens, ToolUnmoved
    <3> QED BY <2>0, <3>1, <1>s
  <2>2. CASE tpc = "idle" /\ tpc' = "idle"
    BY <1>s, <2>2 DEF ToolLeft
  <2>3. CASE tpc = "idle" /\ tpc' # "idle"
    <3>1. PICK c \in Commands : Start(c)
      <4>1. ~ToolStep
        BY <2>3 DEF ToolStep, OpenBoard, NoBoard, ResetSet, ResetRelease, Write, Read, Show
      <4>2. ~MinerStep
        BY <2>3, MinerKeeps DEF toolVars
      <4> QED BY <2>3, <4>1, <4>2 DEF Next, vars, toolVars
    <3>2. cmd' = c /\ tpc' = "open" /\ tboard' = FirstBoard(c)
      BY <2>3, <3>1 DEF Start
    <3>3. FirstBoard(c) \in 0 .. 3 /\ LastBoard' \in 0 .. 3
      <4>1. c.b \in 0 .. 3 \cup {-1}
        BY CommandShape
      <4> QED BY <3>2, <4>1 DEF FirstBoard, LastBoard, None, MAX_NBOARDS
    <3>4. ToolLeft' = (LastBoard' - tboard') * 66 + 66
      BY <3>2 DEF ToolLeft, ToolPerBoard, MAX_NCHIPS_PER_BOARD
    <3> QED BY <1>s, <2>0, <3>2, <3>3, <3>4
  <2> QED BY <2>1, <2>2, <2>3
<1> QED BY <1>1, <1>2, <1>3, ToolLeftIsNat, Invariant, PTL DEF Spec
=============================================================================

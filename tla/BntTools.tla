------------------------------ MODULE BntTools ------------------------------
(***************************************************************************)
(* bnt_reset and bnt_access run beside the miner, on the same bus and       *)
(* without a lock.  The miner is BntInit, called once per block header,     *)
(* with bnt_set_interrupt split into its two transactions; a tool may do    *)
(* one of its transactions between any two of the miner's.  The miner       *)
(* loses no transaction here: what it finds wrong is the tools' doing.      *)
(***************************************************************************)
EXTENDS BntBus, FiniteSets

CONSTANTS NChips, Mask, Fitted, StartSsr, \* of BntInit
          Nodes,       \* boards with a device node
          Opens,       \* sets of boards the miner may have opened
          Fasts,       \* values of info->fast
          Commands,    \* command lines, see ResetLine and AccessLine
          MaxJobs,     \* block headers
          MaxCommands, \* tools started
          MaxLost      \* transactions the tools may lose

VARIABLES ssr, ier, pll, flushed, open, fast, pc, board, chip, retry, buf,
          mixed, faults, \* of BntInit
          job,      \* block header
          irq,      \* ier of bnt_set_interrupt, between its read and its write
          cmd,      \* the command line of the tool that runs
          tpc, tboard,
          rows,     \* registers it has still to read, <<chip, address>>
          rxbuf,    \* its receive buffer
          shown,    \* what it shows for each register
          started, lost, \* tools started, transactions of theirs lost
          verified, \* history: chips whose SSR this bnt_init has read
          late,     \* history: chips whose SSR a tool wrote after that
          spoiled,  \* history: those it wrote after bnt_init wrote SSR
          muted,    \* history: chips whose IER a tool wrote after bnt_init
          wiped,    \* history: chips this tool has reset
          changed,  \* history: chips changed since the tool opened the board
          missed    \* history: registers whose read was lost

Miner == INSTANCE BntInit WITH MaxFaults <- 0, MaxFaultsMixed <- 0

initVars  == <<ssr, ier, pll, flushed, open, fast, pc, board, chip, retry, buf,
               mixed, faults>>
minerVars == <<pll, flushed, open, fast, pc, board, chip, retry, buf, mixed,
               faults, job, irq, verified>>
toolVars  == <<cmd, tpc, tboard, rows, rxbuf, shown, started, lost, wiped, missed>>
vars      == <<initVars, job, irq, verified, toolVars, late, spoiled, muted,
               changed>>

SSR == 1
IER == 3
None == -1
Blank == <<"idle", 0>>

\* bnt_reset: -b, -c (None if not given), and -f or yes to "Are You Sure?".
ResetLine == [tool : {"bnt_reset"}, b : Boards \cup {None},
              c : ChipIds \cup {None}, sure : BOOLEAN]

\* bnt_access: -b, -c, -a, what to do (-d, -i nchips, -r or -w addr), how many
\* REG_VALs are given, and the first of them as SSR or IER takes it.
AccessLine == [tool : {"bnt_access"}, b : Boards \cup {None}, c : ChipIds,
               all : BOOLEAN, do : {"dump", "regscan", "read", "write"},
               nchips : 0 .. MAX_NCHIPS_PER_BOARD, addr : {SSR, IER},
               given : Nat, ssr : Miner!Ssr, ier : SUBSET Miner!IntKinds]

ASSUME ChipsAssumption ==
    /\ NChips \in 1 .. MAX_NCHIPS_PER_BOARD /\ Mask \in 0 .. 255
    /\ Fitted \subseteq Boards \X ChipIds /\ StartSsr \subseteq Miner!Ssr
ASSUME NodesAssumption ==
    Nodes \subseteq Boards /\ Opens \subseteq SUBSET Nodes /\ Fasts \subseteq BOOLEAN
ASSUME CommandsAssumption ==
    \A c \in Commands : c \in ResetLine \/ c \in AccessLine
ASSUME BoundsAssumption ==
    MaxJobs \in Nat \ {0} /\ MaxCommands \in Nat /\ MaxLost \in Nat

Idle == [tool |-> "none"]

Init ==
    /\ Miner!Init /\ open \in Opens /\ fast \in Fasts
    /\ job = 1 /\ irq = {}
    /\ cmd = Idle /\ tpc = "idle" /\ tboard = 0
    /\ rows = {} /\ rxbuf = Blank /\ shown = <<>>
    /\ started = 0 /\ lost = 0
    /\ verified = {} /\ late = {} /\ spoiled = {} /\ muted = {}
    /\ wiped = {} /\ changed = {} /\ missed = {}

Changed ==
    changed' = IF tpc # "read" THEN changed
               ELSE changed \cup {k \in Fitted : ssr'[k] # ssr[k] \/ ier'[k] # ier[k]}

-----------------------------------------------------------------------------
\* bnt_init up to the interrupts.
Initialise ==
    /\ \/ Miner!ResetSet \/ Miner!ResetRelease \/ Miner!WriteSsr
       \/ Miner!WritePsr \/ Miner!VerifyNextBoard \/ Miner!RetryWrite
       \/ Miner!RetryRead \/ Miner!SkipBoard \/ Miner!EndLoop
    /\ spoiled' = IF pc = "retry" \/ (pc = "ssr" /\ board \in open)
                  THEN {k \in spoiled : k[1] # board} ELSE spoiled
    /\ Changed
    /\ UNCHANGED <<job, irq, verified, toolVars, late, muted>>

Verify ==
    /\ Miner!VerifyRead
    /\ verified' = verified \cup {<<board, chip>>}
    /\ UNCHANGED <<job, irq, toolVars, late, spoiled, muted, changed>>

\* bnt_set_interrupt of one board: IER of chip 0 is read ...
IrqRead ==
    /\ Miner!AtBoard("irq")
    /\ irq' = regread(ier, board, 0, irq, {}, TRUE)
    /\ pc' = "enable"
    /\ UNCHANGED <<ssr, ier, pll, flushed, open, fast, board, chip, retry, buf,
                   mixed, faults, job, verified, toolVars, late, spoiled, muted,
                   changed>>

\* Mutant: what was read is written back to all chips.
Enabled_AsRead(read) == read

\* ier | ikind
Enabled(read) == read \cup Miner!IntAll

\* ... and written to all chips with the bits set, whatever a tool wrote since.
IrqWrite ==
    /\ pc = "enable"
    /\ ier' = regwrite(ier, board, 0, Enabled(irq), TRUE, TRUE)
    /\ pc' = "irq" /\ board' = board + 1
    /\ muted' = {k \in muted : k[1] # board}
    /\ UNCHANGED <<ssr, pll, flushed, open, fast, chip, retry, buf, mixed, faults,
                   job, irq, verified, toolVars, late, spoiled>>
    /\ Changed

\* bnt_getnonce is over, by a nonce or by its time: the next header.
NextJob ==
    /\ pc = "done" /\ job < MaxJobs
    /\ job' = job + 1
    /\ pc' = "reset" /\ board' = 0 /\ chip' = 0 /\ retry' = 0
    /\ flushed' = {} /\ verified' = {} /\ late' = {} /\ muted' = {}
    /\ UNCHANGED <<ssr, ier, pll, open, fast, buf, mixed, faults, irq, toolVars,
                   spoiled, changed>>

MinerStep == Initialise \/ Verify \/ IrqRead \/ IrqWrite \/ NextJob

-----------------------------------------------------------------------------
AllBoards == IF cmd.tool = "bnt_reset" THEN cmd.b = None /\ cmd.c = None
             ELSE cmd.do = "write" /\ cmd.all /\ cmd.b = None

\* info.boardid is 0 unless it is given.
FirstBoard(c) == IF c.b = None THEN 0 ELSE c.b
\* Mutant: one chip select too many.
LastBoard_OneMore == IF AllBoards THEN MAX_NBOARDS ELSE FirstBoard(cmd)

LastBoard == IF AllBoards THEN MAX_NBOARDS - 1 ELSE FirstBoard(cmd)

\* Options it takes: not a "no", nor a write with other than one value.
Accepted(c) ==
    IF c.tool = "bnt_reset" THEN c.sure ELSE c.do # "write" \/ c.given = 1

Start(c) ==
    /\ tpc = "idle" /\ started < MaxCommands
    /\ started' = started + 1
    /\ cmd' = c
    /\ tpc' = IF Accepted(c) THEN "open" ELSE "idle"
    /\ tboard' = FirstBoard(c)
    /\ wiped' = {} /\ missed' = {} /\ shown' = <<>>
    /\ UNCHANGED <<initVars, job, irq, verified, rows, rxbuf, lost, late, spoiled,
                   muted, changed>>

\* regscan steps through the ids as the miner polls them, regdump through the
\* registers of a chip.
Rows ==
    CASE cmd.do = "read"    -> {<<cmd.c, cmd.addr>>}
      [] cmd.do = "dump"    -> {cmd.c} \X {SSR, IER}
      [] cmd.do = "regscan" -> {c \in ChipIds : c % IdStep(cmd.nchips) = 0}
                                   \X {cmd.addr}

OpenBoard ==
    /\ tpc = "open" /\ tboard \in Nodes
    /\ rxbuf' = Blank /\ changed' = {}
    /\ IF cmd.tool = "bnt_reset" THEN tpc' = "set" /\ UNCHANGED rows
       ELSE IF cmd.do = "write" THEN tpc' = "write" /\ UNCHANGED rows
       ELSE tpc' = "read" /\ rows' = Rows
    /\ UNCHANGED <<initVars, job, irq, verified, cmd, tboard, shown, started, lost,
                   wiped, missed, late, spoiled, muted>>

NextBoard ==
    IF tboard < LastBoard THEN tpc' = "open" /\ tboard' = tboard + 1
    ELSE tpc' = "idle" /\ UNCHANGED tboard

\* Mutant: bnt_access tries the same board again.
AfterNoBoard_Again ==
    IF cmd.tool = "bnt_reset" THEN tpc' = "idle" /\ UNCHANGED tboard
    ELSE IF tboard < LastBoard THEN UNCHANGED <<tpc, tboard>>
    ELSE tpc' = "idle" /\ UNCHANGED tboard

\* "break" in bnt_reset, "continue" in bnt_access.
AfterNoBoard ==
    IF cmd.tool = "bnt_reset" THEN tpc' = "idle" /\ UNCHANGED tboard
    ELSE NextBoard

NoBoard ==
    /\ tpc = "open" /\ tboard \notin Nodes
    /\ AfterNoBoard
    /\ UNCHANGED <<initVars, job, irq, verified, cmd, rows, rxbuf, shown, started,
                   lost, wiped, missed, late, spoiled, muted, changed>>

Lose(ok) == IF ok THEN UNCHANGED lost ELSE lost < MaxLost /\ lost' = lost + 1

\* The chips a write of the tool reaches.
Reached(id, isbcast, ok) ==
    {k \in Fitted : ok /\ k[1] = tboard /\ (isbcast \/ k[2] = id)}

\* bnt_softreset of all chips of the board, or of one.
ResetSet ==
    /\ tpc = "set"
    /\ \E ok \in BOOLEAN :
         LET hit == Reached(cmd.c, cmd.c = None, ok) IN
         /\ Lose(ok)
         /\ ssr' = regwrite(ssr, tboard, cmd.c, Miner!SoftReset, cmd.c = None, ok)
         /\ ier' \in {ier, regwrite(ier, tboard, cmd.c, {}, cmd.c = None, ok)}
         /\ late' = late \cup (hit \cap verified)
         /\ spoiled' = spoiled \cup hit
         /\ muted' = muted \cup hit
         /\ wiped' = wiped \cup hit
    /\ tpc' = "release"
    /\ UNCHANGED <<minerVars, cmd, tboard, rows, rxbuf, shown, started, missed,
                   changed>>

\* Its second half, 100 ms later, whatever the miner has written since.
ResetRelease ==
    /\ tpc = "release"
    /\ \E ok \in BOOLEAN :
         LET hit == Reached(cmd.c, cmd.c = None, ok) IN
         /\ Lose(ok)
         /\ ssr' = regwrite(ssr, tboard, cmd.c, Miner!Cleared, cmd.c = None, ok)
         /\ late' = late \cup (hit \cap verified)
         /\ spoiled' = spoiled \cup hit
    /\ NextBoard
    /\ UNCHANGED <<ier, minerVars, cmd, rows, rxbuf, shown, started, wiped, missed,
                   muted, changed>>

\* regwrite of SSR or IER.
Write ==
    /\ tpc = "write"
    /\ \E ok \in BOOLEAN :
         LET hit == Reached(cmd.c, cmd.all, ok) IN
         /\ Lose(ok)
         /\ \/ /\ cmd.addr = SSR
               /\ ssr' = regwrite(ssr, tboard, cmd.c, cmd.ssr, cmd.all, ok)
               /\ late' = late \cup (hit \cap verified)
               /\ spoiled' = spoiled \cup hit
               /\ UNCHANGED <<ier, muted>>
            \/ /\ cmd.addr = IER
               /\ ier' = regwrite(ier, tboard, cmd.c, cmd.ier, cmd.all, ok)
               /\ muted' = muted \cup hit
               /\ UNCHANGED <<ssr, late, spoiled>>
    /\ NextBoard
    /\ UNCHANGED <<minerVars, cmd, rows, rxbuf, shown, started, wiped, missed,
                   changed>>

\* What is in a register of the chip with this id on the tool's board.
Register(id, addr) ==
    IF <<tboard, id>> \notin Fitted THEN Blank
    ELSE IF addr = SSR THEN <<"SSR", ssr[<<tboard, id>>]>>
    ELSE <<"IER", ier[<<tboard, id>>]>>

First(S) == CHOOSE r \in S :
              \A s \in S : r[1] < s[1] \/ (r[1] = s[1] /\ r[2] <= s[2])

\* Mutant: what was received before is shown for the register.
Shown_Before(row, received) ==
    [r \in {row} \cup DOMAIN shown |-> IF r = row THEN rxbuf ELSE shown[r]]

\* A pass of the loop of regscan or regdump stores what is in the buffer.
Shown(row, received) ==
    [r \in {row} \cup DOMAIN shown |-> IF r = row THEN received ELSE shown[r]]

\* One register: if the transfer fails the buffer is stored all the same, with
\* what the register before has left in it.
Read ==
    /\ tpc = "read" /\ rows # {}
    /\ LET row == First(rows) IN
       /\ rows' = rows \ {row}
       /\ \E ok \in BOOLEAN :
            /\ Lose(ok)
            /\ rxbuf' = IF ok THEN Register(row[1], row[2]) ELSE rxbuf
            /\ missed' = IF ok THEN missed ELSE missed \cup {row}
       /\ shown' = Shown(row, rxbuf')
    /\ UNCHANGED <<ssr, ier, minerVars, cmd, tpc, tboard, started, wiped, late,
                   spoiled, muted, changed>>

\* printreg
Show ==
    /\ tpc = "read" /\ rows = {}
    /\ NextBoard
    /\ UNCHANGED <<ssr, ier, minerVars, cmd, rows, rxbuf, shown, started, lost,
                   wiped, missed, late, spoiled, muted, changed>>

ToolStep == \/ OpenBoard \/ NoBoard \/ ResetSet \/ ResetRelease \/ Write
            \/ Read \/ Show

Next == MinerStep \/ ToolStep \/ \E c \in Commands : Start(c)

\* Both programs take their steps; nobody needs to start a tool.
Spec == Init /\ [][Next]_vars /\ WF_vars(MinerStep) /\ WF_vars(ToolStep)

-----------------------------------------------------------------------------
Words == {Blank} \cup ({"SSR"} \X Miner!Ssr)
                 \cup ({"IER"} \X SUBSET Miner!IntKinds)

TypeOK ==
    /\ ssr \in [Fitted -> Miner!Ssr] /\ ier \in [Fitted -> SUBSET Miner!IntKinds]
    /\ open \subseteq Nodes /\ fast \in BOOLEAN
    /\ pc \in {"reset", "release", "ssr", "psr", "verify", "retry", "reread",
               "irq", "enable", "done"}
    /\ board \in 0 .. MAX_NBOARDS /\ chip \in 0 .. MAX_NCHIPS_PER_BOARD
    /\ retry \in 0 .. Miner!MaxRetry /\ buf \in Miner!Ssr /\ faults = 0
    /\ job \in 0 .. MaxJobs /\ irq \subseteq Miner!IntKinds
    /\ cmd \in Commands \cup {Idle}
    /\ tpc \in {"idle", "open", "set", "release", "write", "read"}
    /\ tboard \in Boards
    /\ rows \subseteq ChipIds \X {SSR, IER} /\ rxbuf \in Words
    /\ DOMAIN shown \subseteq ChipIds \X {SSR, IER}
    /\ \A row \in DOMAIN shown : shown[row] \in Words
    /\ started \in 0 .. MaxCommands /\ lost \in 0 .. MaxLost
    /\ late \subseteq verified \cap Fitted /\ spoiled \subseteq Fitted

\* bnt_init repairs what a tool has done to a polled chip before it was
\* verified: a chip left with another mask had its SSR written after that.
\* (Of a chip that is not polled, and of the reset flag, it makes no sure.)
RepairsEarlierDamage ==
    pc = "done" =>
        \A k \in Fitted :
            k[1] \in open /\ k[2] % IdStep(NChips) = 0
                /\ Miner!And_FF04(ssr[k]) # Miner!HandleSsr
            => k \in late

\* No damage is older than the last SSR that bnt_init wrote to the board: when it
\* is over every chip of the board, polled or not, is out of its reset and has the
\* mask, unless a tool wrote its SSR after that.
OldDamageIsGone ==
    pc = "done" =>
        \A k \in Fitted :
            k[1] \in open /\ ssr[k] # Miner!HandleSsr => k \in spoiled

\* The read-modify-write of IER loses no interrupt of the miner: one that is
\* off on an open board was turned off by a tool after bnt_set_interrupt.
NoInterruptLost ==
    pc = "done" =>
        \A k \in Fitted :
            k[1] \in open /\ ~(Miner!IntAll \subseteq ier[k]) => k \in muted

\* What bnt_access shows for a register is what the register holds, unless its
\* transfer was lost or the chip was changed while the board was read.  For a
\* register whose transfer was lost it shows the buffer as it stands: zeros, or
\* another register of the same table, never a rest of something else.
ShowsCurrent ==
    tpc = "read" /\ rows = {} =>
        /\ \A row \in DOMAIN shown \ missed :
             <<tboard, row[1]>> \notin changed => shown[row] = Register(row[1], row[2])
        /\ \A row \in missed :
             shown[row] \in {Blank} \cup {shown[r] : r \in DOMAIN shown \ missed}

\* Steps the miner may still take in this bnt_init: those of BntInit, and one
\* more for each board, whose interrupts take a read and a write here.
MinerLeft ==
    CASE pc = "irq"    -> 2 * (MAX_NBOARDS - board) + 1
      [] pc = "enable" -> 2 * (MAX_NBOARDS - board)
      [] pc = "done"   -> 0
      [] OTHER         -> Miner!StepsLeft + MAX_NBOARDS
MinerSteps == Miner!MaxSteps + MAX_NBOARDS

\* Steps of a tool: on a board it opens it, reads each register once, shows them.
ToolPerBoard == MAX_NCHIPS_PER_BOARD + 2
ToolLeft ==
    LET boards == (LastBoard - tboard) * ToolPerBoard
    IN CASE tpc = "idle"    -> 0
         [] tpc = "open"    -> boards + ToolPerBoard
         [] tpc = "set"     -> boards + 2
         [] tpc = "release" -> boards + 1
         [] tpc = "write"   -> boards + 1
         [] tpc = "read"    -> boards + Cardinality(rows) + 1
ToolSteps == MAX_NBOARDS * ToolPerBoard

\* bnt_init returns for every header however tools interfere.
InitReturns == pc = "reset" ~> pc = "done"

\* A tool ends, also when boards do not open.
ToolEnds == tpc # "idle" ~> tpc = "idle"

-----------------------------------------------------------------------------
(* Violated.                                                                *)

\* "'no args' means all boards & all chips": when bnt_reset without arguments is
\* over and none of its writes was lost, it has reset the chips of every board
\* that opens.
AllBoardsReset ==
    cmd.tool = "bnt_reset" /\ tpc = "idle" /\ lost = 0 =>
        (cmd.sure /\ AllBoards => wiped = {k \in Fitted : k[1] \in Nodes})
=============================================================================

------------------------------ MODULE DevScan -------------------------------
(***************************************************************************)
(* What main (app/bnt_getnonce.c) finds out before its first job: the       *)
(* numbers of boards and chips, given as options or counted by bnt_devscan, *)
(* the boards it can open, and the nonce mask that follows from them.       *)
(***************************************************************************)
EXTENDS NonceSpace, FiniteSets

CONSTANTS Layouts,    \* sets of chip ids a board may be fitted with
          MaxFaults,  \* greetings that are not answered
          Options     \* <<nboards, nchips>> given with -b and -c

\* Counts parse_opts lets pass; 0 is an option that was not given.
LegalBoards == BoardCounts \cup {0}
LegalChips  == ChipCounts \cup {0}

ASSUME LayoutsAssumption == Layouts \subseteq SUBSET ChipIds
ASSUME FaultsAssumption == MaxFaults \in Nat
ASSUME OptionsAssumption == Options \subseteq LegalBoards \X LegalChips

VARIABLES pop,     \* chip ids fitted on every board
          nodes,   \* boards with a device node, /dev/spidev0.<board>
          auto,    \* info.autodetect
          pc, board, nboards, nchips, faults,
          open,    \* boards with handle.spifd[board] > 0
          mask     \* handle.mask

world == <<pop, nodes, auto>>
vars  == <<pop, nodes, auto, pc, board, nboards, nchips, faults, open, mask>>

\* Without -b and -c both counts start at 0 and are scanned for.
Init ==
    /\ nodes \in SUBSET Boards
    /\ pop \in [Boards -> Layouts]
    /\ \A b \in Boards \ nodes : pop[b] = {}
    /\ \/ auto = TRUE /\ pc = "scan" /\ nboards = 0 /\ nchips = 0
       \/ /\ auto = FALSE /\ pc = "open"
          /\ \E o \in Options : nboards = o[1] /\ nchips = o[2]
    /\ board = 0 /\ faults = 0 /\ open = {} /\ mask = 0

\* Chips of a board that are greeted in vain although they are there.
Lost(chips) ==
    /\ faults + Cardinality(chips) <= MaxFaults
    /\ faults' = faults + Cardinality(chips)

\* hello_there to chip 0 of a board.
Hello(b, lost) == b \in nodes /\ 0 \in pop[b] /\ lost = {}

\* Mutant of ScanBoard: the board is counted inside the loop over its chips.
ScanBoard_CountsTwice ==
    /\ pc = "scan" /\ board \in nodes /\ Hello(board, {})
    /\ \E lost \in SUBSET pop[board] :
         /\ Lost(lost)
         /\ nchips' = IF board = 0 THEN Cardinality(pop[board] \ lost) ELSE nchips
         /\ nboards' = nboards + Cardinality(pop[board] \ lost)
    /\ board' = board + 1
    /\ UNCHANGED <<world, pc, open, mask>>

\* bnt_devscan, a board whose chip 0 answers: its chips are counted, on board
\* 0 for all of them.
ScanBoard ==
    /\ pc = "scan" /\ board \in nodes /\ Hello(board, {})
    /\ \E lost \in SUBSET pop[board] :
         /\ Lost(lost)
         /\ nchips' = IF board = 0 THEN Cardinality(pop[board] \ lost) ELSE nchips
    /\ nboards' = nboards + 1
    /\ board' = board + 1
    /\ UNCHANGED <<world, pc, open, mask>>

\* Mutant of ScanEmpty: the scan ends where no chip answers.
ScanEmptyStops ==
    /\ pc = "scan" /\ board \in nodes
    /\ \E lost \in SUBSET {0} : Lost(lost) /\ ~Hello(board, lost)
    /\ pc' = "open"
    /\ board' = 0
    /\ UNCHANGED <<world, nboards, nchips, open, mask>>

\* No answer from chip 0: "No Chips installed", the next board is tried.
ScanEmpty ==
    /\ pc = "scan" /\ board \in nodes
    /\ \E lost \in SUBSET {0} : Lost(lost) /\ ~Hello(board, lost)
    /\ board' = board + 1
    /\ UNCHANGED <<world, pc, nboards, nchips, open, mask>>

\* The scan ends at the last board, or at the first without a device node.
ScanEnd ==
    /\ pc = "scan" /\ board \notin nodes
    /\ pc' = "open"
    /\ board' = 0
    /\ UNCHANGED <<world, nboards, nchips, faults, open, mask>>

\* main tries every board again, whatever the scan said.
OpenBoard ==
    /\ pc = "open" /\ board < MAX_NBOARDS
    /\ \E lost \in SUBSET {0} :
         /\ Lost(lost)
         /\ open' = IF Hello(board, lost) THEN open \cup {board} ELSE open
    /\ board' = board + 1
    /\ UNCHANGED <<world, pc, nboards, nchips, mask>>

\* With a count of 0 the table is read at index -1, outside its row or of the
\* whole table: any byte may be there.
SetMask ==
    /\ pc = "open" /\ board = MAX_NBOARDS
    /\ \/ /\ nboards > 0 /\ nchips > 0
          /\ mask' = bnt_get_nonce_mask(nboards, nchips)
       \/ /\ nboards = 0 \/ nchips = 0
          /\ mask' \in 0 .. 255
    /\ pc' = "ready"
    /\ UNCHANGED <<world, board, nboards, nchips, faults, open>>

Next == ScanBoard \/ ScanEmpty \/ ScanEnd \/ OpenBoard \/ SetMask

Spec == Init /\ [][Next]_vars
-----------------------------------------------------------------------------
TypeOK ==
    /\ pop \in [Boards -> SUBSET ChipIds] /\ nodes \subseteq Boards
    /\ auto \in BOOLEAN /\ pc \in {"scan", "open", "ready"}
    /\ board \in 0 .. MAX_NBOARDS
    /\ nboards \in 0 .. MAX_NBOARDS /\ nchips \in 0 .. MAX_NCHIPS_PER_BOARD
    /\ faults \in 0 .. MaxFaults
    /\ open \subseteq nodes /\ mask \in 0 .. 255

\* The chips main will configure and give work to.
Working == {k \in Boards \X ChipIds : k[1] \in open /\ k[2] \in pop[k[1]]}

\* A system as it is meant to be put together: 1, 2 or 4 boards from the first
\* chip select on, with the same number of chips at the ids that are polled.
WellBuilt ==
    \E nb \in BoardCounts, nc \in ChipCounts :
        \A b \in Boards :
            pop[b] = IF b < nb THEN {c \in ChipIds : c % (64 \div nc) = 0} ELSE {}

\* In a well-built system that is detected without a lost greeting the chips
\* split the nonces between them: no two have the same share, together they
\* have all of them, and each is polled.
SharesPartition ==
    pc = "ready" /\ auto /\ faults = 0 /\ WellBuilt =>
        /\ \A k, l \in Working :
              ShareOf(k[1], k[2], mask) = ShareOf(l[1], l[2], mask) => k = l
        /\ Cardinality(Working) = bnt_get_nchips(mask)
        /\ \A k \in Working : k[2] \in Polled(nchips)

\* Boards without chips do not confuse the count of the others: every board that
\* was counted is opened, and main opens more boards than bnt_devscan counted
\* only if one of them lies behind a board without a device node.
CountedAreOpen ==
    pc = "ready" /\ auto /\ faults = 0 =>
        /\ nboards <= Cardinality(open)
        /\ nboards < Cardinality(open) => \E b \in open, g \in Boards \ nodes : g < b

-----------------------------------------------------------------------------
\* "Out of range nboards %d", "Out of range nchips %d": parse_opts ends the
\* program for other counts than these.  Detected counts are not looked at.
CountsInRange ==
    pc = "ready" => nboards \in LegalBoards /\ nchips \in LegalChips
=============================================================================

------------------------------- MODULE GpioIrq -------------------------------
(***************************************************************************)
(* The interrupt lines of the boards as GPIO pins in sysfs:                 *)
(* bnt_config_gpio_irq (api/bnt_spi.c) and bnt_gpioint (app/bnt_gpioint.c). *)
(* Commands run one after the other; what they leave behind in sysfs stays. *)
(* The pins rise and fall at any time.  After an export the attribute files *)
(* become accessible at some time, not always within the 50 ms the code     *)
(* waits.                                                                   *)
(*                                                                          *)
(* A value file that was never read counts as changed, and so does one      *)
(* whose pin has had an edge of the configured kind since it was read.      *)
(***************************************************************************)
EXTENDS Integers

CONSTANTS NLines,      \* boards, 4 in the code
          Commands,    \* command lines, see Command
          StartAttrs,  \* attributes of lines exported by somebody else before
          MaxCommands, MaxEdges, \* bounds on commands and edges
          MaxTimeouts  \* bound on what is counted of poll's timeouts

Lines == 0 .. NLines - 1

Attrs == [dir : {"in", "out"}, edge : {"none", "rising"}, low : BOOLEAN]

\* -a; -b boardid; -d; -p.  With -d and -p the descriptor polled is 0, the
\* terminal: left out.
Command == [all : BOOLEAN, board : Lines, disable : BOOLEAN, poll : BOOLEAN]

ASSUME LinesAssumption == NLines \in 1 .. 4
ASSUME CommandsAssumption ==
    Commands \subseteq Command /\ \A c \in Commands : ~(c.disable /\ c.poll)
ASSUME AttrsAssumption == StartAttrs \subseteq Attrs
ASSUME BoundsAssumption ==
    MaxCommands \in Nat /\ MaxEdges \in Nat /\ MaxTimeouts \in Nat

Default == [dir |-> "in", edge |-> "none", low |-> FALSE]

VARIABLES exported, \* lines exported
          held,     \* lines a kernel driver holds: they cannot be exported
          ready,    \* lines whose attribute files are accessible
          attr,     \* attributes of each line
          high,     \* lines whose pin is high
          fresh,    \* lines whose open value file counts as changed
          cmd, pc, line,
          fd,       \* what bnt_config_gpio_irq returned for each line
          count,    \* timeouts of poll
          reported, \* lines with an event when poll returned
          commands, edges, \* commands started, edges so far
          risen,    \* history: lines whose pin rose since they were consumed
          usable    \* history: lines exported and ready when cmd was started

sysfs   == <<exported, held, ready, attr>>
pins    == <<high, fresh, edges, risen>>
vars    == <<exported, held, ready, attr, high, fresh, cmd, pc, line, fd, count,
             reported, commands, edges, risen, usable>>

Closed == -1

Init ==
    /\ held \in SUBSET Lines
    /\ exported \in SUBSET (Lines \ held) /\ ready = exported
    /\ attr \in {[l \in Lines |-> IF l \in exported THEN a ELSE Default] :
                   a \in StartAttrs}
    /\ high = {} /\ fresh = {}
    /\ cmd = [all |-> FALSE, board |-> 0, disable |-> FALSE, poll |-> FALSE]
    /\ pc = "idle" /\ line = 0 /\ fd = [l \in Lines |-> 0]
    /\ count = 0 /\ reported = {}
    /\ commands = 0 /\ edges = 0 /\ risen = {} /\ usable = {}

-----------------------------------------------------------------------------
\* Does an edge of the pin up (or down) make an event?
Triggers(l, up) ==
    /\ l \in exported
    /\ attr[l].dir = "in" /\ attr[l].edge = "rising" /\ attr[l].low = ~up

Edge(l) ==
    /\ edges < MaxEdges
    /\ edges' = edges + 1
    /\ LET up == l \notin high IN
       /\ high' = IF up THEN high \cup {l} ELSE high \ {l}
       /\ fresh' = IF Triggers(l, up) THEN fresh \cup {l} ELSE fresh
       /\ risen' = IF up THEN risen \cup {l} ELSE risen
    /\ UNCHANGED <<sysfs, cmd, pc, line, fd, count, reported, commands, usable>>

\* udev has set the permissions of the attribute files.
Udev(l) ==
    /\ l \in exported \ ready
    /\ ready' = ready \cup {l}
    /\ UNCHANGED <<exported, held, attr, pins, cmd, pc, line, fd, count, reported,
                   commands, usable>>

-----------------------------------------------------------------------------
First(c) == IF c.all THEN 0 ELSE c.board

\* Mutant: one board too many.
Last_OneMore(c) == IF c.all THEN NLines ELSE c.board

Last(c)  == IF c.all THEN NLines - 1 ELSE c.board

\* Mutant: only the first descriptor is polled.
Polled_One == {First(cmd)}

\* ppfd and nfds
Polled == First(cmd) .. Last(cmd)

Start(c) ==
    /\ pc = "idle" /\ commands < MaxCommands
    /\ commands' = commands + 1
    /\ cmd' = c /\ line' = First(c)
    /\ pc' = IF c.disable THEN "unexport" ELSE "stat"
    /\ fd' = [l \in Lines |-> 0] /\ count' = 0 /\ reported' = {} /\ fresh' = {}
    /\ usable' = exported \cap ready
    /\ UNCHANGED <<sysfs, high, edges, risen>>

\* Back in main with a result for this line: the next one, or on.
Result(r) ==
    /\ fd' = [fd EXCEPT ![line] = r]
    /\ \/ /\ line < Last(cmd)
          /\ line' = line + 1
          /\ pc' = IF cmd.disable THEN "unexport" ELSE "stat"
       \/ /\ line = Last(cmd)
          /\ line' = First(cmd)
          /\ pc' = IF cmd.poll THEN "consume" ELSE "idle"

\* Mutant: the first line that is not exported ends it.
Unexport_Ends ==
    /\ pc = "unexport"
    /\ exported' = exported \ {line} /\ ready' = ready \ {line}
    /\ attr' = [attr EXCEPT ![line] = Default]
    /\ IF line \in exported THEN Result(0)
       ELSE /\ fd' = [fd EXCEPT ![line] = Closed]
            /\ pc' = "idle" /\ UNCHANGED line
    /\ UNCHANGED <<held, pins, cmd, count, reported, commands, usable>>

\* The write to unexport; it fails for a line that is not exported.
Unexport ==
    /\ pc = "unexport"
    /\ exported' = exported \ {line} /\ ready' = ready \ {line}
    /\ attr' = [attr EXCEPT ![line] = Default]
    /\ Result(IF line \in exported THEN 0 ELSE Closed)
    /\ UNCHANGED <<held, pins, cmd, count, reported, commands, usable>>

\* Mutant: the line is exported without a look.
Exists_Unchecked(l) == FALSE

\* stat: the directory of the line is there.
Exists(l) == l \in exported

\* A line that exists is taken as it is.
Found ==
    /\ pc = "stat" /\ Exists(line)
    /\ pc' = "direction"
    /\ UNCHANGED <<sysfs, pins, cmd, line, fd, count, reported, commands, usable>>

\* The write to export, and 50 ms.
Export ==
    /\ pc = "stat" /\ ~Exists(line) /\ line \notin held \cup exported
    /\ exported' = exported \cup {line}
    /\ pc' = "direction"
    /\ UNCHANGED <<held, ready, attr, pins, cmd, line, fd, count, reported,
                   commands, usable>>

\* The write fails: the line is taken.
ExportFails ==
    /\ pc = "stat" /\ ~Exists(line) /\ line \in held \cup exported
    /\ Result(Closed)
    /\ UNCHANGED <<sysfs, pins, cmd, count, reported, commands, usable>>

Attribute(this, next, value) ==
    /\ pc = this /\ line \in ready
    /\ pc' = next
    /\ attr' = [attr EXCEPT ![line] = value]
    /\ UNCHANGED <<exported, held, ready, pins, cmd, line, fd, count, reported,
                   commands, usable>>

SetDirection == Attribute("direction", "edge", [attr[line] EXCEPT !.dir = "in"])
SetEdge      == Attribute("edge", "active_low", [attr[line] EXCEPT !.edge = "rising"])

\* Mutant: active_low is left as it is.
SetActiveLow_Not == Attribute("active_low", "value", attr[line])

SetActiveLow == Attribute("active_low", "value", [attr[line] EXCEPT !.low = FALSE])

\* The value file, not yet read; its descriptor is what main gets.
OpenValue ==
    /\ pc = "value" /\ line \in ready
    /\ fresh' = fresh \cup {line}
    /\ Result(line + 3)
    /\ UNCHANGED <<sysfs, high, edges, risen, cmd, count, reported, commands, usable>>

\* A file cannot be opened yet: -1, and the line stays exported as it is.
NotReady ==
    /\ pc \in {"direction", "edge", "active_low", "value"} /\ line \notin ready
    /\ Result(Closed)
    /\ UNCHANGED <<sysfs, pins, cmd, count, reported, commands, usable>>

\* Mutant: only the first line is consumed.
Consume_FirstOnly ==
    /\ pc = "consume"
    /\ fresh' = fresh \ {First(cmd)} /\ risen' = risen \ {First(cmd)}
    /\ pc' = "poll" /\ UNCHANGED line
    /\ UNCHANGED <<sysfs, high, edges, cmd, fd, count, reported, commands, usable>>

\* "consume any prior interrupts": one line after the other.
Consume ==
    /\ pc = "consume"
    /\ fresh' = fresh \ {line} /\ risen' = risen \ {line}
    /\ IF line < Last(cmd) THEN line' = line + 1 /\ UNCHANGED pc
       ELSE pc' = "poll" /\ UNCHANGED line
    /\ UNCHANGED <<sysfs, high, edges, cmd, fd, count, reported, commands, usable>>

\* poll passes over negative descriptors.
Events == {l \in Polled : fd[l] # Closed /\ l \in fresh}

Event ==
    /\ pc = "poll" /\ Events # {}
    /\ reported' = Events
    /\ pc' = "idle"
    /\ UNCHANGED <<sysfs, pins, cmd, line, fd, count, commands, usable>>

\* Sixty seconds without an event.
Timeout ==
    /\ pc = "poll" /\ Events = {} /\ count < MaxTimeouts
    /\ count' = count + 1
    /\ UNCHANGED <<sysfs, pins, cmd, pc, line, fd, reported, commands, usable>>

Program == \/ Unexport \/ Found \/ Export \/ ExportFails
           \/ SetDirection \/ SetEdge \/ SetActiveLow \/ OpenValue \/ NotReady
           \/ Consume \/ Event \/ Timeout

Next == \/ Program \/ (\E c \in Commands : Start(c))
        \/ \E l \in Lines : Edge(l) \/ Udev(l)

\* The program takes its steps; pins and udev promise nothing.
Spec == Init /\ [][Next]_vars /\ WF_vars(Program)

-----------------------------------------------------------------------------
TypeOK ==
    /\ exported \subseteq Lines /\ held \subseteq Lines
    /\ exported \cap held = {} /\ ready \subseteq exported
    /\ attr \in [Lines -> Attrs]
    /\ high \subseteq Lines /\ fresh \subseteq Lines
    /\ cmd \in Command
    /\ pc \in {"idle", "unexport", "stat", "direction", "edge", "active_low",
               "value", "consume", "poll"}
    /\ line \in Lines /\ fd \in [Lines -> {Closed, 0} \cup 3 .. NLines + 2]
    /\ count \in 0 .. MaxTimeouts /\ reported \subseteq Lines
    /\ commands \in 0 .. MaxCommands /\ edges \in 0 .. MaxEdges
    /\ risen \subseteq Lines /\ usable \subseteq Lines

\* poll returns with exactly the interrupts since the consuming reads: none of
\* before, none made up by how lines were left or found, none left out.
ReportsExactly ==
    [][pc = "poll" /\ pc' = "idle" =>
         reported' = {l \in Polled : fd[l] # Closed /\ l \in risen}]_vars

\* A line that was there and accessible is configured, in whatever state a
\* command before it, or somebody else, left it.
RetryWorks == \A l \in usable : fd[l] # Closed \/ cmd.disable

\* After -d none of its lines is exported, also those left half configured.
DisableCleans ==
    pc = "idle" /\ cmd.disable => exported \cap (First(cmd) .. Last(cmd)) = {}

\* poll does not sleep through an interrupt after the consuming read.
PollWakes ==
    \A l \in Lines :
        (pc = "poll" /\ l \in (First(cmd) .. Last(cmd)) \cap risen /\ fd[l] # Closed)
            ~> l \in reported
=============================================================================

--------------------------- MODULE GpioIrqProofs ---------------------------
(***************************************************************************)
(* The interrupt lines, for any number of lines up to 4, any commands and   *)
(* any bounds: the invariants of GpioIrq, and that poll reports exactly the *)
(* interrupts since the consuming reads.                                    *)
(***************************************************************************)
EXTENDS GpioIrq, TLAPS

Configuring == {"direction", "edge", "active_low", "value"}

\* Where the program is fits the command, and line is one of its lines.
Shape ==
    /\ ~(cmd.disable /\ cmd.poll)
    /\ pc = "unexport" => cmd.disable
    /\ cmd.disable => pc \in {"idle", "unexport"}
    /\ pc # "idle" => line \in First(cmd) .. Last(cmd)

\* The lines -d has passed.
Swept ==
    pc = "unexport" => \A l \in First(cmd) .. line - 1 : l \notin exported

\* Only -d takes away what was usable.
Kept == ~cmd.disable => usable \subseteq ready

\* The line being configured, step by step.
Underway ==
    /\ pc \in Configuring => line \in exported
    /\ pc \in Configuring \ {"direction"} => attr[line].dir = "in"
    /\ pc \in {"active_low", "value"} => attr[line].edge = "rising"
    /\ pc = "value" => attr[line].low = FALSE

\* A line with a result is configured, unless its result says otherwise.
Armed(l) == /\ l \in exported
            /\ attr[l].dir = "in" /\ attr[l].edge = "rising" /\ attr[l].low = FALSE

Configured ==
    \A l \in First(cmd) .. Last(cmd) :
        /\ pc \in Configuring \cup {"stat", "consume", "poll"}
        /\ pc \in {"consume", "poll"} \/ l < line
        /\ fd[l] # Closed
        => Armed(l)

\* From its consuming read on a line's file counts as changed when its pin rose.
Watched ==
    \A l \in First(cmd) .. Last(cmd) :
        /\ pc = "poll" \/ (pc = "consume" /\ l < line)
        /\ fd[l] # Closed
        => (l \in fresh <=> l \in risen)

IInv == /\ TypeOK /\ Shape /\ Swept /\ DisableCleans /\ Kept /\ RetryWorks
        /\ Underway /\ Configured /\ Watched

\* The lines of a command are among the boards' lines.
LEMMA LinesOf ==
    ASSUME NEW c \in Command
    PROVE  /\ First(c) \in Lines /\ Last(c) \in Lines /\ First(c) <= Last(c)
           /\ First(c) .. Last(c) \subseteq Lines
  BY LinesAssumption DEF Command, Lines, First, Last

\* Where a result leads.
LEMMA ResultLeads ==
    ASSUME TypeOK, Shape, cmd' = cmd, pc \in Configuring \cup {"stat", "unexport"},
           NEW r \in {Closed, 0, line + 3}, Result(r)
    PROVE  /\ fd' = [fd EXCEPT ![line] = r]
           /\ fd' \in [Lines -> {Closed, 0} \cup 3 .. NLines + 2]
           /\ line' \in First(cmd) .. Last(cmd) /\ line' \in Lines
           /\ \/ /\ line < Last(cmd) /\ line' = line + 1
                 /\ pc' = IF cmd.disable THEN "unexport" ELSE "stat"
              \/ /\ line = Last(cmd)
                 /\ pc' = IF cmd.poll THEN "consume" ELSE "idle"
<1>1. fd' = [fd EXCEPT ![line] = r]
  BY DEF Result
<1>2. line \in Lines /\ line \in First(cmd) .. Last(cmd)
  BY DEF TypeOK, Shape, Configuring
<1>3. fd' \in [Lines -> {Closed, 0} \cup 3 .. NLines + 2]
  BY <1>1, <1>2, LinesAssumption DEF TypeOK, Lines
<1>4. cmd \in Command
  BY DEF TypeOK
<1>5. First(cmd) .. Last(cmd) \subseteq Lines /\ First(cmd) \in Int /\ Last(cmd) \in Int
      /\ First(cmd) <= Last(cmd)
  BY <1>4, LinesOf DEF Lines
<1>6. \/ /\ line < Last(cmd) /\ line' = line + 1
         /\ pc' = IF cmd.disable THEN "unexport" ELSE "stat"
      \/ /\ line = Last(cmd) /\ line' = First(cmd)
         /\ pc' = IF cmd.poll THEN "consume" ELSE "idle"
  BY DEF Result
<1>7. line' \in First(cmd) .. Last(cmd)
  BY <1>2, <1>5, <1>6
<1> QED BY <1>1, <1>3, <1>5, <1>6, <1>7

LEMMA InitInvariant == Init => IInv
<1> SUFFICES ASSUME Init PROVE IInv
  OBVIOUS
<1>1. TypeOK
  <2>1. attr \in [Lines -> Attrs]
    <3>1. PICK a \in StartAttrs :
                 attr = [l \in Lines |-> IF l \in exported THEN a ELSE Default]
      BY DEF Init
    <3>2. a \in Attrs /\ Default \in Attrs
      BY AttrsAssumption DEF Default, Attrs
    <3> QED BY <3>1, <3>2
  <2>2. cmd \in Command /\ line \in Lines
    BY LinesAssumption DEF Init, Command, Lines
  <2>3. count \in 0 .. MaxTimeouts /\ commands \in 0 .. MaxCommands /\ edges \in 0 .. MaxEdges
    BY BoundsAssumption DEF Init
  <2>4. exported \subseteq Lines /\ held \subseteq Lines /\ exported \cap held = {}
        /\ ready \subseteq exported
    BY DEF Init
  <2>5. fd \in [Lines -> {Closed, 0} \cup 3 .. NLines + 2]
    BY DEF Init
  <2> QED BY <2>1, <2>2, <2>3, <2>4, <2>5 DEF Init, TypeOK
<1>2. pc = "idle" /\ usable = {} /\ ~cmd.disable /\ ~cmd.poll
  BY DEF Init
<1> QED
  BY <1>1, <1>2 DEF IInv, Shape, Swept, DisableCleans, Kept, RetryWorks, Underway,
                    Configured, Watched, Configuring

-----------------------------------------------------------------------------
(* One lemma for each action.                                               *)

LEMMA EdgeInvariant ==
    ASSUME IInv, NEW l \in Lines, Edge(l) PROVE IInv'
<1>0. TypeOK /\ edges' \in 0 .. MaxEdges
  BY BoundsAssumption DEF IInv, TypeOK, Edge
<1>1. UNCHANGED <<sysfs, cmd, pc, line, fd, count, reported, commands, usable>>
  BY DEF Edge
<1>2. high' \subseteq Lines /\ fresh' \subseteq Lines /\ risen' \subseteq Lines
  BY <1>0 DEF Edge, TypeOK
<1>3. TypeOK'
  BY <1>0, <1>1, <1>2 DEF TypeOK, sysfs
<1>4. /\ Shape' /\ Swept' /\ DisableCleans' /\ Kept' /\ RetryWorks' /\ Underway'
      /\ Configured'
  BY <1>1 DEF IInv, Shape, Swept, DisableCleans, Kept, RetryWorks, Underway,
              Configured, Armed, First, Last, sysfs
<1>5. Watched'
  <2> SUFFICES ASSUME NEW k \in First(cmd) .. Last(cmd),
                      pc = "poll" \/ (pc = "consume" /\ k < line), fd[k] # Closed
               PROVE  k \in fresh' <=> k \in risen'
    BY <1>1 DEF Watched, First, Last
  <2>1. k \in fresh <=> k \in risen
    BY DEF IInv, Watched
  <2>2. Armed(k)
    BY DEF IInv, Configured
  <2>3. CASE k # l
    BY <2>1, <2>3 DEF Edge
  <2>4. CASE k = l
    <3>1. Triggers(l, TRUE) /\ ~Triggers(l, FALSE)
      BY <2>2, <2>4 DEF Triggers, Armed
    <3>2. CASE l \notin high
      BY <2>4, <3>1, <3>2 DEF Edge
    <3>3. CASE l \in high
      BY <2>1, <2>4, <3>1, <3>3 DEF Edge
    <3> QED BY <3>2, <3>3
  <2> QED BY <2>3, <2>4
<1> QED BY <1>3, <1>4, <1>5 DEF IInv

LEMMA UdevInvariant ==
    ASSUME IInv, NEW l \in Lines, Udev(l) PROVE IInv'
<1>1. /\ UNCHANGED <<exported, held, attr, high, fresh, edges, risen, cmd, pc, line,
                     fd, count, reported, commands, usable>>
      /\ ready' = ready \cup {l} /\ l \in exported
  BY DEF Udev, pins
<1>2. TypeOK'
  BY <1>1 DEF IInv, TypeOK
<1> QED
  BY <1>1, <1>2 DEF IInv, Shape, Swept, DisableCleans, Kept, RetryWorks, Underway,
              Configured, Armed, Watched, First, Last

LEMMA StartInvariant ==
    ASSUME IInv, NEW c \in Commands, Start(c) PROVE IInv'
<1>1. c \in Command /\ ~(c.disable /\ c.poll)
  BY CommandsAssumption
<1>2. /\ cmd' = c /\ line' = First(c) /\ pc' = (IF c.disable THEN "unexport" ELSE "stat")
      /\ fd' = [l \in Lines |-> 0] /\ count' = 0 /\ reported' = {} /\ fresh' = {}
      /\ usable' = exported \cap ready
      /\ UNCHANGED <<exported, held, ready, attr, high, edges, risen>>
      /\ commands < MaxCommands /\ commands' = commands + 1
  BY DEF Start, sysfs
<1>3. First(c) \in Lines /\ First(c) \in First(c) .. Last(c) /\ First(c) \in Int
      /\ First(c) .. Last(c) \subseteq Lines
  BY <1>1, LinesOf DEF Lines
<1>4. TypeOK'
  <2>1. commands' \in 0 .. MaxCommands /\ count' \in 0 .. MaxTimeouts
    BY <1>2, BoundsAssumption DEF IInv, TypeOK
  <2>2. usable' \subseteq Lines
    BY <1>2 DEF IInv, TypeOK
  <2> QED BY <1>1, <1>2, <1>3, <2>1, <2>2 DEF IInv, TypeOK
<1>5. Shape'
  BY <1>1, <1>2, <1>3 DEF Shape
<1>6. Swept'
  BY <1>2, <1>3 DEF Swept
<1>7. DisableCleans' /\ Kept' /\ Underway' /\ Watched'
  BY <1>2 DEF DisableCleans, Kept, Underway, Watched, Configuring
<1>8. RetryWorks'
  <2>1. \A l \in usable' : l \in Lines
    BY <1>2 DEF IInv, TypeOK
  <2> QED BY <1>2, <2>1 DEF RetryWorks, Closed
<1>9. Configured'
  <2>1. \A l \in First(c) .. Last(c) : ~(l < First(c))
    BY <1>3
  <2> QED BY <1>2, <2>1 DEF Configured
<1> QED BY <1>4, <1>5, <1>6, <1>7, <1>8, <1>9 DEF IInv

LEMMA UnexportInvariant == ASSUME IInv, Unexport PROVE IInv'
<1>1. /\ pc = "unexport" /\ cmd.disable /\ ~cmd.poll
      /\ exported' = exported \ {line} /\ ready' = ready \ {line}
      /\ attr' = [attr EXCEPT ![line] = Default]
      /\ Result(IF line \in exported THEN 0 ELSE Closed)
      /\ UNCHANGED <<held, high, fresh, edges, risen, cmd, count, reported, commands, usable>>
  BY DEF Unexport, pins, IInv, Shape
<1> DEFINE r == IF line \in exported THEN 0 ELSE Closed
<1>2. /\ fd' \in [Lines -> {Closed, 0} \cup 3 .. NLines + 2]
      /\ line' \in First(cmd) .. Last(cmd) /\ line' \in Lines
      /\ \/ line < Last(cmd) /\ line' = line + 1 /\ pc' = "unexport"
         \/ line = Last(cmd) /\ pc' = "idle"
  <2>1. r \in {Closed, 0, line + 3}
    OBVIOUS
  <2>2. TypeOK /\ Shape /\ pc \in Configuring \cup {"stat", "unexport"} /\ Result(r)
    BY <1>1 DEF IInv
  <2> HIDE DEF r
  <2> QED BY <1>1, <2>1, <2>2, ResultLeads
<1>3. TypeOK'
  <2>1. attr' \in [Lines -> Attrs]
    BY <1>1 DEF IInv, TypeOK, Default, Attrs
  <2>2. /\ exported' \subseteq Lines /\ exported' \cap held = {} /\ ready' \subseteq exported'
    BY <1>1 DEF IInv, TypeOK
  <2>3. pc' \in {"idle", "unexport"}
    BY <1>2
  <2> QED BY <1>1, <1>2, <2>1, <2>2, <2>3 DEF IInv, TypeOK
<1>4. Shape'
  BY <1>1, <1>2 DEF Shape, First, Last
<1>5. cmd \in Command /\ First(cmd) \in Int /\ Last(cmd) \in Int /\ line \in Int
      /\ First(cmd) <= line
  BY <1>1, LinesOf DEF IInv, TypeOK, Shape, Lines
<1>6. \A l \in First(cmd) .. line : l \notin exported'
  <2> TAKE l \in First(cmd) .. line
  <2>1. CASE l = line
    BY <1>1, <2>1
  <2>2. CASE l # line
    BY <1>1, <1>5, <2>2 DEF IInv, Swept
  <2> QED BY <2>1, <2>2
<1>7. Swept'
  BY <1>1, <1>2, <1>5, <1>6 DEF Swept, First
<1>8. DisableCleans'
  BY <1>1, <1>2, <1>6 DEF DisableCleans, First, Last
<1>9. Kept' /\ RetryWorks' /\ Underway' /\ Configured' /\ Watched'
  BY <1>1, <1>2 DEF Kept, RetryWorks, Underway, Configured, Watched, Configuring
<1> QED BY <1>3, <1>4, <1>7, <1>8, <1>9 DEF IInv

\* A step of the configuration that only touches the attributes of its line.
LEMMA StepInvariant ==
    ASSUME IInv, pc \in Configuring \cup {"stat"}, pc' \in Configuring, pc # "value",
           NEW a \in Attrs, attr' = [attr EXCEPT ![line] = a],
           UNCHANGED <<exported, held, ready, pins, cmd, line, fd, count, reported,
                       commands, usable>>,
           Underway'
    PROVE  IInv'
<1>1. TypeOK'
  BY DEF IInv, TypeOK, pins, Configuring
<1>2. ~cmd.disable /\ line \in First(cmd) .. Last(cmd)
  BY DEF IInv, Shape, Configuring
<1>3. Shape' /\ Swept' /\ DisableCleans' /\ Kept' /\ RetryWorks' /\ Watched'
  BY <1>2 DEF IInv, Shape, Swept, DisableCleans, Kept, RetryWorks, Watched,
              Configuring, First, Last
<1>4. Configured'
  <2> SUFFICES ASSUME NEW l \in First(cmd) .. Last(cmd), l < line, fd[l] # Closed
               PROVE  Armed(l)'
    BY DEF Configured, Configuring, First, Last
  <2>1. Armed(l)
    BY DEF IInv, Configured
  <2>2. l \in Lines /\ l # line /\ line \in Lines
    BY LinesOf DEF IInv, TypeOK, Lines
  <2>3. attr'[l] = attr[l]
    BY <2>2 DEF IInv, TypeOK
  <2> QED BY <2>1, <2>3 DEF Armed
<1> QED BY <1>1, <1>3, <1>4 DEF IInv

LEMMA FoundInvariant == ASSUME IInv, Found PROVE IInv'
<1>1. /\ pc = "stat" /\ pc' = "direction" /\ line \in exported
      /\ UNCHANGED <<sysfs, pins, cmd, line, fd, count, reported, commands, usable>>
  BY DEF Found, Exists
<1>2. attr' = [attr EXCEPT ![line] = attr[line]] /\ attr[line] \in Attrs
  BY <1>1 DEF IInv, TypeOK, sysfs
<1>3. Underway'
  BY <1>1 DEF Underway, Configuring, sysfs
<1> QED BY <1>1, <1>2, <1>3, StepInvariant DEF Configuring, sysfs

LEMMA ExportInvariant == ASSUME IInv, Export PROVE IInv'
<1>1. /\ pc = "stat" /\ pc' = "direction" /\ line \notin held
      /\ exported' = exported \cup {line}
      /\ UNCHANGED <<held, ready, attr, high, fresh, edges, risen, cmd, line, fd, count,
                     reported, commands, usable>>
  BY DEF Export, pins
<1>2. ~cmd.disable /\ line \in First(cmd) .. Last(cmd)
  BY <1>1 DEF IInv, Shape
<1>3. TypeOK'
  BY <1>1 DEF IInv, TypeOK
<1>4. Shape' /\ Swept' /\ DisableCleans' /\ Kept' /\ RetryWorks' /\ Underway' /\ Watched'
  BY <1>1, <1>2 DEF IInv, Shape, Swept, DisableCleans, Kept, RetryWorks, Underway,
                    Watched, Configuring, First, Last
<1>5. Configured'
  BY <1>1 DEF IInv, Configured, Armed, Configuring, First, Last
<1> QED BY <1>3, <1>4, <1>5 DEF IInv

LEMMA SetDirectionInvariant == ASSUME IInv, SetDirection PROVE IInv'
<1> DEFINE a == [attr[line] EXCEPT !.dir = "in"]
<1>1. /\ pc = "direction" /\ pc' = "edge" /\ attr' = [attr EXCEPT ![line] = a]
      /\ UNCHANGED <<exported, held, ready, pins, cmd, line, fd, count, reported,
                     commands, usable>>
  BY DEF SetDirection, Attribute
<1>2. attr[line] \in Attrs /\ a \in Attrs /\ a.dir = "in" /\ attr'[line] = a
  BY <1>1 DEF IInv, TypeOK, Attrs
<1>3. Underway'
  BY <1>1, <1>2 DEF IInv, Underway, Configuring
<1> HIDE DEF a
<1> QED BY <1>1, <1>2, <1>3, StepInvariant DEF Configuring

LEMMA SetEdgeInvariant == ASSUME IInv, SetEdge PROVE IInv'
<1> DEFINE a == [attr[line] EXCEPT !.edge = "rising"]
<1>1. /\ pc = "edge" /\ pc' = "active_low" /\ attr' = [attr EXCEPT ![line] = a]
      /\ UNCHANGED <<exported, held, ready, pins, cmd, line, fd, count, reported,
                     commands, usable>>
  BY DEF SetEdge, Attribute
<1>2. /\ attr[line] \in Attrs /\ a \in Attrs /\ a.edge = "rising" /\ a.dir = attr[line].dir
      /\ attr'[line] = a
  BY <1>1 DEF IInv, TypeOK, Attrs
<1>3. Underway'
  BY <1>1, <1>2 DEF IInv, Underway, Configuring
<1> HIDE DEF a
<1> QED BY <1>1, <1>2, <1>3, StepInvariant DEF Configuring

LEMMA SetActiveLowInvariant == ASSUME IInv, SetActiveLow PROVE IInv'
<1> DEFINE a == [attr[line] EXCEPT !.low = FALSE]
<1>1. /\ pc = "active_low" /\ pc' = "value" /\ attr' = [attr EXCEPT ![line] = a]
      /\ UNCHANGED <<exported, held, ready, pins, cmd, line, fd, count, reported,
                     commands, usable>>
  BY DEF SetActiveLow, Attribute
<1>2. /\ attr[line] \in Attrs /\ a \in Attrs /\ a.low = FALSE /\ a.dir = attr[line].dir
      /\ a.edge = attr[line].edge /\ attr'[line] = a
  BY <1>1 DEF IInv, TypeOK, Attrs
<1>3. Underway'
  BY <1>1, <1>2 DEF IInv, Underway, Configuring
<1> HIDE DEF a
<1> QED BY <1>1, <1>2, <1>3, StepInvariant DEF Configuring

\* A line gets its result: a failure of a line that was not usable, or the
\* descriptor of a line that is configured.
LEMMA ResultInvariant ==
    ASSUME IInv, pc \in Configuring \cup {"stat"},
           NEW r \in {Closed, line + 3}, Result(r),
           r = Closed => line \notin usable,
           r # Closed => Armed(line),
           UNCHANGED <<sysfs, high, edges, risen, cmd, count, reported, commands, usable>>,
           fresh' \subseteq Lines
    PROVE  IInv'
<1>0. /\ ~cmd.disable /\ cmd \in Command /\ line \in First(cmd) .. Last(cmd)
      /\ line \in Lines /\ fd \in [Lines -> {Closed, 0} \cup 3 .. NLines + 2]
      /\ First(cmd) .. Last(cmd) \subseteq Lines /\ First(cmd) \in Int /\ Last(cmd) \in Int
  <2>1. /\ ~cmd.disable /\ cmd \in Command /\ line \in First(cmd) .. Last(cmd)
        /\ line \in Lines /\ fd \in [Lines -> {Closed, 0} \cup 3 .. NLines + 2]
    BY DEF IInv, TypeOK, Shape, Configuring
  <2> QED BY <2>1, LinesOf DEF Lines
<1>1. /\ fd' = [fd EXCEPT ![line] = r]
      /\ fd' \in [Lines -> {Closed, 0} \cup 3 .. NLines + 2]
      /\ line' \in First(cmd) .. Last(cmd) /\ line' \in Lines
      /\ \/ line < Last(cmd) /\ line' = line + 1 /\ pc' = "stat"
         \/ line = Last(cmd) /\ pc' \in {"consume", "idle"}
            /\ (pc' = "consume" => line' = First(cmd))
  <2>1. r \in {Closed, 0, line + 3} /\ TypeOK /\ Shape
        /\ pc \in Configuring \cup {"stat", "unexport"} /\ cmd' = cmd
    BY DEF IInv
  <2>2. line = Last(cmd) => line' = First(cmd)
    BY <1>0 DEF Result
  <2> QED BY <1>0, <2>1, <2>2, ResultLeads
<1>2. TypeOK'
  BY <1>1 DEF IInv, TypeOK, sysfs
<1>3. Shape' /\ Swept' /\ DisableCleans' /\ Kept' /\ Underway'
  BY <1>0, <1>1 DEF IInv, Shape, Swept, DisableCleans, Kept, Underway, Configuring,
                    First, Last, sysfs
<1>4. RetryWorks'
  <2> SUFFICES ASSUME NEW l \in usable PROVE fd'[l] # Closed
    BY DEF RetryWorks
  <2>1. l \in Lines /\ fd[l] # Closed
    BY <1>0 DEF IInv, TypeOK, RetryWorks
  <2> QED BY <1>0, <1>1, <2>1
<1>5. Configured'
  <2> SUFFICES ASSUME NEW l \in First(cmd) .. Last(cmd),
                      pc' = "consume" \/ l < line', pc' # "idle", fd'[l] # Closed
               PROVE  Armed(l)
    <3>1. \A l : Armed(l) => Armed(l)'
      BY DEF Armed, sysfs
    <3>2. First(cmd)' = First(cmd) /\ Last(cmd)' = Last(cmd)
      BY DEF First, Last
    <3>3. pc' \in Configuring \cup {"stat", "consume", "poll"} => pc' # "idle"
      BY DEF Configuring
    <3>4. pc' # "poll"
      BY <1>1
    <3> QED BY <3>1, <3>2, <3>3, <3>4 DEF Configured
  <2>1. l <= line
    BY <1>0, <1>1
  <2>2. CASE l = line
    <3>1. fd'[l] = r
      BY <1>0, <1>1, <2>2
    <3> QED BY <2>2, <3>1
  <2>3. CASE l < line
    <3>1. fd'[l] = fd[l]
      BY <1>0, <1>1, <2>3
    <3> QED BY <2>3, <3>1 DEF IInv, Configured, Configuring
  <2> QED BY <1>0, <2>1, <2>2, <2>3
<1>6. Watched'
  <2>1. pc' = "consume" => \A l \in First(cmd) .. Last(cmd) : ~(l < line')
    BY <1>0, <1>1
  <2> QED BY <1>1, <2>1 DEF Watched, First, Last
<1> QED BY <1>2, <1>3, <1>4, <1>5, <1>6 DEF IInv

LEMMA ExportFailsInvariant == ASSUME IInv, ExportFails PROVE IInv'
<1>1. /\ pc = "stat" /\ line \in held /\ Result(Closed)
      /\ UNCHANGED <<sysfs, pins, cmd, count, reported, commands, usable>>
  BY DEF ExportFails, Exists
<1>2. line \notin usable
  BY <1>1 DEF IInv, Shape, Kept, TypeOK
<1>3. fresh' \subseteq Lines
  BY <1>1 DEF IInv, TypeOK, pins
<1> QED BY <1>1, <1>2, <1>3, ResultInvariant DEF pins

LEMMA NotReadyInvariant == ASSUME IInv, NotReady PROVE IInv'
<1>1. /\ pc \in Configuring /\ line \notin ready /\ Result(Closed)
      /\ UNCHANGED <<sysfs, pins, cmd, count, reported, commands, usable>>
  BY DEF NotReady, Configuring
<1>2. line \notin usable
  BY <1>1 DEF IInv, Shape, Kept, Configuring
<1>3. fresh' \subseteq Lines
  BY <1>1 DEF IInv, TypeOK, pins
<1> QED BY <1>1, <1>2, <1>3, ResultInvariant DEF pins

LEMMA OpenValueInvariant == ASSUME IInv, OpenValue PROVE IInv'
<1>1. /\ pc = "value" /\ fresh' = fresh \cup {line} /\ Result(line + 3)
      /\ UNCHANGED <<sysfs, high, edges, risen, cmd, count, reported, commands, usable>>
  BY DEF OpenValue
<1>2. line \in Lines /\ fresh' \subseteq Lines
  BY <1>1 DEF IInv, TypeOK
<1>3. line + 3 # Closed
  BY <1>2 DEF Lines, Closed
<1>4. Armed(line)
  BY <1>1 DEF IInv, Underway, Armed, Configuring
<1>5. pc \in Configuring \cup {"stat"}
  BY <1>1 DEF Configuring
<1> QED BY <1>1, <1>2, <1>3, <1>4, <1>5, ResultInvariant

LEMMA ConsumeInvariant == ASSUME IInv, Consume PROVE IInv'
<1>1. /\ pc = "consume" /\ fresh' = fresh \ {line} /\ risen' = risen \ {line}
      /\ \/ line < Last(cmd) /\ line' = line + 1 /\ pc' = "consume"
         \/ ~(line < Last(cmd)) /\ pc' = "poll" /\ line' = line
      /\ UNCHANGED <<sysfs, high, edges, cmd, fd, count, reported, commands, usable>>
  BY DEF Consume
<1>2. /\ ~cmd.disable /\ cmd \in Command /\ line \in First(cmd) .. Last(cmd)
      /\ First(cmd) .. Last(cmd) \subseteq Lines /\ First(cmd) \in Int /\ Last(cmd) \in Int
  <2>1. ~cmd.disable /\ cmd \in Command /\ line \in First(cmd) .. Last(cmd)
    BY <1>1 DEF IInv, TypeOK, Shape
  <2> QED BY <2>1, LinesOf DEF Lines
<1>3. line' \in First(cmd) .. Last(cmd)
  BY <1>1, <1>2
<1>4. TypeOK'
  <2>1. line' \in Lines /\ fresh' \subseteq Lines /\ risen' \subseteq Lines
    BY <1>1, <1>2, <1>3 DEF IInv, TypeOK
  <2>2. pc' \in {"consume", "poll"}
    BY <1>1
  <2> QED BY <1>1, <2>1, <2>2 DEF IInv, TypeOK, sysfs
<1>5. /\ Shape' /\ Swept' /\ DisableCleans' /\ Kept' /\ RetryWorks' /\ Underway'
  BY <1>1, <1>2, <1>3 DEF IInv, Shape, Swept, DisableCleans, Kept, RetryWorks,
                          Underway, Configuring, First, Last, sysfs
<1>6. Configured'
  BY <1>1 DEF IInv, Configured, Armed, First, Last, sysfs
<1>7. Watched'
  <2> SUFFICES ASSUME NEW l \in First(cmd) .. Last(cmd), fd[l] # Closed, l <= line
               PROVE  l \in fresh' <=> l \in risen'
    BY <1>1, <1>2 DEF Watched, First, Last
  <2>1. l = line \/ (l < line /\ (l \in fresh <=> l \in risen))
    BY <1>1, <1>2 DEF IInv, Watched
  <2> QED BY <1>1, <2>1
<1> QED BY <1>4, <1>5, <1>6, <1>7 DEF IInv

LEMMA EventInvariant == ASSUME IInv, Event PROVE IInv'
<1>1. /\ pc = "poll" /\ pc' = "idle" /\ reported' = Events
      /\ UNCHANGED <<sysfs, pins, cmd, line, fd, count, commands, usable>>
  BY DEF Event
<1>2. ~cmd.disable /\ cmd \in Command
  BY <1>1 DEF IInv, Shape, TypeOK
<1>3. reported' \subseteq Lines
  BY <1>1, <1>2, LinesOf DEF Events, Polled
<1>4. TypeOK'
  BY <1>1, <1>3 DEF IInv, TypeOK, sysfs, pins
<1> QED
  BY <1>1, <1>2, <1>4 DEF IInv, Shape, Swept, DisableCleans, Kept, RetryWorks, Underway,
                    Configured, Watched, Configuring, sysfs

LEMMA TimeoutInvariant == ASSUME IInv, Timeout PROVE IInv'
<1>1. /\ count' \in 0 .. MaxTimeouts
      /\ UNCHANGED <<sysfs, pins, cmd, pc, line, fd, reported, commands, usable>>
  BY BoundsAssumption DEF IInv, TypeOK, Timeout
<1>2. TypeOK'
  BY <1>1 DEF IInv, TypeOK, sysfs, pins
<1> QED
  BY <1>1, <1>2 DEF IInv, Shape, Swept, DisableCleans, Kept, RetryWorks, Underway,
                    Configured, Armed, Watched, First, Last, sysfs, pins

LEMMA NextInvariant == IInv /\ [Next]_vars => IInv'
<1> SUFFICES ASSUME IInv, [Next]_vars PROVE IInv'
  OBVIOUS
<1>1. CASE UNCHANGED vars
  BY <1>1 DEF vars, IInv, TypeOK, Shape, Swept, DisableCleans, Kept, RetryWorks,
              Underway, Configured, Armed, Watched, First, Last
<1>2. CASE Program
  BY <1>2, UnexportInvariant, FoundInvariant, ExportInvariant, ExportFailsInvariant,
     SetDirectionInvariant, SetEdgeInvariant, SetActiveLowInvariant,
     OpenValueInvariant, NotReadyInvariant, ConsumeInvariant, EventInvariant,
     TimeoutInvariant DEF Program
<1>3. CASE \E c \in Commands : Start(c)
  BY <1>3, StartInvariant
<1>4. CASE \E l \in Lines : Edge(l) \/ Udev(l)
  BY <1>4, EdgeInvariant, UdevInvariant
<1> QED BY <1>1, <1>2, <1>3, <1>4 DEF Next

LEMMA Invariant == Spec => []IInv
  BY InitInvariant, NextInvariant, PTL DEF Spec

\* Every variable has its type; no line is exported that somebody else holds.
THEOREM TypeCorrect == Spec => []TypeOK
<1>1. IInv => TypeOK
  BY DEF IInv
<1> QED BY <1>1, Invariant, PTL

\* A line that was there and accessible when the command began is configured,
\* whatever other commands or programs, or failures half way, made of it.
THEOREM UsableIsConfigured == Spec => []RetryWorks
<1>1. IInv => RetryWorks
  BY DEF IInv
<1> QED BY <1>1, Invariant, PTL

\* -d goes on over lines that are not exported and leaves none of its lines.
THEOREM DisableLeavesNone == Spec => []DisableCleans
<1>1. IInv => DisableCleans
  BY DEF IInv
<1> QED BY <1>1, Invariant, PTL

\* What poll reports are the lines whose pin rose since their consuming read.
THEOREM ReportsWhatRose == Spec => ReportsExactly
<1> DEFINE A == pc = "poll" /\ pc' = "idle" =>
                    reported' = {l \in Polled : fd[l] # Closed /\ l \in risen}
<1>1. IInv /\ [Next]_vars => [A]_vars
  <2> SUFFICES ASSUME IInv, Next, pc = "poll", pc' = "idle"
               PROVE  reported' = {l \in Polled : fd[l] # Closed /\ l \in risen}
    OBVIOUS
  <2>1. Event
    BY DEF Next, Program, Edge, Udev, Start, Unexport, Found, Export, ExportFails,
           SetDirection, SetEdge, SetActiveLow, Attribute, OpenValue, NotReady,
           Consume, Timeout
  <2>2. \A l \in Polled : fd[l] # Closed => (l \in fresh <=> l \in risen)
    BY DEF IInv, Watched, Polled
  <2> QED BY <2>1, <2>2 DEF Event, Events
<1> QED BY <1>1, Invariant, PTL DEF Spec, ReportsExactly
=============================================================================

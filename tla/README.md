# A verification project for BNT

BNT is a bitcoin-mining appliance: a Raspberry Pi drives up to four boards of up
to 64 hash chips over SPI. The repository holds the host side, in C: a library
(`api/`), command-line tools on top of it (`app/`), and helpers to prepare test
data (`debug/`). This directory holds TLA+ modules that model the host program and
the chips as the host sees them, TLC runs that check them on small instances, and
theorems about them that TLAPS checks for every value of the constants.
`PROJECT.json` lists the runs, the mutants that show each property can fail, the
lines each definition models, the hazards and the theorems.

## 1. The system

### Components

| component | code | state | operations | what makes it correct | modules |
|---|---|---|---|---|---|
| register bus | `regwrite`, `regread`, `regscan`, `regdump` (`api/bnt_api.c`), `bnt_spi_write`, `bnt_spi_tx_rx` (`api/bnt_spi.c`) | the registers of every chip | unicast and broadcast write, read | a read returns the register or leaves the buffer alone, a broadcast reaches a whole board or is lost | `BntBus` |
| initialisation | `bnt_init` (`app/bnt_getnonce.c`), `bnt_softreset`, `bnt_write_all`, `bnt_set_interrupt` | SSR, IER, PSR of every chip; `handle->mask`, `ssr` | reset, write, verify and retry, enable interrupts | every chip of every open board holds `handle->ssr` when it returns | `BntInit`, `BntConfigure`, `BntInitProofs` |
| nonce sharing | `bnt_get_nonce_mask`, `bnt_get_nchips`, `bnt_get_id_shift`, `bnt_get_realnonce` | none | tables and a correction | the chips' shares are disjoint and cover all nonces; the correction confuses and loses no nonce | `NonceSpace`, `NonceSpaceProofs` |
| device scan and options | `bnt_devscan`, `hello_there`, `parse_opts`, first half of `main` | `nboards`, `nchips`, `spifd[]` | greet, count, open | the counts, the open boards and the mask fit the boards that are there | `DevScan`, `DevScanProofs` |
| mining loop | second half of `main`, `bnt_getnonce`, `bnt_request_hash`, `bnt_read_workid`, `bnt_read_mrr`, `bnt_test_validnonce(_out)` | `bhash`, work id, round count; work and results in the chips | next header, request, poll, test, time out, key | only good nonces are accepted, a waiting result is found, jobs are not mixed up, every header has its outcome, the loop ends | `BntMine`, `MineContract`, `BntMineProofs` |
| interrupt enable, shared bus | `bnt_set_interrupt`, `bnt_reset`, `bnt_access`, `bnt_regscan`, `bnt_regdump` | IER, SSR, shared by processes; a receive buffer | read-modify-write, reset, scan, dump, write | no interrupt of the miner is lost, earlier damage is repaired, what is printed is what is there | `BntTools`, `BntToolsProofs` |
| GPIO interrupt line | `bnt_config_gpio_irq` (`api/bnt_spi.c`), `app/bnt_gpioint.c` | export state, direction, edge, polarity, pending event | export, configure, consume, poll, unexport | exactly the interrupts since the consuming read are reported, a failed run can be repeated or undone | `GpioIrq`, `GpioIrqProofs` |
| web status | `bnt_set_status_noti_web` (`app/demo/bnt_demoutil.c`), `app/demo/bnt_setnoti.c` | one file, a stream buffer per writer | open (truncates), write, close | the file begins with the status written last, or is empty for a reason | `WebNoti`, `StatusPage`, `WebNotiProofs` |
| device test | `app/bnt_devtest.c` | HVR registers, read buffer | write pattern, read, compare, retry | no defect passes, no healthy chip fails, no chip is left out | `DevTest`, `DevTestProofs` |
| targets | `bnt_get_bits`, `bnt_get_targetstr`, `bnt_swap_byte` (`api/bnt_util.c`) | none | conversions and a comparison | the comparison in compact form is that of the numbers, up to the rounding of targets like difficulty 1 | `Targets`, `BntMineProofs` |
| hexadecimal text | `bnt_str2hex`, `bnt_hex2str`, `bnt_hash2str`, `hexdump` | none | wording and layout | | not modelled |
| hashing | `bnt_getmidhash`, `bnt_gethash` | none | SHA-256 from OpenSSL | | not modelled |
| console, sample tools, device tree | `app/demo/ConsFunc.c`, `debug/*`, `app/spidev_test.c`, `dts/` | none of their own | | | not modelled |

### How they interact

`main` counts boards and chips (or takes them from `-b` and `-c`), opens the boards,
derives the nonce mask, and then for every block header calls `bnt_init` and
`bnt_getnonce`. Everything goes over the register bus. Chips never call the host:
they leave results in registers that the host polls. In the DEMO build the loop
also reads keys and publishes a status file. The other tools (`bnt_reset`,
`bnt_access`, `bnt_devtest`, `bnt_setnoti`, `bnt_gpioint`) are processes of their own
on the same bus, the same file and the same pins; there is no lock between them.

The host program has one thread. What makes it hard is the other side: bus
transactions may fail and nearly all results are ignored; buffers are
uninitialised or keep old contents when a read fails; chips report at any time,
also for a job that is over; tables have holes; and several processes may use the
bus, the status file and sysfs. The hazards of `PROJECT.json` list these, each at
its line.

## 2. The modules

`BntBus` defines `regwrite` and `regread` on register files, functions from
`<<board, id>>` of the fitted chips to a value. A lost write changes nothing, a lost
read leaves the caller's buffer, and an id without a chip reads as an idle line
(zero). It is used by all modules about the bus.

`BntInit` models `bnt_init` with one action per bus transaction: `ResetSet` and
`ResetRelease` are `bnt_softreset`, `WriteSsr` and `WritePsr` one board of
`bnt_write_all`, `VerifyRead`, `RetryWrite`, `RetryRead` the verification,
`SetInterrupt` one board of `bnt_set_interrupt`; `SkipBoard`, `VerifyNextBoard` and
`EndLoop` are the loop heads. `buf` is the local variable `ssr`, with its byte order
left out and its stale contents kept. SSR is a record of the fields the code
compares: mask, 64-bit flag, reset flag. Every transaction may be lost while a
budget (`MaxFaults`, or `MaxFaultsMixed` if chips of one board start out
different) lasts.

`BntConfigure` is what `main` relies on: boards are reset first, then configured,
never taken back afterwards, and `bnt_init` returns only when all open boards are
configured. `BntInit!Contract` is the refinement mapping. `BntMine` uses the
contract: its `Initialise` is one step after which every board is configured,
while the resets of some boards may have been lost. `StepsLeft` counts the steps `bnt_init` may still take in
the worst case, `MaxSteps` all of them; only a theorem is about it.

`BntTools` composes `bnt_init` with the tools. The miner is an instance of `BntInit`
without losses of its own, called once per header, in which `bnt_set_interrupt` is split
into its read (`IrqRead`) and its write (`IrqWrite`). `bnt_reset` and `bnt_access`
take their own bus transactions one at a time: `OpenBoard` and `NoBoard` are the heads of
their loops, `ResetSet` and `ResetRelease` the reset and its end 100 ms later, `Write`
is `regwrite` of SSR or IER, `Read` one register of `regread`, `regscan` or `regdump`,
`Show` what is printed. A tool may do any of these between any two transactions of
the miner, and may lose some. Lost reads leave `rxbuf`, which `regscan` stores all the same.
The history variables say which chips a tool wrote since what the miner did last to them: `late` since it read
their SSR, `spoiled` since it wrote it, `muted` since it enabled their interrupts. `MinerLeft` and `ToolLeft` count the
steps the miner may still take in this `bnt_init`, and the tool in its command.

`NonceSpace` holds the tables. A nonce is a record of its share (the top bits), the
bits in the window of the mask, and those below it; the window has `MidSize`
values, so that the wrap-around of the correction is exact for a window of any
size. The correction of the code is a subtraction of 2 or 3 engine rounds; under
a 12-bit window all it does is to borrow one from the window. `ShareOf` is the chips'
side of the mask, which the source does not define; it is inferred from the masks.

`Targets` holds what decides whether a nonce is good. A hash is a sequence of `HashLen`
bytes (32 in the code); a compact number is its exponent and three mantissa bytes.
`bnt_get_bits` turns a hash into one, also where the code's loop and its three bytes reach behind
the hash: those bytes are a parameter (`past`), any values. `CompareLaw` says what the
comparison of compact numbers amounts to: the hash `Meets` the target, but for the hash 0, which is
rejected. To meet a target is to be below it as a number, with one exception that the code makes: a target whose mantissa
begins with a zero byte (difficulty 1, 0x1d00ffff, is one) counts as if rounded up to a power of 256, so
that the host accepts hashes that are above such a target.

`DevScan` models everything before the first header: `bnt_devscan`, the second
opening of the boards in `main`, and the choice of the mask. A board is a set of
chip ids, with or without a device node; greetings may be lost. An index outside of
`BNT_CONF_MASK` reads any byte.

`BntMine` models the loop over the headers. Work ids are counted modulo `WorkIds`
(256 in the code, with 0 left out on wrapping). `PollWorkId` and `PollResult` are the two
bus reads of a poll, so chips may report between them; a lost read of the work id
is any value, since the code's variable is uninitialised, a lost read of the
result is a zero nonce under the right work id. `Key` and `AnyKey` are the user of the
DEMO build. `DoubleHash` stands for the double SHA-256; swapping, compacting and comparing the
hash are those of `Targets`. The history variables `unreset`, `late` and `unheard` say which
resets and reads were lost and who reported in the current round; nothing but the
properties reads them. `Good` is what a nonce is to be in terms of numbers, not of compact ones, and `Solutions` the
nonces each header has; `Samples` are the hashes and targets on which TLC compares the two. `StepsLeft` is as in `BntInit`.

`MineContract` is the mining loop without chips, bus and work ids: `Take` a header in order, `Find` one of its solutions or
`GiveUp`, `Record` the outcome, `End` after the last header or, in DEMO, by a key. `BntMine!Contract` is the refinement
mapping: where the host polls is "mining", `results` are the outcomes, and the answer is `nonce` while `ret` is 0.

`DevTest` models `bnt_devtest`: the range of boards and chips its options select, boards that do not
open, the reset of each chip, and the eight memory tests, four patterns written by unicast and four by
broadcast. `Write` and `Read` are `do_memtest`: one write of all registers, and one try of reading and
comparing them. The registers are read one by one, each read may be lost, and then `rbuf` keeps what an
earlier try or its initialisation left there. Defective cells hold a value of their own. The tool is
alone on the bus, so a try may be one step. `StepsLeft` is as in `BntInit`.

`WebNoti` models the status file with any number of writers: `bnt_getnonce`, and
`bnt_setnoti`, whose `main` opens the file once before `bnt_set_status_noti_web` does
again (`OpenFirst`). `Open` truncates, `Close` writes the text in one piece over the beginning of what is
there by then; each may fail, which the code ignores, and a writer may be killed
(`Die`, what it has buffered is lost) and started again. `StatusPage` is what the page can rely on; `WebNoti!Page` is the refinement mapping:
the page shows the status the file begins with, or none.

`GpioIrq` models `bnt_gpioint` and `bnt_config_gpio_irq`: one action per access to sysfs.
`Found`, `Export`, `ExportFails` are the look for the line and its export, `SetDirection`, `SetEdge`,
`SetActiveLow`, `OpenValue` the attribute files, `NotReady` any of them that is not accessible,
`Consume`, `Event`, `Timeout` what `main` does with the descriptors, `Unexport` the option
`-d`. `Edge` moves a pin at any time, `Udev` makes the attribute files of an exported line accessible.
Commands follow each other and find what the one before has left.

`MCBntInit`, `MCBntTools`, `MCDevScan`, `MCDevTest`, `MCBntMine`, `MCWebNoti` and `MCGpioIrq` give the
constants their values for TLC. `BntInitProofs`, `BntToolsProofs`, `NonceSpaceProofs`, `BntMineProofs` (also
for `Targets`), `DevScanProofs`, `DevTestProofs`, `WebNotiProofs` and `GpioIrqProofs` hold the
theorems.

### Assumptions about what is not in the repository

- A soft reset (SSR bit 0) makes a chip drop its work and results. Whether it clears
  IER is left open: both happen in `ResetSet`.
- Nobody answers for an id without a chip: the read gives zero.
- A result register holds the latest report of its chip.
- A chip whose SSR holds a mask searches the share `ShareOf` gives it.
- The only value with the reset flag that any code writes to SSR is 1, so a
  chip cannot be found with the reset flag next to a mask (`StartAssumption`).
- The register bus works while a chip is in reset; whether a soft reset clears HVR is left open.
- A failing transaction reaches no chip, and a broadcast reaches all chips behind
  its chip select or none.
- A value file of sysfs that was opened and never read counts as changed for poll, and so does one
  whose pin had an edge of the configured kind since it was read; the attribute files of an
  exported line are accessible at some time or never.
- A text of the status file fits into the stream's buffer, so that it reaches the file
  in `fclose` and in one piece.

## 3. The runs

| run | checks | expected |
|---|---|---|
| `init_faults` | `TypeOK`, `ConfiguredAtReturn`, `CleanReturn`, `RetryMeansFault`, `Termination`, `ImplementsContract` of `BntInit` | pass |
| `init_retry_mask` | `RetryOnlyWhileWrong` | violated: finding 1 |
| `init_verify_stale` | `VerifiedMeansConfigured` | violated: finding 2 |
| `tools` | `TypeOK`, `RepairsEarlierDamage`, `OldDamageIsGone`, `NoInterruptLost`, `ShowsCurrent`, `InitReturns`, `ToolEnds` of `BntTools` | pass |
| `reset_gap` | `AllBoardsReset` | violated: finding 4 |
| `scan` | `TypeOK`, `SharesPartition`, `CountedAreOpen` of `DevScan` | pass |
| `scan_counts` | `CountsInRange` | violated: finding 3 |
| `devtest` | `TypeOK`, `VerifiedIsHeld`, `NoFalseAlarm`, `DefectiveFails`, `AllTested` of `DevTest` | pass |
| `devtest_stale` | `VerifiedMeansHeld` | violated: finding 5 |
| `mine` | `TypeOK`, `AcceptedIsGood`, `NoMissedResult`, `WorkIdTellsJobs`, `ComparesNumbers`, `CorrectionPermutes`, `AllJobsEnd`, `ImplementsContract` of `BntMine` | pass |
| `noti` | `TypeOK`, `BeginsWithLast`, `TornTakesTwo`, `EmptyHasReason`, `EndsShown`, `ImplementsPage` of `WebNoti` | pass |
| `gpio` | `TypeOK`, `RetryWorks`, `DisableCleans`, `ReportsExactly`, `PollWakes` of `GpioIrq` | pass |

**`init_faults`**: `nchips` = 2, so ids 0 and 32 are polled; board 0 has chips at 0, 16 and 32, board 1 only
at 0. So a chip that is never read (id 16) has to be configured by broadcasts, and a polled id
without a chip makes the retry loop run in vain. Registers start cleared, in reset or configured, each chip on its own;
all subsets of the boards may be open, `fast` on or off. Up to seven transactions are lost, two when
the chips of a board differ. These numbers are where the guarantee ends: with eight, or with three
from mixed registers, TLC finds a behaviour in which `bnt_init` returns with a chip
unconfigured (all writes to a board and the reads that would tell are lost).
`ConfiguredAtReturn` therefore says how much loss the retry loop, which never
reports failure, absorbs. `CHECK_DEADLOCK FALSE`: the function returns.

**`tools`**: the miner has board 0, with chips at both polled ids, and board 1, with one chip; board 2 has no device
node, and a chip on board 3 is reached by tools only, and only by those that go on over the gap. Eleven command lines: `bnt_reset` of everything, of a board, of a
chip, and answered with "no"; `bnt_access` that scans, dumps, reads (also on the board that is not there), and writes SSR everywhere, IER of one
chip, and nothing. One of them starts at any moment of the `bnt_init` of two headers and may lose one transaction.
339,874 states; `reset_gap` is the same instance without a loss. The theorems of `BntToolsProofs` cover any number of tools one after the other; two tools at once are not
modelled. `CHECK_DEADLOCK FALSE`: the last header may be over and no tool running.

**`scan`**: four boards, each without chips, with one, two or four chips at polled ids,
with three chips, or with chips but no chip 0; every subset of device nodes; one lost
greeting; legal options with and without zeros. `SharesPartition` speaks of
systems put together as intended (`WellBuilt`): for these detection ends with a mask
under which the chips partition the nonces and are all polled. `CountedAreOpen` speaks of
all populations and all sets of device nodes: boards are opened that were not counted only behind a gap. `CHECK_DEADLOCK FALSE`: `main` goes on.

**`devtest`**: three chips, on board 0 at two polled ids and on board 2, with no device node for board 1;
two registers; no defect, or one cell that is stuck at 0, at 255 or at the last pattern; the command
lines `-b0 -n4` (the one of `debug/bash_aliases`), `-a -n4` and a single id. Six lost transactions are what it
takes to fail a healthy chip whose write arrived, so both sides of `NoFalseAlarm` occur. `CHECK_DEADLOCK
FALSE`: the tool ends.

**`mine`**: three headers, two boards with a chip each, `nchips` = 4. `WorkIds` = 3 leaves two ids besides 0, so the
third job reuses the id of the first. The mask is one with an eight-engine window, which has four values
here, and the reports are corrected by 3 and by 2, the first past zero. Hashes have five bytes, room for the three of a mantissa with
one on each side. The first header has a good nonce that a
chip may report, just below its target; the second has the one that a lost read of the registers stands for, and its target, whose mantissa begins with a zero byte, is below the hash that meets it; the third has none: the nonce
chips report for it hashes to 0, which is rejected. One
round more than the first; two lost transactions, so a chip can miss a reset and a request and
report under an old work id; both builds. `ComparesNumbers` checks `CompareLaw` on all
hashes of the bytes 0, 1, 128 and 255, with several contents behind the hash, against targets at and next to the
places where lengths and mantissas change, and `CorrectionPermutes` corrects all 32 raw nonces of each chip. 788,202 states. `CHECK_DEADLOCK FALSE`: the program ends.

**`noti`**: one miner and two runs of `bnt_setnoti`, so that a third writer can come between two that overlap; three texts, one longer, so that
a shorter text may leave the rest of a longer one behind it; four publications, one failure or kill.
`CHECK_DEADLOCK FALSE`: all publications may be over.

**`gpio`**: two lines, `-a` or `-b1`, configured, configured and polled, or disabled; lines are found exported
in three states, one of them an output of inverted polarity, or held by a kernel driver; three commands, so that a failed run is
followed by a repetition and by `-d`; three edges, so that a pin may rise before and again after its consuming read; one timeout of poll is
counted. 45,543 states. `CHECK_DEADLOCK FALSE`: the commands may be over, or poll waits.

### What the violated properties show

1. The retry loop of `bnt_init` compares `ssr & 0xFF00` with a value that has bit 2
   set, so it never finds equality: all six rewrites run whenever one is needed. It
   does no harm: it is why seven losses are absorbed. With the comparison repaired
   and nothing else, TLC finds four losses from uniform registers that leave a chip
   unconfigured, since a lost read then compares what was written with itself (2).
2. The verification of chip 0 of the first open board (the first read after the
   write) compares what was written with itself if the read fails.
3. Options are checked against 1, 2, 4 boards and 1 to 64 chips in powers of two,
   detected counts are not: three boards or chips give mask 0 (all chips search the
   same nonces), zero reads outside of the table.
4. `bnt_reset` without arguments says "All boards & chips to be reset" and breaks off at
   the first board that does not open: with device nodes 0, 1 and 3 board 3 is left as it is,
   without a message. `bnt_access` goes on in the same place. `ResetsAllWithoutGap` proves that
   such a gap is the only cause: without one, and without a loss, every board that opens is reset.
5. `bnt_devtest` reports pattern 00 as verified if no read succeeds: its buffer starts
   as zeros. `DefectiveFails` shows that a whole test is not fooled by this.

### What some properties leave out, and why

- `RepairsEarlierDamage` speaks of polled ids and of the bits `bnt_init` compares: a chip that is not polled is never read, and the
  reset flag is masked away, so a `bnt_reset` that overlaps the verification may leave
  a chip in reset. A chip changed after it was read stays so until the next header.
- `OldDamageIsGone` speaks of all chips, polled or not, and of the whole SSR, but starts later: at the last write of SSR to the
  board, in the `ssr` loop or in the retry loop. What a tool writes after that is found only if the chip is polled
  and has not been read yet, which is what `RepairsEarlierDamage` says.
- Without DEMO, `Solutions` are the nonces whose hash `Meets` the target of the header. For a target whose mantissa begins with a zero
  byte that is more than the nonces below the target: `AcceptedIsGood`, `NoMissedResult` and `MineContract` then
  say how far beyond it the host goes.
- `CorrectionPermutes` says that the correction confuses no two nonces and loses none. Whether the amounts, 2 and 3, are
  right depends on the chip's pipeline, which the repository does not describe.
- Nothing is said of the status that is published: after a time-out the DEMO build publishes "mined", in the code (its result
  is ignored) and in the model, and nothing but the name of the status says that it should not.
- The one nonce that solves a header and is never accepted, one
  that hashes to 0, is excepted in `NoMissedResult`, and giving up is always allowed by `MineContract`.
- `NoInterruptLost` holds although the read-modify-write has no lock, because the miner ORs in all its
  kinds and its write comes last; a bit a tool sets between the two is lost, which the code gives no
  promise about.
- `ShowsCurrent` cannot say of a register whose transfer was lost that what is shown is its own: `bnt_access` then prints zeros or the
  register before it, without a word. It says no more than that: nothing from another command, board or address gets into the table.
- `SharesPartition` leaves out zero counts, gaps of device nodes and unequal boards: for the first see finding 3, for gaps `CountedAreOpen`; what
  becomes of unequal boards (the chips of board 0 are counted for all) nothing promises.
- `BeginsWithLast` says no more than the beginning: two writers may leave the rest of a longer text behind a
  shorter one (`TornTakesTwo`), until the next one publishes alone.

### Fairness

`BntInit` and `BntMine` assume weak fairness of the program's own actions: it has one
thread, and its system calls return. Nothing is assumed of the chips (`Report`) or the user
(`Key`, `AnyKey`). Hence `AllJobsEnd` says the host gets through its headers although chips may stay silent
or report all the time, and promises nothing for a DEMO build that waits for a key.
`Termination` holds because the retry loop counts.

`BntTools` assumes weak fairness of the miner's steps and of the running tool's, each a process the
scheduler runs; that somebody starts a tool is not assumed. `WebNoti` assumes weak fairness of `Finish(w)` for
each writer: a publication begun goes on, unless the writer is killed; nobody need begin one or restart
a writer. `GpioIrq` assumes weak fairness of the program alone; pins and udev promise nothing.

## 4. The proofs

Each proof module shows `Spec => []IInv` for an inductive invariant `IInv`, one lemma per
action or group of actions, and takes its theorems from that. Nothing is assumed but the named assumptions on the
constants.

**`BntInitProofs`**, for every set of fitted chips, count, mask, starting registers and
any budget up to 7 and 2: `TypeCorrect`, `ReturnsConfigured` (`ConfiguredAtReturn`), `MeetsContract`
(`ImplementsContract`), `CleanRunReachesAll` (`CleanReturn`), `RetryHasReason` (`RetryMeansFault`), and `EndsInSteps`.
`ConfiguredAtReturn` is not inductive: it says nothing before the end. The argument counts
losses. A board that is not configured although its SSR write is over owes at least one loss
(that write); to get past a polled chip unnoticed costs further lost reads or, in the retry
loop, six lost writes with whatever is read in between. `IInv` is `TypeOK` with
`ControlInv` (where the counters stand at each program point), `BudgetInv` (losses stay in the budget),
`ResetBitInv` (the reset flag appears alone), `UniformInv` (after one broadcast the chips of a
board agree, so what chip 0 shows is what all hold), `LossInv` (a board that is not configured has cost
`Debt` losses at the current point), and `OpenInv` (only fitted boards are open). At the end `Debt` exceeds the
budget, so there is no such board. The refinement follows from the same invariant: past the reset phase each step
either leaves the set of configured boards alone or adds one board, as only `handle->ssr` is ever written.
`CleanRunReachesAll` rests on how far each broadcast loop has got while nothing was lost. `EndsInSteps` is what can be proved
here of `Termination`: every step makes `StepsLeft` smaller, which is a natural number up to `MaxSteps`, so no behaviour is
longer; what is left to fairness is that a step is taken at all. `UnreadFacts` counts the polled ids that are left, for each of
the six distances ids can have.

**`BntToolsProofs`**, for all chips, command lines, numbers of headers and tools, and losses of the tools:
`TypeCorrect`, `EarlierDamageRepaired` (`RepairsEarlierDamage`), `NoOldDamageLeft` (`OldDamageIsGone`), `InterruptsKept` (`NoInterruptLost`),
`ShowsWhatIsThere` (`ShowsCurrent`), `ResetsAllWithoutGap` (`AllBoardsReset`, where no device node is missing below another one). `Written` says a chip on a board that is through with
the `ssr` loop holds `handle->ssr` or a tool wrote it since: the retry loop, too, writes nothing else, and to the whole board. `Checked`
says every polled chip behind the miner's place in its loop has been read since the header began;
`Repaired` that a chip that has been read is right, or a tool wrote it since, or it is the one about to
be rewritten; `Listening` that boards behind the second half of `bnt_set_interrupt` have the miner's interrupts on, but for
chips a tool muted since; `Seen` that what was stored for a register is what it holds, unless it was
missed or changed, and `Buffered` that the buffer holds zeros or a register received for this table; `UpToGap` that a `bnt_reset` of everything that is over has reset the boards before the first without a device node, `Swept` which boards `bnt_reset` is through with. `InitEndsInSteps` bounds the steps the miner takes in one `bnt_init`
by `MinerSteps`, whatever tools do between them: a tool's step does not change `MinerLeft`, a step of the miner makes it smaller,
also where it finds a tool's damage and retries. `ToolEndsInSteps` bounds a tool's steps by `ToolSteps` in the same way.

**`BntMineProofs`**, for all headers, hashes, chips, numbers of jobs, work ids and losses: `TypeCorrect`, `AcceptsOnlyGood` (`AcceptedIsGood`),
`WorkIdSuffices` (`WorkIdTellsJobs`), `MissesNothing` (`NoMissedResult`), `ComparesAsNumbers` (`ComparesNumbers`), `CorrectionIsPermutation` (`CorrectionPermutes`, from the theorems of `NonceSpaceProofs`), `MiningMeetsContract`
(`ImplementsContract`) and `EndsInSteps`. `Tags` ties the work id a chip holds, and those of its reports, to
the age of the job they are of: within a cycle of ids an id tells the job, beyond it a chip must have missed
resets. `Passed` says what a poll that found nothing has seen of the chips behind it.
`ComparesLikeNumbers` proves `CompareLaw` for every hash of any length from 3 to 126 bytes, every target that `bnt_get_targetstr` can spell out and
whatever lies behind the hash. From it `ValidIsGood`: the test of the code, on compact numbers, accepts the solutions but those that hash
to 0; `AcceptsOnlyGood`, `MissesNothing` and the contract are stated with `Solutions`. `MiningMeetsContract` goes action by action
(`StepMaps`): polling is mining, an accepted result is `Find` by `AcceptedIsGood` in the next state, a time-out or a key `GiveUp`,
`Finish` appends one outcome. `EndsInSteps` bounds the steps of the program over all headers: a poll of a
chip costs two, a round one more, a header five more, and a report of a chip changes nothing of it, whenever it comes.

**`NonceSpaceProofs`** proves `SharesAreOwn` (the mask of the table leaves `<<board, chip>>` of all chips at
polled ids apart, for every legal pair of counts), `SharesCoverAll` (every nonce is in the share of one of these chips),
`CorrectionOneToOne` (no two reports are corrected to the same nonce) and `CorrectionReachesAll` (every nonce of a share is
what some report is corrected to), so the correction permutes each share, for every mask, both
builds and every window of more than three values (`MidSizeAssumption`); the smallest of the code has 2^12.

**`DevScanProofs`**, for all populations, device nodes, options and losses: `TypeCorrect`, `CountsAreOpen` (`CountedAreOpen`),
`DetectedSharesPartition` (`SharesPartition`, from `SharesAreOwn`). `Clean` says that in a scan without a loss the
count is that of the boards that answer before the first without a device node, while the open ones are all that answer; so the two differ only by boards behind it.

**`DevTestProofs`**, for all defects, command lines and losses: `TypeCorrect`, `DefectsAreFound` (`DefectiveFails`), `NoneLeftOut`
(`AllTested`), `VerifiedHolds` (`VerifiedIsHeld`), `FailedHasReason` (`NoFalseAlarm`). What `rbuf` holds is 0 or what a chip holds (`Gathered`); a
defective cell holds one value, so it cannot match both 255 and 165; `Covered` says which ids on the grid of the
options have been tested. `EndsInSteps`: a chip costs no more than its eight tests with six tries each, so the
tool ends within `MaxSteps` steps; no run asks that of it.

**`WebNotiProofs`**, for any processes, texts and failures: `TypeCorrect`, `BeginsWithLastWritten`, `TearsOnlyInCompany`,
`BlankHasReason`, `WebNotiImplementsPage` (`ImplementsPage`). `Alone` says that a writer without company
that has the file open finds it empty, and is the only one that has it open.

**`GpioIrqProofs`**, for up to four lines and any commands: `TypeCorrect`, `UsableIsConfigured` (`RetryWorks`), `DisableLeavesNone`
(`DisableCleans`), `ReportsWhatRose` (`ReportsExactly`). `Configured` says that a line whose value file is open has the right
attributes; `Watched`, the heart, that from its consuming read on a line's event is pending exactly if its pin has risen.

Only model-checked: the liveness properties (`Termination`, `AllJobsEnd`, `InitReturns`, `ToolEnds`, `EndsShown`,
`PollWakes`), since the prover has no rules for fairness (what there is of the first four without it is proved: `EndsInSteps` of `BntInitProofs`
and `BntMineProofs`, `InitEndsInSteps` and `ToolEndsInSteps` of `BntToolsProofs`), and the five properties that are violated. Every invariant and every refinement of the passing runs is stated by a
theorem. What SHA-256 or a recursive definition computes is proved nowhere.

## 5. Not modelled

- Message bytes and padding, usleep durations, printing and hexadecimal text: wording, layout and time that no property is about.
- SHA-256: OpenSSL's. Failing `fopen` and `bnt_get_midstate` of `bnt_getnonce` (each ends `main` at once), the first "Press any
  key" before the loop.
- `bnt_readnonce`, `bnt_gethash` and the printing of `bnt_devscan`: they print what the library returns; the library's part is in
  `BntMine` and `DevScan`.
- The SPI speed options, blocks of more than one register in `bnt_access`, and `bnt_gpioint -d -p` (it polls descriptor 0, the terminal).
- `bnt_pop_fifo`: marked deprecated and not called.
- `app/demo/ConsFunc.c`: console helpers of another SDK; `app/spidev_test.c`: the kernel's sample; `debug/`: one-shot
  programs and scripts that prepare test data; `dts/`: configuration data.

## 6. The plan

Done, in this order: `BntInit`, `BntConfigure`, `NonceSpace`, `DevScan`, `BntMine`, `DevTest`; then `Targets`, `BntTools`, `WebNoti` with
`StatusPage`, `GpioIrq`, and the proofs of every safety property of the passing runs; then `MineContract` and its refinement, `OldDamageIsGone`, `CorrectionPermutes`, what the
shares and the correction cover, and the bounds `EndsInSteps`, `InitEndsInSteps`, `ToolEndsInSteps`. Left, in the order of what it would tell:

1. Tools beside the polling loop: `bnt_reset` or `bnt_devtest` while `bnt_getnonce` polls, in `BntMine`. A reset takes work from a chip, which
   the round count survives; `NoMissedResult` would have to except what a tool wiped.
2. A miner that loses transactions while tools run: the loss budget of `BntInitProofs` together with `late` of `BntTools`.
3. `bnt_devtest` with a miner on the bus, a try of reading split into its registers; two tools at once.

------------------------------- MODULE BntMine -------------------------------
(***************************************************************************)
(* The mining loop of main (app/bnt_getnonce.c) and bnt_getnonce            *)
(* (api/bnt_api.c): for every block header the chips are initialised and    *)
(* given the work by a broadcast, then polled round after round until one   *)
(* of them holds a nonce that the host finds good, or time is up.  The      *)
(* chips report whenever they like, also from work of an earlier job whose  *)
(* reset or request they did not get.  bnt_init is used by its contract,    *)
(* BntConfigure: all boards are configured, some may not be flushed.        *)
(***************************************************************************)
EXTENDS NonceSpace, Targets, FiniteSets, Sequences

CONSTANTS Open,        \* boards with an SPI device
          NChips,      \* handle.nchips
          Mask,        \* handle.mask
          Fitted,      \* <<board, id>> of the chips
          NJobs,       \* block headers in the input file
          HeaderNonce, \* the nonce each header comes with
          DoubleHash,  \* what SHA-256 makes of each header with each nonce
          Target,      \* bits of each header
          Past,        \* what lies behind hashoutswap on the stack
          Reports,     \* [mid, low] of the nonces a chip may report
          WorkIds,     \* number of values of bhash.workid
          Rounds,      \* THRESHOLD_GET_NONCE_COUNT / number of chips
          Builds,      \* values of the build flag DEMO
          MaxLost,     \* lost transactions
          Samples      \* hashes, what lies behind them, and targets to compare

ASSUME OpenAssumption == Open \subseteq Boards
ASSUME MaskAssumption == Mask \in 0 .. 255
ASSUME FittedAssumption == Fitted \subseteq Open \X ChipIds
ASSUME CountAssumption ==
    /\ NJobs \in Nat /\ Rounds \in Nat /\ MaxLost \in Nat
    /\ WorkIds \in Nat /\ WorkIds > 2
ASSUME BuildsAssumption == Builds \subseteq BOOLEAN
ASSUME ReportsAssumption ==
    Reports \subseteq [mid : 0 .. MidSize - 1, low : 0 .. LowSize(Mask) - 1]

Nonces == RawNonces(Mask, (0 .. 3) \X ChipIds)

ASSUME HeaderAssumption ==
    /\ HeaderNonce \in [1 .. NJobs -> Nonces]
    /\ \A j \in 1 .. NJobs : /\ DOMAIN DoubleHash[j] = Nonces
                            /\ \A n \in Nonces : DoubleHash[j][n] \in Hashes
    /\ Past \in [1 .. 4 -> Bytes]

ASSUME TargetAssumption ==
    \A j \in 1 .. NJobs : Target[j] \in Compacts /\ Fits(Target[j])
ASSUME SamplesAssumption ==
    \A s \in Samples : /\ s.hash \in Hashes /\ s.past \in [1 .. 4 -> Bytes]
                       /\ s.target \in Compacts /\ Fits(s.target)

ESC == 27
KeyP == 112
Timedout == -1

Zero == [share |-> <<0, 0>>, mid |-> 0, low |-> 0]
NoWork == [job |-> 0, workid |-> 0]
NoResult == [job |-> 0, workid |-> 0, nonceout |-> Zero]

\* Mutant: every other polled id is left out.
ToPoll_SkipsChips ==
    {k \in Open \X Polled(NChips) : k[2] % (2 * IdStep(NChips)) = 0}

\* What bnt_getnonce polls in a round: board by board, id by id.
ToPoll == Open \X Polled(NChips)

First(S) == CHOOSE k \in S :
              \A l \in S : k[1] < l[1] \/ (k[1] = l[1] /\ k[2] <= l[2])

VARIABLES work,    \* what each chip is searching for: NoWork, or job and workid
          mrr,     \* its result registers: NoResult, or work and nonce
          demo,    \* built with DEMO
          pc, job, workid,
          nonce,   \* bhash.bh.nonce
          todo,    \* chips still to be polled in this round
          round,   \* count of bnt_getnonce
          ret,     \* its result
          results, \* ret of every job that is over
          status,  \* last status published for the web page (DEMO)
          lost,    \* transactions lost so far
          unreset, \* history: resets in a row that missed each board
          late,    \* history: chips that reported since this round began
          unheard  \* history: chips whose reads were lost in this round

chips   == <<work, mrr>>
history == <<unreset, late, unheard>>
vars    == <<work, mrr, demo, pc, job, workid, nonce, todo, round, ret, results,
             status, lost, unreset, late, unheard>>

Init ==
    /\ work = [k \in Fitted |-> NoWork] /\ mrr = [k \in Fitted |-> NoResult]
    /\ demo \in Builds
    /\ pc = "read" /\ job = 0 /\ workid = 0 /\ nonce = Zero
    /\ todo = {} /\ round = 0 /\ ret = 0
    /\ results = <<>> /\ status = "ready"
    /\ lost = 0
    /\ unreset = [b \in Open |-> 0] /\ late = {} /\ unheard = {}

Lose(n) == lost + n <= MaxLost /\ lost' = lost + n

-----------------------------------------------------------------------------
\* A chip reports a nonce of its share for the work it has, over an older one.
Report(k) ==
    /\ work[k] # NoWork
    /\ \E r \in Reports :
         mrr' = [mrr EXCEPT ![k] =
                   [job |-> work[k].job, workid |-> work[k].workid,
                    nonceout |-> [share |-> ShareOf(k[1], k[2], Mask),
                                  mid |-> r.mid, low |-> r.low]]]
    /\ late' = late \cup {k}
    /\ UNCHANGED <<work, demo, pc, job, workid, nonce, todo, round, ret, results,
                   status, lost, unreset, unheard>>

\* fread of the next header.
ReadHeader ==
    /\ pc = "read" /\ job < NJobs
    /\ pc' = "init"
    /\ job' = job + 1
    /\ nonce' = HeaderNonce[job + 1]
    /\ UNCHANGED <<chips, demo, workid, todo, round, ret, results, status, lost,
                   history>>

EndOfFile ==
    /\ pc = "read" /\ job = NJobs
    /\ pc' = "end"
    /\ status' = "ready"
    /\ UNCHANGED <<chips, demo, job, workid, nonce, todo, round, ret, results,
                   lost, history>>

\* bnt_init: the boards in missed did not get the reset; the other chips drop
\* their work and their results.
Initialise ==
    /\ pc = "init"
    /\ \E missed \in SUBSET Open :
         /\ Lose(Cardinality(missed))
         /\ work' = [k \in Fitted |-> IF k[1] \in missed THEN work[k] ELSE NoWork]
         /\ mrr'  = [k \in Fitted |-> IF k[1] \in missed THEN mrr[k] ELSE NoResult]
         /\ unreset' = [b \in Open |-> IF b \in missed THEN unreset[b] + 1 ELSE 0]
    /\ pc' = "request"
    /\ ret' = 0
    /\ UNCHANGED <<demo, job, workid, nonce, todo, round, results, status, late,
                   unheard>>

\* Mutant: 0 is not left out.
NextWorkId_WithZero(w) == (w + 1) % WorkIds

\* Mutant: the work id never wraps.
NextWorkId_NoWrap(w) == w + 1

\* bhash.workid++ == 0xFF ? bhash.workid++ : bhash.workid
NextWorkId(w) == IF w = WorkIds - 1 THEN 1 ELSE w + 1

\* A new work id, "mining" on the web page, bnt_request_hash to every board.
\* The broadcasts are one step: what chips do in between they could as well do
\* before or after.
Request ==
    /\ pc = "request"
    /\ workid' = NextWorkId(workid)
    /\ status' = IF demo THEN "mining" ELSE status
    /\ \E missed \in SUBSET Open :
         /\ Lose(Cardinality(missed))
         /\ work' = [k \in Fitted |->
                       IF k[1] \in missed THEN work[k]
                       ELSE [job |-> job, workid |-> workid']]
    /\ pc' = "poll" /\ todo' = ToPoll /\ round' = 0
    /\ late' = {} /\ unheard' = {}
    /\ UNCHANGED <<mrr, demo, job, nonce, ret, results, unreset>>

Registers(k) == IF k \in Fitted THEN mrr[k] ELSE NoResult

NextChip == pc' = "poll" /\ todo' = todo \ {First(todo)}

\* bnt_read_workid: when the read is lost its buffer is uninitialised.
PollWorkId ==
    /\ pc = "poll" /\ todo # {}
    /\ \E seen \in 0 .. WorkIds - 1 :
         /\ \/ seen = Registers(First(todo)).workid /\ UNCHANGED <<lost, unheard>>
            \/ Lose(1) /\ unheard' = unheard \cup {First(todo)}
         /\ \/ seen # workid /\ NextChip
            \/ seen = workid /\ pc' = "mrr" /\ UNCHANGED todo
    /\ UNCHANGED <<chips, demo, job, workid, nonce, round, ret, results, status,
                   unreset, late>>

\* Mutant: what a chip reports is taken for good.
Valid_Trusting(r, j) == TRUE

\* bnt_test_validnonce_out hashes the header with the corrected nonce and
\* compares compact numbers; bnt_test_validnonce (DEMO) looks for the nonce the
\* header came with.
Valid(r, j) ==
    LET real == bnt_get_realnonce(r, Mask)
        hashoutswap == bnt_swap_byte(DoubleHash[j][real])
    IN IF demo THEN real = HeaderNonce[j]
       ELSE Below(bnt_get_bits(hashoutswap, Past), Target[j])

\* bnt_read_mrr and the test.  A lost read leaves the work id that was read
\* and a nonce of zero; a result of another work id is passed over.
PollResult ==
    /\ pc = "mrr"
    /\ \E m \in {Registers(First(todo)), [NoResult EXCEPT !.workid = workid]} :
         /\ \/ m = Registers(First(todo)) /\ UNCHANGED <<lost, unheard>>
            \/ /\ m = [NoResult EXCEPT !.workid = workid]
               /\ Lose(1) /\ unheard' = unheard \cup {First(todo)}
         /\ \/ /\ m.workid # workid
               /\ NextChip /\ UNCHANGED <<nonce, ret>>
            \/ /\ m.workid = workid /\ ~Valid(m.nonceout, job)
               /\ nonce' = IF demo THEN nonce
                           ELSE bnt_get_realnonce(m.nonceout, Mask)
               /\ NextChip /\ UNCHANGED ret
            \/ /\ m.workid = workid /\ Valid(m.nonceout, job)
               /\ nonce' = IF demo THEN nonce
                           ELSE bnt_get_realnonce(m.nonceout, Mask)
               /\ ret' = 0 /\ pc' = "report" /\ UNCHANGED todo
    /\ UNCHANGED <<chips, demo, job, workid, round, results, status, unreset,
                   late>>

\* All chips polled: a key (DEMO) or the last round ends bnt_getnonce.
Key ==
    /\ pc = "poll" /\ todo = {} /\ demo
    /\ ret' \in {ESC, KeyP}
    /\ pc' = "report"
    /\ UNCHANGED <<chips, demo, job, workid, nonce, todo, round, results, status,
                   lost, history>>

\* Mutant: the round counter is not advanced.
NextRound_Uncounted ==
    /\ pc = "poll" /\ todo = {} /\ round < Rounds
    /\ todo' = ToPoll
    /\ late' = {} /\ unheard' = {}
    /\ UNCHANGED <<chips, demo, pc, job, workid, nonce, round, ret, results,
                   status, lost, unreset>>

NextRound ==
    /\ pc = "poll" /\ todo = {} /\ round < Rounds
    /\ round' = round + 1
    /\ todo' = ToPoll
    /\ late' = {} /\ unheard' = {}
    /\ UNCHANGED <<chips, demo, pc, job, workid, nonce, ret, results, status,
                   lost, unreset>>

\* Mutant: the result is not set.
TimeUp_NoResult ==
    /\ pc = "poll" /\ todo = {} /\ round >= Rounds
    /\ pc' = "report"
    /\ UNCHANGED <<chips, demo, job, workid, nonce, todo, round, ret, results,
                   status, lost, history>>

TimeUp ==
    /\ pc = "poll" /\ todo = {} /\ round >= Rounds
    /\ ret' = Timedout
    /\ pc' = "report"
    /\ UNCHANGED <<chips, demo, job, workid, nonce, todo, round, results, status,
                   lost, history>>

\* main after bnt_getnonce: the next header; in DEMO a status first, and the
\* end of the program after ESC.
Finish ==
    /\ pc = "report"
    /\ results' = Append(results, ret)
    /\ \/ ~demo /\ pc' = "read" /\ UNCHANGED status
       \/ demo /\ ret = ESC /\ pc' = "end" /\ status' = "ready"
       \/ demo /\ ret = KeyP /\ pc' = "paused" /\ status' = "ready"
       \/ demo /\ ret \notin {ESC, KeyP} /\ pc' = "shown" /\ status' = "mined"
    /\ UNCHANGED <<chips, demo, job, workid, nonce, todo, round, ret, lost, history>>

\* Ten seconds after "mined".
Shown ==
    /\ pc = "shown"
    /\ pc' = "read" /\ status' = "ready"
    /\ UNCHANGED <<chips, demo, job, workid, nonce, todo, round, ret, results,
                   lost, history>>

\* "Press any key to continue..."
AnyKey ==
    /\ pc = "paused"
    /\ pc' = "read"
    /\ UNCHANGED <<chips, demo, job, workid, nonce, todo, round, ret, results,
                   status, lost, history>>

Program == \/ ReadHeader \/ EndOfFile \/ Initialise \/ Request
           \/ PollWorkId \/ PollResult \/ NextRound \/ TimeUp \/ Finish \/ Shown
User == Key \/ AnyKey

Next == Program \/ User \/ \E k \in Fitted : Report(k)

\* The program takes a step while it can: its reads, writes and sleeps return.
\* Nobody promises that a chip reports or that somebody presses a key.
Spec == Init /\ [][Next]_vars /\ WF_vars(Program)

-----------------------------------------------------------------------------
Works   == [job : 0 .. NJobs, workid : 0 .. WorkIds - 1]
Results == [job : 0 .. NJobs, workid : 0 .. WorkIds - 1, nonceout : Nonces]

TypeOK ==
    /\ work \in [Fitted -> Works] /\ mrr \in [Fitted -> Results]
    /\ demo \in Builds
    /\ pc \in {"read", "init", "request", "poll", "mrr", "report", "paused",
               "shown", "end"}
    /\ job \in 0 .. NJobs /\ workid \in 0 .. WorkIds - 1
    /\ nonce \in Nonces
    /\ todo \subseteq ToPoll /\ round \in 0 .. Rounds
    /\ ret \in {0, Timedout, ESC, KeyP}
    /\ results \in Seq({0, Timedout, ESC, KeyP})
    /\ status \in {"ready", "mining", "mined"}
    /\ lost \in 0 .. MaxLost
    /\ unreset \in [Open -> 0 .. MaxLost]
    /\ late \subseteq Fitted /\ unheard \subseteq ToPoll

\* The hash, as a number, meets the target: it is below it, or below the power of
\* 256 above a target whose mantissa begins with a zero byte.
Good(n, j) ==
    Meets([i \in 1 .. HashLen |-> DoubleHash[j][n][HashLen + 1 - i]], Target[j])

\* The nonces the host is to find for a header, by build: the one it comes with,
\* or those with a good hash.
Solutions ==
    [d \in BOOLEAN |-> [j \in 1 .. NJobs |->
        IF d THEN {HeaderNonce[j]} ELSE {n \in Nonces : Good(n, j)}]]

\* A nonce is accepted only if it is good for the header of the job, although
\* lost reads, reports of an earlier job and stale work ids reach the test, and
\* the test compares compact numbers.
AcceptedIsGood ==
    pc = "report" /\ ret = 0 => nonce \in Solutions[demo][job]

\* Time is up only if no chip with a result that solves the header was passed
\* over: one that holds one now reported it in the last round, or could not be
\* read.  (A hash of 0 meets every target, and is rejected.)
NoMissedResult ==
    pc = "report" /\ ret = Timedout =>
        \A k \in Fitted :
            LET real == bnt_get_realnonce(mrr[k].nonceout, Mask) IN
            /\ k[2] \in Polled(NChips)
            /\ mrr[k].job = job
            /\ real \in Solutions[demo][job]
            /\ demo \/ ~IsZero(DoubleHash[job][real])
            => k \in late \cup unheard

\* The work id tells the jobs apart: a chip's result that passes for one of
\* this job is of this job, unless the resets of all the jobs since the same
\* work id was used last did not reach the chip.
WorkIdTellsJobs ==
    \A k \in Fitted :
        pc \in {"poll", "mrr"} /\ mrr[k].workid = workid
          /\ unreset[k[1]] < WorkIds - 1 => mrr[k].job = job

\* Every header of the file is worked on and the program ends, whatever chips
\* do; in DEMO it may wait for a key forever.
AllJobsEnd == <>(demo \/ (pc = "end" /\ Len(results) = NJobs))

\* Steps the program may still take, whatever chips report: two for each chip
\* that is still to be polled, in all the rounds and for all the headers left.
RoundSteps == 2 * Cardinality(ToPoll) + 1
JobSteps   == (Rounds + 1) * RoundSteps + 5
PollSteps  == (Rounds - round) * RoundSteps + 2 * Cardinality(todo)
StepsLeft  ==
    IF pc = "end" THEN 0
    ELSE (NJobs - job) * JobSteps +
         CASE pc = "read"                -> 1
           [] pc \in {"shown", "paused"} -> 2
           [] pc = "report"              -> 3
           [] pc = "mrr"                 -> 3 + PollSteps
           [] pc = "poll"                -> 4 + PollSteps
           [] pc = "request"             -> JobSteps - 1
           [] pc = "init"                -> JobSteps
MaxSteps == NJobs * JobSteps + 1

\* Before the first job: whether a hash meets a target is decided as CompareLaw
\* says, whatever lies behind the hash; on compact numbers the host decides as
\* on the numbers.
ComparesNumbers ==
    pc = "init" /\ job = 1 =>
        \A s \in Samples : CompareLaw(s.hash, s.past, s.target)

\* Before the first job: the correction of a reported nonce loses none and makes
\* none up.  Every nonce a chip is to search is the correction of one raw nonce of
\* the same chip, and of one only: none is reported twice, for itself and in place
\* of another that then is never tested.
CorrectionPermutes ==
    pc = "init" /\ job = 1 =>
        \A k \in Fitted :
            LET raws == RawNonces(Mask, {ShareOf(k[1], k[2], Mask)})
            IN \A n \in raws : \E r \in raws :
                   /\ bnt_get_realnonce(r, Mask) = n
                   /\ \A q \in raws : bnt_get_realnonce(q, Mask) = n => q = r

Contract == INSTANCE MineContract WITH
    Headers  <- NJobs,
    build    <- demo,
    phase    <- CASE pc \in {"read", "shown", "paused"}           -> "ready"
                  [] pc \in {"init", "request", "poll", "mrr"}    -> "mining"
                  [] pc = "report" -> IF ret = 0 THEN "found" ELSE "given up"
                  [] pc = "end"                                   -> "ended",
    header   <- job,
    NoAnswer <- Zero,
    answer   <- IF pc = "report" /\ ret = 0 THEN nonce ELSE Zero,
    outcomes <- [i \in DOMAIN results |-> results[i] = 0]

\* The headers of the file are worked on in order, each with one outcome, and
\* only solutions are given out: see MineContract.
ImplementsContract == Contract!MSpec
=============================================================================

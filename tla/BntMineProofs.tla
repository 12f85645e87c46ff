--------------------------- MODULE BntMineProofs ---------------------------
(***************************************************************************)
(* The mining loop, for any chips, headers, targets, number of rounds, work *)
(* ids and lost transactions: type correctness, the safety invariants of    *)
(* BntMine, its contract MineContract, and a bound on the steps it takes.   *)
(*                                                                          *)
(* What tells jobs apart is the age of the work a chip has.  Since the work *)
(* ids run from 1 to WorkIds - 1 and around, a job's age, as long as it is  *)
(* below WorkIds - 1, decides its work id; and it is bounded by the resets  *)
(* in a row the chip's board has missed.                                    *)
(***************************************************************************)
EXTENDS BntMine, NonceSpaceProofs, FiniteSetTheorems, WellFoundedInduction

-----------------------------------------------------------------------------
(* The comparison of a hash with a target by their compact numbers, for     *)
(* hashes of any length, any target bnt_get_targetstr can write, and        *)
(* whatever lies behind the hash.                                           *)

Behind == [1 .. 4 -> Bytes]

\* A set of natural numbers has a least element.
LEMMA Least ==
    ASSUME NEW S, S \subseteq Nat, S # {}
    PROVE  \E i \in S : \A j \in S : i <= j
<1>1. \E i \in S : \A j \in S : ~ (<<j, i>> \in OpToRel(<, Nat))
  BY NatLessThanWellFounded, WFMin
<1>2. \A i, j \in Nat : <<j, i>> \in OpToRel(<, Nat) <=> j < i
  BY DEF OpToRel
<1>3. PICK i \in S : \A j \in S : ~ (<<j, i>> \in OpToRel(<, Nat))
  BY <1>1
<1>4. \A j \in S : ~ (j < i)
  BY <1>2, <1>3
<1>5. \A j \in S : i <= j
  BY <1>4, SMT
<1> QED BY <1>5

\* The loop of bnt_get_bits stops at the first byte that is not 0.
LEMMA StopsAtFirst ==
    ASSUME NEW hash \in Hashes, NEW past \in Behind, ~IsZero(hash)
    PROVE  LET z == ZeroBytes(hash, past) IN
           /\ z \in 0 .. HashLen - 1
           /\ hash[z + 1] # 0
           /\ \A i \in 1 .. z : hash[i] = 0
<1> DEFINE Found == {i \in 0 .. HashLen : ByteAt(hash, past, i) # 0}
<1> USE HashLenAssumption
<1>1. PICK k \in 1 .. HashLen : hash[k] # 0
  BY DEF IsZero
<1>2. k - 1 \in Found /\ k - 1 < HashLen
  BY <1>1, SMT DEF ByteAt
<1>3. \E i \in Found : \A j \in Found : i <= j
  <2>1. Found \subseteq Nat /\ Found # {}
    BY <1>2, SMT
  <2> HIDE DEF Found
  <2> QED BY <2>1, Least
<1>4. ZeroBytes(hash, past) \in Found /\ \A j \in Found : ZeroBytes(hash, past) <= j
  BY <1>2, <1>3, Zenon DEF ZeroBytes
<1>5. ZeroBytes(hash, past) \in 0 .. HashLen - 1
  BY <1>2, <1>4, SMT
<1>6. hash[ZeroBytes(hash, past) + 1] # 0
  BY <1>4, <1>5, SMT DEF ByteAt
<1>7. ASSUME NEW i \in 1 .. ZeroBytes(hash, past) PROVE hash[i] = 0
  <2>1. i - 1 \in 0 .. HashLen /\ i - 1 < HashLen /\ i - 1 + 1 = i
    BY <1>5, SMT
  <2>2. i - 1 \notin Found
    BY <1>4, <1>5, SMT
  <2> QED BY <2>1, <2>2 DEF ByteAt
<1> QED BY <1>5, <1>6, <1>7

\* The bytes of a target: zeros, the three bytes of the mantissa, zeros.
LEMMA TargetBytes ==
    ASSUME NEW t \in Compacts, Fits(t), NEW i \in 1 .. HashLen, NEW p, p = HashLen - t.exp
    PROVE  /\ bnt_get_targetstr(t)[i] \in Bytes
           /\ i <= p \/ i > p + 3 => bnt_get_targetstr(t)[i] = 0
           /\ \A k \in 1 .. 3 : i = p + k => bnt_get_targetstr(t)[i] = t.mant[k]
<1> USE HashLenAssumption
<1>1. p \in Int
  BY SMT DEF Fits
<1>2. \A k \in 1 .. 3 : t.mant[k] \in Bytes
  BY DEF Compacts
<1>3. bnt_get_targetstr(t)[i] = IF i - p \in 1 .. 3 THEN t.mant[i - p] ELSE 0
  BY Zenon DEF bnt_get_targetstr
<1>4. i - p \notin 1 .. 3 => bnt_get_targetstr(t)[i] = 0
  BY <1>3
<1>5. \A k \in 1 .. 3 : i = p + k => bnt_get_targetstr(t)[i] = t.mant[k]
  <2> TAKE k \in 1 .. 3
  <2> HAVE i = p + k
  <2>1. i - p = k
    BY <1>1, SMT
  <2> QED BY <1>3, <2>1
<1>6. /\ i <= p \/ i > p + 3 => i - p \notin 1 .. 3
      /\ i - p \in 1 .. 3 => \E k \in 1 .. 3 : i = p + k
  BY <1>1, SMT
<1>7. 0 \in Bytes
  BY SMT DEF Bytes
<1> QED BY <1>2, <1>4, <1>5, <1>6, <1>7

\* An exponent below 0, as the top byte has it.
LEMMA Wraps ==
    ASSUME NEW x \in Int, x < 0, -256 <= x
    PROVE  x % 256 = x + 256
<1>1. \A M \in Nat \ {0} : -M <= x => x % M = x + M
  BY SMT
<1> QED BY <1>1, SMT

\* Where a hash is 0 the error value, or what a byte behind it makes of it, has
\* an exponent above that of any target.
LEMMA ZeroRejected ==
    ASSUME NEW hash \in Hashes, NEW past \in Behind, IsZero(hash),
           NEW t \in Compacts, Fits(t)
    PROVE  ~ Below(bnt_get_bits(hash, past), t)
<1> DEFINE Found == {i \in 0 .. HashLen : ByteAt(hash, past, i) # 0}
<1> USE HashLenAssumption
<1>1. \A i \in 0 .. HashLen - 1 : ByteAt(hash, past, i) = 0
  BY SMT DEF IsZero, ByteAt
<1>2. Found \subseteq {HashLen}
  BY <1>1, SMT
<1>3. ZeroBytes(hash, past) \in {HashLen, HashLen + 1}
  <2>1. CASE Found = {}
    BY <2>1 DEF ZeroBytes
  <2>2. CASE Found = {HashLen}
    BY <2>2, SMT DEF ZeroBytes
  <2> QED BY <1>2, <2>1, <2>2
<1>4. bnt_get_bits(hash, past).exp > HashLen
  <2>1. CASE ZeroBytes(hash, past) = HashLen
    BY <2>1, SMT DEF bnt_get_bits
  <2>2. CASE ZeroBytes(hash, past) = HashLen + 1
    <3>1. /\ HashLen - (HashLen + 1) \in Int
          /\ HashLen - (HashLen + 1) < 0 /\ -256 <= HashLen - (HashLen + 1)
          /\ HashLen - (HashLen + 1) + 256 = 255
      BY SMT
    <3>2. (HashLen - (HashLen + 1)) % 256 = 255
      BY <3>1, Wraps
    <3>3. bnt_get_bits(hash, past).exp = 255
      BY <2>2, <3>2, SMT DEF bnt_get_bits
    <3> QED BY <3>3, SMT
  <2> QED BY <1>3, <2>1, <2>2
<1>5. bnt_get_bits(hash, past).exp \in Int
  <2>1. CASE ZeroBytes(hash, past) = HashLen
    BY <2>1, SMT DEF bnt_get_bits
  <2>2. CASE ZeroBytes(hash, past) = HashLen + 1
    BY <2>2, SMT DEF bnt_get_bits
  <2> QED BY <1>3, <2>1, <2>2
<1>6. t.exp \in 3 .. HashLen
  BY DEF Fits
<1> QED BY <1>4, <1>5, <1>6, SMT DEF Below

\* What bnt_get_bits makes of a hash other than 0: the number of its bytes from
\* the first that is not 0 on, and three bytes from there.
LEMMA BitsShape ==
    ASSUME NEW hash \in Hashes, NEW past \in Behind, ~IsZero(hash)
    PROVE  LET z == ZeroBytes(hash, past) IN
           /\ bnt_get_bits(hash, past).exp = HashLen - z
           /\ bnt_get_bits(hash, past).mant = [k \in 1 .. 3 |-> ByteAt(hash, past, z + k - 1)]
<1> DEFINE z == ZeroBytes(hash, past)
<1> USE HashLenAssumption
<1>1. z \in 0 .. HashLen - 1
  BY StopsAtFirst
<1> HIDE DEF z
<1>2. z # HashLen /\ (HashLen - z) % 256 = HashLen - z
  BY <1>1, SMT
<1>3. bnt_get_bits(hash, past) =
        [exp  |-> (HashLen - z) % 256,
         mant |-> [k \in 1 .. 3 |-> ByteAt(hash, past, z + k - 1)]]
  BY <1>2 DEF bnt_get_bits, z
<1> QED BY <1>2, <1>3 DEF z

\* The test of the host decides as the numbers do, except that it rejects the
\* hash 0 and takes a target whose mantissa begins with a zero byte for the
\* power of 256 above it; what lies behind the hash does not matter.
THEOREM ComparesLikeNumbers ==
    ASSUME NEW hash \in Hashes, NEW past \in Behind, NEW t \in Compacts, Fits(t)
    PROVE  CompareLaw(hash, past, t)
<1> USE HashLenAssumption
<1>1. CASE IsZero(hash)
  BY <1>1, ZeroRejected DEF CompareLaw
<1>2. CASE ~IsZero(hash)
  <2> DEFINE z == ZeroBytes(hash, past)
             bits == bnt_get_bits(hash, past)
             str == bnt_get_targetstr(t)
             p == HashLen - t.exp
  <2>1. /\ z \in 0 .. HashLen - 1
        /\ hash[z + 1] # 0
        /\ \A i \in 1 .. z : hash[i] = 0
    BY <1>2, StopsAtFirst
  <2>2. /\ bits.exp = HashLen - z
        /\ bits.mant = [k \in 1 .. 3 |-> ByteAt(hash, past, z + k - 1)]
    BY <1>2, BitsShape
  <2>3. \A k \in 1 .. 3 : t.mant[k] \in Bytes
    BY DEF Compacts
  <2>4. \A i \in 1 .. HashLen :
          /\ str[i] \in Bytes
          /\ i <= p \/ i > p + 3 => str[i] = 0
          /\ \A k \in 1 .. 3 : i = p + k => str[i] = t.mant[k]
    BY TargetBytes
  <2>5. \A i \in 1 .. HashLen : hash[i] \in Bytes
    BY DEF Hashes
  <2>6. t.exp \in 3 .. HashLen /\ p \in 0 .. HashLen - 3
    BY SMT DEF Fits
  <2>7. Short(hash, t.exp - 1) <=> \A i \in 1 .. p + 1 : hash[i] = 0
    BY <2>6, SMT DEF Short
  <2>8. DOMAIN hash = 1 .. HashLen /\ DOMAIN bits.mant = 1 .. 3
    BY <2>2 DEF Hashes
  <2> SUFFICES Below(bits, t) <=> \/ Less(hash, str)
                                  \/ ~Normal(t) /\ Short(hash, t.exp - 1)
    BY <1>2 DEF CompareLaw, Meets
  <2> HIDE DEF z, bits, str, p
  <2>9. CASE z > p
    <3>1. Below(bits, t)
      BY <2>1, <2>2, <2>6, <2>9, SMT DEF Below, p
    <3>2. \A i \in 1 .. p + 1 : hash[i] = 0
      BY <2>1, <2>6, <2>9, SMT
    <3>3. CASE Normal(t)
      <4>1. p + 1 \in 1 .. HashLen /\ 1 \in 1 .. 3 /\ p + 1 \in 1 .. p + 1
        BY <2>6, SMT
      <4>2. str[p + 1] = t.mant[1] /\ hash[p + 1] = 0
        BY <2>4, <3>2, <4>1
      <4>3. hash[p + 1] < str[p + 1]
        BY <2>3, <3>3, <4>1, <4>2, SMT DEF Bytes, Normal
      <4>4. \A j \in 1 .. (p + 1) - 1 : hash[j] = str[j]
        BY <2>4, <2>6, <3>2, SMT
      <4> QED BY <2>8, <3>1, <4>1, <4>3, <4>4 DEF Less
    <3>4. CASE ~Normal(t)
      BY <2>7, <3>1, <3>2, <3>4
    <3> QED BY <3>3, <3>4
  <2>10. CASE z = p
    <3>1. \A k \in 1 .. 3 :
            p + k \in 1 .. HashLen /\ bits.mant[k] = hash[p + k] /\ str[p + k] = t.mant[k]
      <4> TAKE k \in 1 .. 3
      <4>1. p + k \in 1 .. HashLen /\ z + k - 1 < HashLen /\ z + k - 1 + 1 = p + k
        BY <2>6, <2>10, SMT
      <4>2. bits.mant[k] = ByteAt(hash, past, z + k - 1)
        BY <2>2
      <4> QED BY <2>4, <4>1, <4>2 DEF ByteAt
    <3>2. Below(bits, t) <=> Less(bits.mant, t.mant)
      <4>1. bits.exp = t.exp /\ ~ (bits.exp < t.exp)
        BY <2>2, <2>6, <2>10, SMT DEF p
      <4> QED BY <4>1 DEF Below
    <3>3. \A j \in 1 .. p : hash[j] = str[j] /\ str[j] = 0
      BY <2>1, <2>4, <2>6, <2>10, SMT
    <3>4. ASSUME NEW k \in 1 .. 3, bits.mant[k] < t.mant[k],
                 \A j \in 1 .. k - 1 : bits.mant[j] = t.mant[j]
          PROVE  Less(hash, str)
      <4>1. p + k \in 1 .. HashLen /\ hash[p + k] < str[p + k]
        BY <3>1, <3>4
      <4>2. ASSUME NEW j \in 1 .. (p + k) - 1 PROVE hash[j] = str[j]
        <5>1. CASE j <= p
          BY <2>6, <3>3, <5>1, SMT
        <5>2. CASE j > p
          <6>1. j - p \in 1 .. 3 /\ j - p \in 1 .. k - 1 /\ p + (j - p) = j
            BY <2>6, <5>2, SMT
          <6> QED BY <3>1, <3>4, <6>1
        <5> QED BY <2>6, <5>1, <5>2, SMT
      <4> QED BY <2>8, <4>1, <4>2 DEF Less
    <3>5. ASSUME NEW i \in 1 .. HashLen, hash[i] < str[i],
                 \A j \in 1 .. i - 1 : hash[j] = str[j]
          PROVE  Less(bits.mant, t.mant)
      <4>1. i > p
        BY <2>5, <2>6, <3>3, <3>5, SMT DEF Bytes
      <4>2. i <= p + 3
        BY <2>4, <2>5, <2>6, <3>5, SMT DEF Bytes
      <4>3. PICK k \in 1 .. 3 : i = p + k
        <5>1. i - p \in 1 .. 3 /\ i = p + (i - p)
          BY <2>6, <4>1, <4>2, SMT
        <5> QED BY <5>1
      <4>4. bits.mant[k] < t.mant[k]
        BY <3>1, <3>5, <4>3
      <4>5. ASSUME NEW j \in 1 .. k - 1 PROVE bits.mant[j] = t.mant[j]
        <5>1. j \in 1 .. 3 /\ p + j \in 1 .. i - 1
          BY <2>6, <4>3, SMT
        <5> QED BY <3>1, <3>5, <5>1
      <4> QED BY <2>8, <4>4, <4>5 DEF Less
    <3>6. Less(bits.mant, t.mant) <=> Less(hash, str)
      BY <2>8, <3>4, <3>5 DEF Less
    <3>7. ~ Short(hash, t.exp - 1)
      BY <2>1, <2>6, <2>7, <2>10, SMT
    <3> QED BY <3>2, <3>6, <3>7
  <2>11. CASE z < p
    <3>1. ~ Below(bits, t)
      BY <2>1, <2>2, <2>6, <2>11, SMT DEF Below, p
    <3>2. z + 1 \in 1 .. HashLen /\ z + 1 \in 1 .. p + 1 /\ z + 1 <= p
      BY <2>1, <2>6, <2>11, SMT
    <3>3. ~ Short(hash, t.exp - 1)
      BY <2>1, <2>7, <3>2
    <3>4. ASSUME NEW i \in 1 .. HashLen, hash[i] < str[i],
                 \A j \in 1 .. i - 1 : hash[j] = str[j]
          PROVE  FALSE
      <4>1. \A j \in 1 .. z + 1 : str[j] = 0
        BY <2>4, <2>6, <3>2, SMT
      <4>2. i > z + 1
        BY <2>1, <2>5, <3>2, <3>4, <4>1, SMT DEF Bytes
      <4>3. z + 1 \in 1 .. i - 1
        BY <2>1, <4>2, SMT
      <4> QED BY <2>1, <3>2, <3>4, <4>1, <4>3, SMT
    <3> QED BY <2>8, <3>1, <3>3, <3>4 DEF Less
  <2> QED BY <2>1, <2>6, <2>9, <2>10, <2>11, SMT
<1> QED BY <1>1, <1>2

-----------------------------------------------------------------------------
\* The last job whose work id is in workid, and the last with a reset.
Base  == IF pc \in {"init", "request"} THEN job - 1 ELSE job
Reset == IF pc = "init" THEN job - 1 ELSE job

\* x holds no work, or that of a job at most u resets old with the work id of
\* that job, where workid w is that of job base.
Tag(x, base, reset, w, u) ==
    \/ x.job = 0 /\ x.workid = 0
    \/ /\ x.job \in 1 .. base
       /\ reset - x.job <= u
       /\ base - x.job < WorkIds - 1 =>
            x.workid = IF w > base - x.job THEN w - (base - x.job)
                       ELSE w - (base - x.job) + (WorkIds - 1)

Tags ==
    \A k \in Fitted : /\ Tag(work[k], Base, Reset, workid, unreset[k[1]])
                      /\ Tag(mrr[k], Base, Reset, workid, unreset[k[1]])

\* There is a job, with a work id, where one is worked on; a chip where one is
\* polled.
Shape ==
    /\ pc \in {"init", "request", "poll", "mrr", "report"} => job \in 1 .. NJobs
    /\ Base > 0 => workid > 0
    /\ pc = "mrr" => todo # {}
    /\ pc = "report" /\ ret = Timedout => todo = {}
    /\ \A b \in Open : unreset[b] <= lost
    /\ demo /\ job > 0 => nonce = HeaderNonce[job]

\* The chips polled in this round.
Passed ==
    pc \in {"poll", "mrr"} \/ (pc = "report" /\ ret = Timedout) =>
        \A k \in Fitted :
            /\ k \in ToPoll \ todo
            /\ mrr[k].job = job
            /\ Valid(mrr[k].nonceout, job)
            => k \in late \cup unheard

IInv == TypeOK /\ Shape /\ Tags /\ AcceptedIsGood /\ Passed

-----------------------------------------------------------------------------
(* Numbers of jobs and work ids.                                            *)

LEMMA NextWorkIdRange ==
    ASSUME NEW w \in 0 .. WorkIds - 1
    PROVE  NextWorkId(w) \in 1 .. WorkIds - 1
  BY CountAssumption DEF NextWorkId

\* The next job's work id: everything is one job older.
LEMMA TagAges ==
    ASSUME NEW x, x.job \in Nat, x.workid \in Nat, NEW base \in Nat, NEW r \in Nat,
           NEW u \in Nat, NEW w \in 0 .. WorkIds - 1, base > 0 => w > 0,
           Tag(x, base, r, w, u)
    PROVE  Tag(x, base + 1, r, NextWorkId(w), u)
<1> DEFINE age == base - x.job
<1>1. CASE x.job = 0 /\ x.workid = 0
  BY <1>1 DEF Tag
<1>2. CASE /\ x.job \in 1 .. base /\ r - x.job <= u
           /\ age < WorkIds - 1 =>
                x.workid = IF w > age THEN w - age ELSE w - age + (WorkIds - 1)
  <2>1. age \in Nat /\ base + 1 - x.job = age + 1 /\ w > 0 /\ WorkIds \in Nat
    BY <1>2, CountAssumption
  <2> HIDE DEF age
  <2>2. ASSUME age + 1 < WorkIds - 1
        PROVE  x.workid = IF NextWorkId(w) > age + 1 THEN NextWorkId(w) - (age + 1)
                          ELSE NextWorkId(w) - (age + 1) + (WorkIds - 1)
    <3>1. age < WorkIds - 1
      BY <2>1, <2>2
    <3>2. x.workid = IF w > age THEN w - age ELSE w - age + (WorkIds - 1)
      BY <1>2, <3>1
    <3>3. CASE w = WorkIds - 1
      BY <2>1, <2>2, <3>1, <3>2, <3>3 DEF NextWorkId
    <3>4. CASE w # WorkIds - 1
      BY <2>1, <2>2, <3>1, <3>2, <3>4 DEF NextWorkId
    <3> QED BY <3>3, <3>4
  <2>3. x.job \in 1 .. base + 1
    BY <1>2
  <2> QED BY <1>2, <2>1, <2>2, <2>3 DEF Tag
<1> QED BY <1>1, <1>2 DEF Tag

\* The work of the job itself.
LEMMA TagNew ==
    ASSUME NEW j \in Nat \ {0}, NEW w \in 1 .. WorkIds - 1, NEW u \in Nat
    PROVE  Tag([job |-> j, workid |-> w], j, j, w, u)
  BY CountAssumption DEF Tag

\* What has the work id of the job and missed few resets is of the job.
LEMMA TagOwn ==
    ASSUME NEW x, x.job \in Nat, NEW j \in Nat, NEW w \in 1 .. WorkIds - 1,
           NEW u \in Nat, u < WorkIds - 1,
           Tag(x, j, j, w, u), x.workid = w
    PROVE  x.job = j
  BY CountAssumption DEF Tag

\* What is of the job has its work id.
LEMMA TagSame ==
    ASSUME NEW x, NEW j \in Nat \ {0}, NEW w \in 1 .. WorkIds - 1, NEW u \in Nat,
           Tag(x, j, j, w, u), x.job = j
    PROVE  x.workid = w
  BY CountAssumption DEF Tag

-----------------------------------------------------------------------------
(* Types of what the program computes.                                      *)

LEMMA Remainder ==
    ASSUME NEW x \in Nat, NEW n \in Nat \ {0}
    PROVE  x % n \in 0 .. n - 1 /\ x % n <= x
  OBVIOUS

LEMMA ShareRange ==
    ASSUME NEW b \in 0 .. 3, NEW c \in 0 .. 63
    PROVE  ShareOf(b, c, Mask) \in (0 .. 3) \X (0 .. 63)
<1> DEFINE d == (Mask \div 64) + 1
           m == 64 - (Mask % 64)
<1>1. d \in 1 .. 4 /\ m \in 1 .. 64
  BY MaskAssumption
<1> HIDE DEF d, m
<1>2. b % d \in 0 .. d - 1 /\ c % m \in 0 .. m - 1 /\ c % m <= c
  <2>1. b \in Nat /\ c \in Nat /\ d \in Nat \ {0} /\ m \in Nat \ {0}
    BY <1>1
  <2> QED BY <2>1, Remainder, Zenon
<1> DEFINE x == b % d
           y == c % m
<1>3. x \in 0 .. d - 1 /\ y \in 0 .. m - 1 /\ y <= c
  BY <1>2
<1>4. ShareOf(b, c, Mask) = <<x, c - y>>
  BY DEF ShareOf, d, m
<1> HIDE DEF x, y
<1>5. x \in 0 .. 3 /\ c - y \in 0 .. 63
  BY <1>1, <1>3
<1> QED BY <1>4, <1>5

LEMMA SharesAreShares ==
    ASSUME NEW k \in Fitted
    PROVE  ShareOf(k[1], k[2], Mask) \in (0 .. 3) \X ChipIds
<1>1. k[1] \in Open /\ k[2] \in ChipIds
  BY FittedAssumption
<1>3. ChipIds = 0 .. 63 /\ Boards = 0 .. 3
  BY DEF Boards, ChipIds, MAX_NBOARDS, MAX_NCHIPS_PER_BOARD
<1>2. k[1] \in 0 .. 3 /\ k[2] \in 0 .. 63
  BY <1>1, <1>3, OpenAssumption
<1> QED BY <1>2, <1>3, ShareRange

LEMMA ZeroIsNonce == Zero \in Nonces
  BY MidSizeAssumption DEF Zero, Nonces, RawNonces, LowSize, ChipIds, MAX_NCHIPS_PER_BOARD

LEMMA RealNonces ==
    ASSUME NEW r \in Nonces
    PROVE  bnt_get_realnonce(r, Mask) \in Nonces
<1> DEFINE ahead == IF EightEngines(Mask) THEN Offset(r) ELSE 1
           mid == (r.mid - ahead) % MidSize
<1>1. ahead \in 1 .. 3
  BY OffsetRange
<1> HIDE DEF ahead
<1>2. r.mid \in Int
  BY MidSizeAssumption DEF Nonces, RawNonces
<1>3. mid \in 0 .. MidSize - 1
  BY <1>1, <1>2, MidSizeAssumption
<1>4. bnt_get_realnonce(r, Mask) = r \/ bnt_get_realnonce(r, Mask) = [r EXCEPT !.mid = mid]
  BY DEF bnt_get_realnonce, ahead
<1> HIDE DEF mid
<1>5. [r EXCEPT !.mid = mid] \in Nonces
  BY <1>3 DEF Nonces, RawNonces
<1> QED BY <1>4, <1>5

LEMMA RegistersType ==
    ASSUME TypeOK, NEW k
    PROVE  Registers(k) \in Results
  BY ZeroIsNonce, CountAssumption DEF TypeOK, Registers, NoResult, Results

\* A set of chips to be polled has a first one.
LEMMA FirstIsIn ==
    ASSUME NEW S, S \subseteq ToPoll, S # {}
    PROVE  First(S) \in S
<1>0. \A k \in S : k[1] \in Open /\ k[2] \in ChipIds
  BY DEF ToPoll, Polled
<1>1. \A k \in S : k[1] \in Nat /\ k[2] \in Nat
  <2>1. Boards \subseteq Nat /\ ChipIds \subseteq Nat
    BY DEF Boards, ChipIds, MAX_NBOARDS, MAX_NCHIPS_PER_BOARD
  <2> QED BY <1>0, <2>1, OpenAssumption
<1> DEFINE B == {k[1] : k \in S}
<1>2. PICK b \in B : \A a \in B : b <= a
  <2>1. B \subseteq Nat /\ B # {}
    BY <1>1
  <2> HIDE DEF B
  <2> QED BY <2>1, Least
<1> DEFINE C == {k[2] : k \in {l \in S : l[1] = b}}
<1>3. PICK c \in C : \A a \in C : c <= a
  <2>1. C \subseteq Nat /\ C # {}
    BY <1>1, <1>2
  <2> HIDE DEF C
  <2> QED BY <2>1, Least
<1>4. PICK k \in S : k[1] = b /\ k[2] = c
  BY <1>3
<1>5. \A l \in S : k[1] < l[1] \/ (k[1] = l[1] /\ k[2] <= l[2])
  <2> TAKE l \in S
  <2>1. b <= l[1]
    BY <1>2
  <2>2. CASE l[1] = b
    <3>1. l[2] \in C
      BY <2>2
    <3> QED BY <1>3, <1>4, <2>2, <3>1
  <2>3. CASE l[1] # b
    BY <1>1, <1>4, <2>1, <2>3
  <2> QED BY <2>2, <2>3
<1> QED BY <1>4, <1>5 DEF First

\* Transactions lost with several boards are counted for each of them.
LEMMA LoseCounts ==
    ASSUME TypeOK, NEW missed \in SUBSET Open, Lose(Cardinality(missed))
    PROVE  /\ lost' \in 0 .. MaxLost /\ lost <= lost'
           /\ \A b \in missed : lost + 1 <= lost'
<1>1. IsFiniteSet(0 .. 3)
  <2>1. 0 \in Int /\ 3 \in Int
    OBVIOUS
  <2> QED BY <2>1, FS_Interval
<1>2. missed \in SUBSET (0 .. 3)
  BY OpenAssumption DEF Boards, MAX_NBOARDS
<1>3. IsFiniteSet(missed)
  BY <1>1, <1>2, FS_Subset
<1> DEFINE n == Cardinality(missed)
<1>4. n \in Nat
  BY <1>3, FS_CardinalityType
<1>5. missed # {} => n # 0
  BY <1>3, FS_EmptySet
<1> HIDE DEF n
<1>6. lost + n <= MaxLost /\ lost' = lost + n
  BY DEF Lose, n
<1>7. lost \in 0 .. MaxLost /\ MaxLost \in Nat
  BY CountAssumption DEF TypeOK
<1> QED BY <1>4, <1>5, <1>6, <1>7

\* What solves a header.
LEMMA SolutionsAt ==
    ASSUME NEW j \in 1 .. NJobs, demo \in BOOLEAN
    PROVE  Solutions[demo][j] =
             IF demo THEN {HeaderNonce[j]} ELSE {n \in Nonces : Good(n, j)}
  BY DEF Solutions

\* A nonce passes the test on compact numbers if it is good, and its hash is not
\* the 0 that the test rejects, and in no other case.
LEMMA ValidIsGood ==
    ASSUME NEW j \in 1 .. NJobs, NEW r \in Nonces, demo \in BOOLEAN
    PROVE  LET real == bnt_get_realnonce(r, Mask) IN
           Valid(r, j) <=> /\ real \in Solutions[demo][j]
                           /\ demo \/ ~IsZero(DoubleHash[j][real])
<1> DEFINE real == bnt_get_realnonce(r, Mask)
           hash == bnt_swap_byte(DoubleHash[j][real])
<1>1. real \in Nonces
  BY RealNonces
<1>a. Valid(r, j) <=> IF demo THEN real = HeaderNonce[j]
                      ELSE Below(bnt_get_bits(hash, Past), Target[j])
  BY DEF Valid
<1> HIDE DEF real
<1>2. DoubleHash[j][real] \in Hashes
  BY <1>1, HeaderAssumption
<1>3. hash \in Hashes
  BY <1>2, HashLenAssumption DEF bnt_swap_byte, Hashes
<1>5. Target[j] \in Compacts /\ Fits(Target[j])
  BY TargetAssumption
<1>6. Past \in Behind
  BY HeaderAssumption DEF Behind
<1>7. Good(real, j) <=> Meets(hash, Target[j])
  BY DEF Good, bnt_swap_byte
<1>b. IsZero(hash) <=> IsZero(DoubleHash[j][real])
  <2> DEFINE digest == DoubleHash[j][real]
  <2>1. \A i \in 1 .. HashLen : /\ HashLen + 1 - i \in 1 .. HashLen
                               /\ HashLen + 1 - (HashLen + 1 - i) = i
    BY HashLenAssumption
  <2>2. \A i \in 1 .. HashLen : hash[i] = digest[HashLen + 1 - i]
    BY DEF bnt_swap_byte
  <2> HIDE DEF digest, hash
  <2>3. IsZero(hash) <=> IsZero(digest)
    BY <2>1, <2>2 DEF IsZero
  <2> QED BY <2>3 DEF digest
<1> HIDE DEF hash
<1>8. CompareLaw(hash, Past, Target[j])
  BY <1>3, <1>5, <1>6, ComparesLikeNumbers
<1>9. Below(bnt_get_bits(hash, Past), Target[j])
        <=> Meets(hash, Target[j]) /\ ~IsZero(hash)
  BY <1>8 DEF CompareLaw
<1>10. real \in Solutions[demo][j] <=> IF demo THEN real = HeaderNonce[j] ELSE Good(real, j)
  BY <1>1, SolutionsAt
<1>11. Valid(r, j) <=> /\ real \in Solutions[demo][j]
                       /\ demo \/ ~IsZero(DoubleHash[j][real])
  BY <1>a, <1>7, <1>b, <1>9, <1>10
<1> QED BY <1>11 DEF real

-----------------------------------------------------------------------------
LEMMA InitInvariant == Init => IInv
<1> SUFFICES ASSUME Init PROVE IInv
  OBVIOUS
<1>1. Zero \in Nonces
  BY ZeroIsNonce
<1>2. NoWork \in Works /\ NoResult \in Results
  BY <1>1, CountAssumption DEF NoWork, NoResult, Works, Results
<1>3. TypeOK
  <2>1. work \in [Fitted -> Works] /\ mrr \in [Fitted -> Results]
    BY <1>2 DEF Init
  <2>2. /\ job \in 0 .. NJobs /\ workid \in 0 .. WorkIds - 1 /\ round \in 0 .. Rounds
        /\ lost \in 0 .. MaxLost /\ unreset \in [Open -> 0 .. MaxLost]
    BY CountAssumption DEF Init
  <2>3. results \in Seq({0, Timedout, ESC, KeyP})
    BY DEF Init
  <2> QED BY <1>1, <2>1, <2>2, <2>3 DEF Init, TypeOK
<1>4. Tags
  BY DEF Init, Tags, Tag, NoWork, NoResult
<1>5. Shape
  BY DEF Init, Shape, Base
<1> QED BY <1>3, <1>4, <1>5 DEF Init, IInv, AcceptedIsGood, Passed

-----------------------------------------------------------------------------
(* One lemma for each action.                                               *)

LEMMA ReportInvariant ==
    ASSUME IInv, NEW k \in Fitted, Report(k) PROVE IInv'
<1> PICK r \in Reports :
        mrr' = [mrr EXCEPT ![k] =
                   [job |-> work[k].job, workid |-> work[k].workid,
                    nonceout |-> [share |-> ShareOf(k[1], k[2], Mask),
                                  mid |-> r.mid, low |-> r.low]]]
  BY DEF Report
<1>1. /\ late' = late \cup {k}
      /\ UNCHANGED <<work, demo, pc, job, workid, nonce, todo, round, ret, results,
                   status, lost, unreset, unheard>>
  BY DEF Report
<1> DEFINE n == [share |-> ShareOf(k[1], k[2], Mask), mid |-> r.mid, low |-> r.low]
<1>2. n \in Nonces
  BY SharesAreShares, ReportsAssumption DEF Nonces, RawNonces
<1> HIDE DEF n
<1>3. mrr' = [mrr EXCEPT ![k] = [job |-> work[k].job, workid |-> work[k].workid,
                                 nonceout |-> n]]
  BY DEF n
<1>4. TypeOK
  BY DEF IInv
<1>5. mrr' \in [Fitted -> Results]
  <2>1. work[k] \in Works
    BY <1>4 DEF TypeOK
  <2>2. [job |-> work[k].job, workid |-> work[k].workid, nonceout |-> n] \in Results
    BY <1>2, <2>1 DEF Works, Results
  <2> QED BY <1>3, <1>4, <2>2 DEF TypeOK
<1>6. TypeOK'
  BY <1>1, <1>4, <1>5 DEF TypeOK
<1>7. Shape' /\ AcceptedIsGood'
  BY <1>1 DEF IInv, Shape, AcceptedIsGood, Base
<1>8. \A l \in Fitted \ {k} : mrr'[l] = mrr[l]
  BY <1>3, <1>4 DEF TypeOK
<1>9. mrr'[k].job = work[k].job /\ mrr'[k].workid = work[k].workid
  BY <1>3, <1>4 DEF TypeOK
<1>10. Tags'
  <2>1. Base' = Base /\ Reset' = Reset
    BY <1>1 DEF Base, Reset
  <2>2. \A l \in Fitted : Tag(mrr'[l], Base, Reset, workid, unreset[l[1]])
    <3>1. Tag(mrr'[k], Base, Reset, workid, unreset[k[1]])
      BY <1>9 DEF IInv, Tags, Tag
    <3> QED BY <1>8, <3>1 DEF IInv, Tags
  <2> QED BY <1>1, <2>1, <2>2 DEF IInv, Tags
<1>11. Passed'
  BY <1>1, <1>8 DEF IInv, Passed, Valid
<1> QED BY <1>6, <1>7, <1>10, <1>11 DEF IInv

LEMMA ReadHeaderInvariant == ASSUME IInv, ReadHeader PROVE IInv'
<1>1. /\ pc = "read" /\ pc' = "init" /\ job < NJobs /\ job' = job + 1
      /\ nonce' = HeaderNonce[job + 1]
      /\ UNCHANGED <<work, mrr, demo, workid, todo, round, ret, results, status, lost,
                     unreset, late, unheard>>
  BY DEF ReadHeader, chips, history
<1>2. job \in 0 .. NJobs /\ NJobs \in Nat
  BY CountAssumption DEF IInv, TypeOK
<1>3. job' \in 1 .. NJobs /\ HeaderNonce[job'] \in Nonces
  BY <1>1, <1>2, HeaderAssumption
<1>4. TypeOK'
  BY <1>1, <1>2, <1>3 DEF IInv, TypeOK
<1>5. Base' = Base /\ Reset' = Reset
  BY <1>1, <1>2 DEF Base, Reset
<1>6. Shape' /\ Tags'
  BY <1>1, <1>3, <1>5 DEF IInv, Shape, Tags
<1> QED BY <1>1, <1>4, <1>6 DEF IInv, AcceptedIsGood, Passed

LEMMA InitialiseInvariant == ASSUME IInv, Initialise PROVE IInv'
<1> PICK missed \in SUBSET Open :
         /\ Lose(Cardinality(missed))
         /\ work' = [k \in Fitted |-> IF k[1] \in missed THEN work[k] ELSE NoWork]
         /\ mrr'  = [k \in Fitted |-> IF k[1] \in missed THEN mrr[k] ELSE NoResult]
         /\ unreset' = [b \in Open |-> IF b \in missed THEN unreset[b] + 1 ELSE 0]
  BY DEF Initialise
<1>1. /\ pc = "init" /\ pc' = "request" /\ ret' = 0
      /\ UNCHANGED <<demo, job, workid, nonce, todo, round, results, status, late,
                   unheard>>
  BY DEF Initialise
<1>2. TypeOK /\ job \in 1 .. NJobs
  BY <1>1 DEF IInv, Shape
<1>3. /\ lost' \in 0 .. MaxLost /\ lost <= lost'
      /\ \A b \in missed : lost + 1 <= lost'
  BY <1>2, LoseCounts
<1>4. /\ unreset' \in [Open -> 0 .. MaxLost]
      /\ \A b \in Open : unreset'[b] <= lost'
  <2> SUFFICES \A b \in Open : unreset'[b] \in 0 .. MaxLost /\ unreset'[b] <= lost'
    OBVIOUS
  <2> TAKE b \in Open
  <2>1. unreset[b] \in 0 .. MaxLost /\ unreset[b] <= lost /\ lost \in 0 .. MaxLost
        /\ MaxLost \in Nat
    BY <1>2, CountAssumption DEF IInv, Shape, TypeOK
  <2>2. unreset'[b] = IF b \in missed THEN unreset[b] + 1 ELSE 0
    OBVIOUS
  <2> QED BY <1>3, <2>1, <2>2
<1>5. TypeOK'
  <2>1. NoWork \in Works /\ NoResult \in Results
    BY ZeroIsNonce, CountAssumption DEF NoWork, NoResult, Works, Results
  <2>2. work' \in [Fitted -> Works] /\ mrr' \in [Fitted -> Results]
    BY <1>2, <2>1 DEF TypeOK
  <2> QED BY <1>1, <1>2, <1>3, <1>4, <2>2 DEF TypeOK
<1>6. Base' = Base /\ Base = job - 1 /\ Reset = job - 1 /\ Reset' = job
  BY <1>1 DEF Base, Reset
<1>7. Shape'
  BY <1>1, <1>2, <1>4, <1>6 DEF IInv, Shape
<1>8. Tags'
  <2> SUFFICES ASSUME NEW k \in Fitted
               PROVE  /\ Tag(work'[k], job - 1, job, workid, unreset'[k[1]])
                      /\ Tag(mrr'[k], job - 1, job, workid, unreset'[k[1]])
    BY <1>1, <1>6 DEF Tags
  <2>1. k[1] \in Open
    BY FittedAssumption
  <2>2. CASE k[1] \in missed
    <3>1. work'[k] = work[k] /\ mrr'[k] = mrr[k] /\ unreset'[k[1]] = unreset[k[1]] + 1
      BY <2>1, <2>2
    <3>2. /\ Tag(work[k], job - 1, job - 1, workid, unreset[k[1]])
          /\ Tag(mrr[k], job - 1, job - 1, workid, unreset[k[1]])
      BY <1>6 DEF IInv, Tags
    <3>3. work[k].job \in Nat /\ mrr[k].job \in Nat /\ unreset[k[1]] \in Nat /\ job \in Nat
      BY <1>2, <2>1 DEF TypeOK, Works, Results
    <3> QED BY <3>1, <3>2, <3>3 DEF Tag
  <2>3. CASE k[1] \notin missed
    <3>1. work'[k] = NoWork /\ mrr'[k] = NoResult
      BY <2>3
    <3> QED BY <3>1 DEF Tag, NoWork, NoResult
  <2> QED BY <2>2, <2>3
<1> QED BY <1>1, <1>5, <1>7, <1>8 DEF IInv, AcceptedIsGood, Passed

LEMMA RequestInvariant == ASSUME IInv, Request PROVE IInv'
<1> PICK missed \in SUBSET Open :
         /\ Lose(Cardinality(missed))
         /\ work' = [k \in Fitted |->
                       IF k[1] \in missed THEN work[k]
                       ELSE [job |-> job, workid |-> workid']]
  BY DEF Request
<1>1. /\ pc = "request" /\ pc' = "poll" /\ workid' = NextWorkId(workid)
      /\ status' = (IF demo THEN "mining" ELSE status)
      /\ todo' = ToPoll /\ round' = 0 /\ late' = {} /\ unheard' = {}
      /\ UNCHANGED <<mrr, demo, job, nonce, ret, results, unreset>>
  BY DEF Request
<1>2. TypeOK /\ job \in 1 .. NJobs /\ job \in Nat \ {0}
  BY <1>1, CountAssumption DEF IInv, Shape
<1>3. lost' \in 0 .. MaxLost /\ lost <= lost'
  BY <1>2, LoseCounts
<1>4. workid \in 0 .. WorkIds - 1 /\ workid' \in 1 .. WorkIds - 1
  BY <1>1, <1>2, NextWorkIdRange DEF TypeOK
<1>5. TypeOK'
  <2>1. [job |-> job, workid |-> workid'] \in Works
    BY <1>2, <1>4, CountAssumption DEF TypeOK, Works
  <2>2. work' \in [Fitted -> Works]
    BY <1>2, <2>1 DEF TypeOK
  <2>3. workid' \in 0 .. WorkIds - 1 /\ round' \in 0 .. Rounds
    BY <1>1, <1>4, CountAssumption
  <2>4. status' \in {"ready", "mining", "mined"}
    BY <1>1, <1>2 DEF TypeOK
  <2> QED BY <1>1, <1>2, <1>3, <2>2, <2>3, <2>4 DEF TypeOK
<1>6. Base = job - 1 /\ Reset = job /\ Base' = job /\ Reset' = job
  BY <1>1 DEF Base, Reset
<1>7. Shape'
  <2>1. \A b \in Open : unreset[b] <= lost'
    <3> TAKE b \in Open
    <3>1. unreset[b] \in Int /\ lost \in Int /\ lost' \in Int /\ unreset[b] <= lost
      BY <1>2, <1>3 DEF TypeOK, IInv, Shape
    <3> QED BY <1>3, <3>1
  <2> QED BY <1>1, <1>2, <1>4, <2>1 DEF IInv, Shape
<1>8. Tags'
  <2> SUFFICES ASSUME NEW k \in Fitted
               PROVE  /\ Tag(work'[k], job, job, workid', unreset[k[1]])
                      /\ Tag(mrr[k], job, job, workid', unreset[k[1]])
    BY <1>1, <1>6 DEF Tags
  <2>1. /\ work[k].job \in Nat /\ work[k].workid \in Nat /\ mrr[k].job \in Nat
        /\ mrr[k].workid \in Nat
    BY <1>2, CountAssumption DEF TypeOK, Works, Results
  <2>2. unreset[k[1]] \in Nat
    BY <1>2, FittedAssumption DEF TypeOK
  <2>3. /\ Tag(work[k], job - 1, job, workid, unreset[k[1]])
        /\ Tag(mrr[k], job - 1, job, workid, unreset[k[1]])
    BY <1>6 DEF IInv, Tags
  <2>4. job - 1 \in Nat /\ job - 1 + 1 = job /\ (job - 1 > 0 => workid > 0)
    BY <1>2, <1>6 DEF IInv, Shape
  <2> DEFINE base == job - 1
  <2> HIDE DEF base
  <2>5. /\ Tag(work[k], base + 1, job, workid', unreset[k[1]])
        /\ Tag(mrr[k], base + 1, job, workid', unreset[k[1]])
    BY <1>1, <1>2, <1>4, <2>1, <2>2, <2>3, <2>4, TagAges DEF base
  <2>6. Tag([job |-> job, workid |-> workid'], job, job, workid', unreset[k[1]])
    BY <1>2, <1>4, <2>2, TagNew
  <2> QED BY <2>4, <2>5, <2>6 DEF base
<1> QED BY <1>1, <1>5, <1>7, <1>8 DEF IInv, AcceptedIsGood, Passed

\* In a round: nothing but the polled chips and what could not be read changes.
LEMMA PollKeeps ==
    ASSUME IInv, pc \in {"poll", "mrr", "report"}, pc' \in {"poll", "mrr", "report"},
           UNCHANGED <<work, mrr, job, workid, unreset>>
    PROVE  Tags'
  BY DEF IInv, Tags, Base, Reset

\* The chip passed over is in late or in unheard if it has a valid result.
LEMMA PassedOver ==
    ASSUME IInv, pc \in {"poll", "mrr"}, pc' \in {"poll", "mrr"},
           UNCHANGED <<work, mrr, demo, job, late>>,
           todo' = todo \ {First(todo)}, unheard \subseteq unheard',
           \/ First(todo) \in unheard'
           \/ Registers(First(todo)).workid # workid
           \/ ~Valid(Registers(First(todo)).nonceout, job)
    PROVE  Passed'
<1> SUFFICES ASSUME NEW k \in Fitted, k \in ToPoll \ todo', mrr[k].job = job,
                    Valid(mrr[k].nonceout, job)
             PROVE  k \in late \cup unheard'
  BY DEF Passed, Valid
<1>1. CASE k # First(todo)
  BY <1>1 DEF IInv, Passed
<1>2. CASE k = First(todo)
  <2>1. Registers(k) = mrr[k]
    BY DEF Registers
  <2>2. mrr[k].workid = workid
    <3>1. job \in Nat \ {0} /\ Base = job /\ Reset = job
      BY CountAssumption DEF IInv, Shape, Base, Reset
    <3>2. workid \in 1 .. WorkIds - 1
      BY <3>1, CountAssumption DEF IInv, Shape, TypeOK
    <3>3. unreset[k[1]] \in Nat
      BY FittedAssumption DEF IInv, TypeOK
    <3>4. Tag(mrr[k], job, job, workid, unreset[k[1]])
      BY <3>1 DEF IInv, Tags
    <3> QED BY <3>1, <3>2, <3>3, <3>4, TagSame
  <2> QED BY <1>2, <2>1, <2>2
<1> QED BY <1>1, <1>2

\* Counting one lost transaction.
LEMMA LoseOne ==
    ASSUME TypeOK, Shape, lost' = lost \/ Lose(1)
    PROVE  /\ lost' \in 0 .. MaxLost
           /\ \A b \in Open : unreset[b] <= lost'
<1>1. lost \in 0 .. MaxLost /\ MaxLost \in Nat
  BY CountAssumption DEF TypeOK
<1>2. lost' \in 0 .. MaxLost /\ lost <= lost'
  BY <1>1 DEF Lose
<1>3. \A b \in Open : unreset[b] \in Int /\ unreset[b] <= lost
  BY DEF TypeOK, Shape
<1> QED BY <1>1, <1>2, <1>3

LEMMA PollWorkIdInvariant == ASSUME IInv, PollWorkId PROVE IInv'
<1> PICK seen \in 0 .. WorkIds - 1 :
         /\ \/ seen = Registers(First(todo)).workid /\ UNCHANGED <<lost, unheard>>
            \/ Lose(1) /\ unheard' = unheard \cup {First(todo)}
         /\ \/ seen # workid /\ NextChip
            \/ seen = workid /\ pc' = "mrr" /\ UNCHANGED todo
  BY DEF PollWorkId
<1>1. /\ pc = "poll" /\ todo # {}
      /\ UNCHANGED <<work, mrr, demo, job, workid, nonce, round, ret, results, status,
                     unreset, late>>
  BY DEF PollWorkId, chips
<1>2. TypeOK /\ Shape
  BY DEF IInv
<1>3. First(todo) \in ToPoll
  BY <1>1, <1>2, FirstIsIn DEF TypeOK
<1>4. lost' \in 0 .. MaxLost /\ \A b \in Open : unreset[b] <= lost'
  BY <1>2, LoseOne
<1>5. pc' \in {"poll", "mrr"} /\ todo' \subseteq todo /\ (pc' = "mrr" => todo' # {})
  BY <1>1 DEF NextChip
<1>6. TypeOK'
  BY <1>1, <1>2, <1>3, <1>4, <1>5 DEF TypeOK
<1>7. Shape'
  BY <1>1, <1>2, <1>4, <1>5 DEF Shape, Base
<1>8. Tags'
  BY <1>1, <1>5, PollKeeps
<1>9. Passed'
  <2>1. CASE seen # workid /\ NextChip
    <3>1. First(todo) \in unheard' \/ Registers(First(todo)).workid # workid
      BY <2>1
    <3>2. unheard \subseteq unheard'
      OBVIOUS
    <3> QED BY <1>1, <1>5, <2>1, <3>1, <3>2, PassedOver DEF NextChip
  <2>2. CASE pc' = "mrr" /\ UNCHANGED todo
    BY <1>1, <2>2 DEF IInv, Passed, Valid
  <2> QED BY <2>1, <2>2
<1> QED BY <1>5, <1>6, <1>7, <1>8, <1>9 DEF IInv, AcceptedIsGood

LEMMA PollResultInvariant == ASSUME IInv, PollResult PROVE IInv'
<1> PICK m \in {Registers(First(todo)), [NoResult EXCEPT !.workid = workid]} :
         /\ \/ m = Registers(First(todo)) /\ UNCHANGED <<lost, unheard>>
            \/ /\ m = [NoResult EXCEPT !.workid = workid]
               /\ Lose(1) /\ unheard' = unheard \cup {First(todo)}
         /\ \/ /\ m.workid # workid
               /\ NextChip /\ UNCHANGED <<nonce, ret>>
            \/ /\ m.workid = workid /\ ~Valid(m.nonceout, job)
               /\ nonce' = IF demo THEN nonce
                           ELSE bnt_get_realnonce(m.nonceout, Mask)
               /\ NextChip /\ UNCHANGED ret
            \/ /\ m.workid = workid /\ Valid(m.nonceout, job)
               /\ nonce' = IF demo THEN nonce
                           ELSE bnt_get_realnonce(m.nonceout, Mask)
               /\ ret' = 0 /\ pc' = "report" /\ UNCHANGED todo
  BY DEF PollResult
<1>1. /\ pc = "mrr"
      /\ UNCHANGED <<work, mrr, demo, job, workid, round, results, status, unreset,
                     late>>
  BY DEF PollResult, chips
<1>2. TypeOK /\ Shape /\ todo # {} /\ job \in 1 .. NJobs
  BY <1>1 DEF IInv, Shape
<1>3. First(todo) \in ToPoll
  BY <1>2, FirstIsIn DEF TypeOK
<1>4. lost' \in 0 .. MaxLost /\ \A b \in Open : unreset[b] <= lost'
  BY <1>2, LoseOne
<1>5. m.nonceout \in Nonces
  BY <1>2, RegistersType, ZeroIsNonce DEF Results, NoResult
<1>6. bnt_get_realnonce(m.nonceout, Mask) \in Nonces
  BY <1>5, RealNonces
<1>7. /\ pc' \in {"poll", "report"} /\ todo' \subseteq todo
      /\ pc' = "report" => ret' = 0
      /\ ret' \in {ret, 0} /\ nonce' \in Nonces
      /\ demo => nonce' = nonce
  BY <1>2, <1>6 DEF NextChip, TypeOK
<1>8. TypeOK'
  BY <1>1, <1>2, <1>3, <1>4, <1>7 DEF TypeOK
<1>9. Shape'
  BY <1>1, <1>2, <1>4, <1>7 DEF Shape, Base, Timedout
<1>10. Tags'
  BY <1>1, <1>7, PollKeeps
<1>11. Passed'
  <2>1. CASE pc' = "report"
    BY <1>7, <2>1 DEF Passed, Timedout
  <2>2. CASE pc' # "report"
    <3>1. \/ First(todo) \in unheard'
          \/ Registers(First(todo)).workid # workid
          \/ ~Valid(Registers(First(todo)).nonceout, job)
      BY <2>2
    <3>2. unheard \subseteq unheard' /\ todo' = todo \ {First(todo)}
      BY <2>2 DEF NextChip
    <3> QED BY <1>1, <1>7, <2>2, <3>1, <3>2, PassedOver
  <2> QED BY <2>1, <2>2
<1>12. AcceptedIsGood'
  <2> SUFFICES ASSUME pc' = "report"
               PROVE  nonce' \in Solutions[demo][job]
    BY <1>1 DEF AcceptedIsGood
  <2>0. demo \in BOOLEAN
    BY <1>2, BuildsAssumption DEF TypeOK
  <2>1. CASE demo
    <3>1. nonce' = HeaderNonce[job]
      BY <1>1, <1>2, <1>7, <2>1 DEF Shape
    <3>2. Solutions[demo][job] = {HeaderNonce[job]}
      BY <1>2, <2>0, <2>1, SolutionsAt
    <3> QED BY <3>1, <3>2
  <2>2. CASE ~demo
    <3>1. Valid(m.nonceout, job) /\ nonce' = bnt_get_realnonce(m.nonceout, Mask)
      BY <2>2 DEF NextChip
    <3> QED BY <1>2, <1>5, <2>0, <3>1, ValidIsGood
  <2> QED BY <2>1, <2>2
<1> QED BY <1>8, <1>9, <1>10, <1>11, <1>12 DEF IInv

LEMMA KeyInvariant == ASSUME IInv, Key PROVE IInv'
<1>1. /\ pc = "poll" /\ pc' = "report" /\ ret' \in {ESC, KeyP}
      /\ UNCHANGED <<work, mrr, demo, job, workid, nonce, todo, round, results, status,
                     lost, unreset, late, unheard>>
  BY DEF Key, chips, history
<1>2. ret' # 0 /\ ret' # Timedout
  BY <1>1 DEF ESC, KeyP, Timedout
<1>3. TypeOK'
  BY <1>1 DEF IInv, TypeOK
<1>4. Shape'
  BY <1>1, <1>2 DEF IInv, Shape, Base
<1>5. Tags'
  BY <1>1, PollKeeps
<1> QED BY <1>1, <1>2, <1>3, <1>4, <1>5 DEF IInv, AcceptedIsGood, Passed

LEMMA NextRoundInvariant == ASSUME IInv, NextRound PROVE IInv'
<1>1. /\ pc = "poll" /\ round < Rounds /\ round' = round + 1
      /\ todo' = ToPoll /\ late' = {} /\ unheard' = {}
      /\ UNCHANGED <<work, mrr, demo, pc, job, workid, nonce, ret, results, status,
                     lost, unreset>>
  BY DEF NextRound, chips
<1>2. round' \in 0 .. Rounds
  BY <1>1, CountAssumption DEF IInv, TypeOK
<1>3. TypeOK'
  BY <1>1, <1>2 DEF IInv, TypeOK
<1>4. Shape'
  BY <1>1 DEF IInv, Shape, Base
<1>5. Tags'
  BY <1>1, PollKeeps
<1> QED BY <1>1, <1>3, <1>4, <1>5 DEF IInv, AcceptedIsGood, Passed

LEMMA TimeUpInvariant == ASSUME IInv, TimeUp PROVE IInv'
<1>1. /\ pc = "poll" /\ pc' = "report" /\ todo = {} /\ ret' = Timedout
      /\ UNCHANGED <<work, mrr, demo, job, workid, nonce, todo, round, results, status,
                     lost, unreset, late, unheard>>
  BY DEF TimeUp, chips, history
<1>2. TypeOK'
  BY <1>1 DEF IInv, TypeOK
<1>3. Shape'
  BY <1>1 DEF IInv, Shape, Base
<1>4. Tags'
  BY <1>1, PollKeeps
<1>5. Passed'
  BY <1>1 DEF IInv, Passed, Valid
<1>6. AcceptedIsGood'
  BY <1>1 DEF AcceptedIsGood, Timedout
<1> QED BY <1>2, <1>3, <1>4, <1>5, <1>6 DEF IInv

\* After bnt_getnonce main touches neither the chips nor what it knows of them.
LEMMA MainInvariant ==
    ASSUME IInv, pc \in {"read", "report", "shown", "paused"},
           pc' \in {"read", "shown", "paused", "end"},
           UNCHANGED <<chips, demo, job, workid, nonce, todo, round, ret, lost, history>>,
           results' \in Seq({0, Timedout, ESC, KeyP}),
           status' \in {"ready", "mining", "mined"}
    PROVE  IInv'
<1>1. UNCHANGED <<work, mrr, demo, job, workid, nonce, todo, round, ret, lost,
                  unreset, late, unheard>>
  BY DEF chips, history
<1>2. TypeOK'
  BY <1>1 DEF IInv, TypeOK
<1>3. Base' = Base /\ Reset' = Reset
  BY <1>1 DEF Base, Reset
<1>4. Shape' /\ Tags'
  BY <1>1, <1>3 DEF IInv, Shape, Tags
<1> QED BY <1>2, <1>4 DEF IInv, AcceptedIsGood, Passed

LEMMA FinishInvariant == ASSUME IInv, Finish PROVE IInv'
<1>1. results' \in Seq({0, Timedout, ESC, KeyP})
  BY DEF Finish, IInv, TypeOK
<1>2. status' \in {"ready", "mining", "mined"}
  BY DEF Finish, IInv, TypeOK
<1>3. pc = "report" /\ pc' \in {"read", "shown", "paused", "end"}
  BY DEF Finish
<1>4. UNCHANGED <<chips, demo, job, workid, nonce, todo, round, ret, lost, history>>
  BY DEF Finish
<1> QED BY <1>1, <1>2, <1>3, <1>4, MainInvariant

LEMMA OtherInvariant == ASSUME IInv, EndOfFile \/ Shown \/ AnyKey PROVE IInv'
<1>1. results' \in Seq({0, Timedout, ESC, KeyP}) /\ status' \in {"ready", "mining", "mined"}
  BY DEF EndOfFile, Shown, AnyKey, IInv, TypeOK
<1>2. pc \in {"read", "report", "shown", "paused"} /\ pc' \in {"read", "shown", "paused", "end"}
  BY DEF EndOfFile, Shown, AnyKey
<1>3. UNCHANGED <<chips, demo, job, workid, nonce, todo, round, ret, lost, history>>
  BY DEF EndOfFile, Shown, AnyKey
<1> QED BY <1>1, <1>2, <1>3, MainInvariant

LEMMA NextInvariant == IInv /\ [Next]_vars => IInv'
<1> SUFFICES ASSUME IInv, [Next]_vars PROVE IInv'
  OBVIOUS
<1>1. CASE UNCHANGED vars
  <2>1. UNCHANGED <<work, mrr, demo, pc, job, workid, nonce, todo, round, ret, results,
                    status, lost, unreset, late, unheard>>
    BY <1>1 DEF vars
  <2>2. TypeOK' /\ AcceptedIsGood' /\ Passed'
    BY <2>1 DEF IInv, TypeOK, AcceptedIsGood, Passed, Valid
  <2>3. Base' = Base /\ Reset' = Reset
    BY <2>1 DEF Base, Reset
  <2> QED BY <2>1, <2>2, <2>3 DEF IInv, Shape, Tags
<1>2. CASE Program
  BY <1>2, ReadHeaderInvariant, InitialiseInvariant, RequestInvariant,
     PollWorkIdInvariant, PollResultInvariant, NextRoundInvariant, TimeUpInvariant,
     FinishInvariant, OtherInvariant DEF Program
<1>3. CASE User
  BY <1>3, KeyInvariant, OtherInvariant DEF User
<1>4. CASE \E k \in Fitted : Report(k)
  BY <1>4, ReportInvariant
<1> QED BY <1>1, <1>2, <1>3, <1>4 DEF Next

LEMMA Invariant == Spec => []IInv
  BY InitInvariant, NextInvariant, PTL DEF Spec

-----------------------------------------------------------------------------
\* Every variable of the mining loop has its type, whatever is lost.
THEOREM TypeCorrect == Spec => []TypeOK
<1>1. IInv => TypeOK
  BY DEF IInv
<1> QED BY <1>1, Invariant, PTL

\* bnt_getnonce returns 0 only with a nonce whose hash meets the target of the
\* header (with DEMO: the header's own nonce), whatever chips report and whatever
\* reads are lost, for every hash function and every target: the hash is below
\* the target, or, where the target's mantissa begins with a zero byte, below the
\* power of 256 above the target.
THEOREM AcceptsOnlyGood == Spec => []AcceptedIsGood
<1>1. IInv => AcceptedIsGood
  BY DEF IInv
<1> QED BY <1>1, Invariant, PTL

\* The work id in a chip's result tells the job unless the chip's board missed
\* as many resets in a row as there are work ids.
THEOREM WorkIdSuffices == Spec => []WorkIdTellsJobs
<1>1. IInv => WorkIdTellsJobs
  <2> SUFFICES ASSUME IInv, NEW k \in Fitted, pc \in {"poll", "mrr"},
                      mrr[k].workid = workid, unreset[k[1]] < WorkIds - 1
               PROVE  mrr[k].job = job
    BY DEF WorkIdTellsJobs
  <2>1. job \in Nat \ {0} /\ Base = job /\ Reset = job /\ mrr[k].job \in Nat
    BY CountAssumption DEF IInv, Shape, Base, Reset, TypeOK, Results
  <2>2. workid \in 1 .. WorkIds - 1
    BY <2>1, CountAssumption DEF IInv, Shape, TypeOK
  <2>3. unreset[k[1]] \in Nat
    BY FittedAssumption DEF IInv, TypeOK
  <2>4. Tag(mrr[k], job, job, workid, unreset[k[1]])
    BY <2>1 DEF IInv, Tags
  <2> QED BY <2>1, <2>2, <2>3, <2>4, TagOwn
<1> QED BY <1>1, Invariant, PTL

\* Time is up only when every polled chip that holds a result of this job whose
\* hash meets the target reported it after the last round had begun, or could not
\* be read in it; a hash of 0 is an exception.
THEOREM MissesNothing == Spec => []NoMissedResult
<1>1. IInv => NoMissedResult
  <2> SUFFICES ASSUME IInv, pc = "report", ret = Timedout, NEW k \in Fitted,
                      k[2] \in Polled(NChips), mrr[k].job = job,
                      LET real == bnt_get_realnonce(mrr[k].nonceout, Mask) IN
                      /\ real \in Solutions[demo][job]
                      /\ demo \/ ~IsZero(DoubleHash[job][real])
               PROVE  k \in late \cup unheard
    BY DEF NoMissedResult
  <2>1. k \in ToPoll
    BY FittedAssumption DEF ToPoll
  <2>2. todo = {} /\ job \in 1 .. NJobs
    BY DEF IInv, Shape
  <2>3. mrr[k].nonceout \in Nonces /\ demo \in BOOLEAN
    BY BuildsAssumption DEF IInv, TypeOK, Results
  <2>4. Valid(mrr[k].nonceout, job)
    BY <2>2, <2>3, ValidIsGood
  <2> QED BY <2>1, <2>2, <2>4 DEF IInv, Passed
<1> QED BY <1>1, Invariant, PTL

\* On compact numbers the host decides as on the numbers they stand for, for any
\* choice of hashes and targets.
THEOREM ComparesAsNumbers == Spec => []ComparesNumbers
<1>1. ComparesNumbers
  BY SamplesAssumption, ComparesLikeNumbers DEF ComparesNumbers, Behind
<1> QED BY <1>1, PTL

\* The correction is a permutation of the nonces of every chip, for every mask,
\* both builds and any window of more than three values: each nonce a chip is to
\* search comes out of one raw nonce of the chip and of one only.
THEOREM CorrectionIsPermutation == Spec => []CorrectionPermutes
<1>1. ASSUME NEW shares, NEW n \in RawNonces(Mask, shares)
      PROVE  \E r \in RawNonces(Mask, shares) :
               /\ bnt_get_realnonce(r, Mask) = n
               /\ \A q \in RawNonces(Mask, shares) :
                    bnt_get_realnonce(q, Mask) = n => q = r
  <2>1. PICK r \in RawNonces(Mask, shares) : bnt_get_realnonce(r, Mask) = n
    BY <1>1, CorrectionReachesAll
  <2>2. ASSUME NEW q \in RawNonces(Mask, shares), bnt_get_realnonce(q, Mask) = n
        PROVE  q = r
    BY <2>1, <2>2, CorrectionOneToOne
  <2> QED BY <2>1, <2>2
<1>2. CorrectionPermutes
  BY <1>1, Zenon DEF CorrectionPermutes
<1> QED BY <1>2, PTL

-----------------------------------------------------------------------------
(* The contract of the mining loop.                                         *)

LEMMA AppendOutcome ==
    ASSUME NEW T, NEW rs \in Seq(T), NEW r \in T, NEW b, b = (r = 0)
    PROVE  [i \in DOMAIN Append(rs, r) |-> Append(rs, r)[i] = 0]
             = Append([i \in DOMAIN rs |-> rs[i] = 0], b)
<1> DEFINE o == [i \in DOMAIN rs |-> rs[i] = 0]
           n == Len(rs)
<1>1. n \in Nat /\ DOMAIN rs = 1 .. n
  OBVIOUS
<1>2. o \in Seq(BOOLEAN) /\ Len(o) = n
  BY <1>1
<1>3. b \in BOOLEAN
  OBVIOUS
<1>4. DOMAIN Append(rs, r) = 1 .. n + 1 /\ DOMAIN Append(o, b) = 1 .. n + 1
  BY <1>1, <1>2, <1>3
<1>5. ASSUME NEW i \in 1 .. n + 1
      PROVE  Append(o, b)[i] = (Append(rs, r)[i] = 0)
  BY <1>1, <1>2, <1>3
<1>6. Append(o, b) = [i \in 1 .. n + 1 |-> Append(o, b)[i]]
  BY <1>2, <1>3, <1>4
<1> QED BY <1>4, <1>5, <1>6

\* The phases of the contract.
Ready  == pc \in {"read", "shown", "paused"}
Mining == pc \in {"init", "request", "poll", "mrr"}
Phase == CASE Ready  -> "ready"
           [] Mining -> "mining"
           [] pc = "report" -> IF ret = 0 THEN "found" ELSE "given up"
           [] pc = "end" -> "ended"
Answer == IF pc = "report" /\ ret = 0 THEN nonce ELSE Zero
Outcomes == [i \in DOMAIN results |-> results[i] = 0]

LEMMA MapsTo ==
    /\ Contract!MNext <=>
        \/ /\ Phase = "ready" /\ job < NJobs
           /\ Phase' = "mining" /\ job' = job + 1
           /\ UNCHANGED <<demo, Answer, Outcomes>>
        \/ /\ Phase = "mining"
           /\ Answer' \in Solutions[demo][job]
           /\ Phase' = "found"
           /\ UNCHANGED <<demo, job, Outcomes>>
        \/ /\ Phase = "mining"
           /\ Phase' = "given up"
           /\ UNCHANGED <<demo, job, Answer, Outcomes>>
        \/ /\ Phase \in {"found", "given up"}
           /\ Outcomes' = Append(Outcomes, Phase = "found")
           /\ \/ Phase' = "ready"
              \/ Phase = "given up" /\ demo /\ Phase' = "ended"
           /\ Answer' = Zero
           /\ UNCHANGED <<demo, job>>
        \/ /\ Phase = "ready" /\ job = NJobs
           /\ Phase' = "ended"
           /\ UNCHANGED <<demo, job, Answer, Outcomes>>
    /\ UNCHANGED <<demo, Phase, job, Answer, Outcomes>> => UNCHANGED Contract!mvars
  BY DEF Contract!MNext, Contract!Take, Contract!Find, Contract!GiveUp, Contract!Record,
         Contract!End, Contract!mvars, Phase, Ready, Mining, Answer, Outcomes

LEMMA StepMaps ==
    ASSUME IInv, IInv', [Next]_vars
    PROVE  Contract!MNext \/ UNCHANGED Contract!mvars
<1>m. UNCHANGED <<demo, Phase, job, Answer, Outcomes>> => UNCHANGED Contract!mvars
  BY MapsTo
<1>1. CASE UNCHANGED vars \/ \E k \in Fitted : Report(k)
  <2>1. UNCHANGED <<demo, pc, job, nonce, ret, results>>
    BY <1>1 DEF vars, Report
  <2>2. UNCHANGED <<Phase, Answer, Outcomes>>
    BY <2>1 DEF Phase, Ready, Mining, Answer, Outcomes
  <2> QED BY <2>1, <2>2, <1>m
<1>2. CASE ReadHeader
  <2>1. /\ pc = "read" /\ pc' = "init" /\ job < NJobs /\ job' = job + 1
        /\ UNCHANGED <<demo, results>>
    BY <1>2 DEF ReadHeader
  <2>2. Phase = "ready" /\ Phase' = "mining" /\ UNCHANGED <<Answer, Outcomes>>
    BY <2>1 DEF Phase, Ready, Mining, Answer, Outcomes
  <2> QED BY <2>1, <2>2, <1>m, MapsTo
<1>3. CASE EndOfFile
  <2>1. pc = "read" /\ pc' = "end" /\ job = NJobs /\ UNCHANGED <<demo, job, results>>
    BY <1>3 DEF EndOfFile
  <2>2. Phase = "ready" /\ Phase' = "ended" /\ UNCHANGED <<Answer, Outcomes>>
    BY <2>1 DEF Phase, Ready, Mining, Answer, Outcomes
  <2> QED BY <2>1, <2>2, <1>m, MapsTo
<1>4. CASE Initialise \/ Request \/ PollWorkId \/ NextRound
  <2>1. Mining /\ Mining' /\ UNCHANGED <<demo, job, results>>
    BY <1>4 DEF Initialise, Request, PollWorkId, NextRound, NextChip, Mining
  <2>2. UNCHANGED <<Phase, Answer, Outcomes>>
    BY <2>1 DEF Phase, Ready, Mining, Answer, Outcomes
  <2> QED BY <2>1, <2>2, <1>m
<1>5. CASE PollResult
  <2>1. pc = "mrr" /\ UNCHANGED <<demo, job, results>>
    BY <1>5 DEF PollResult
  <2>2. pc' = "poll" \/ (pc' = "report" /\ ret' = 0)
    BY <1>5 DEF PollResult, NextChip
  <2>3. Phase = "mining" /\ UNCHANGED Outcomes
    BY <2>1 DEF Phase, Ready, Mining, Outcomes
  <2>4. CASE pc' = "poll"
    <3>1. Phase' = "mining" /\ UNCHANGED Answer
      BY <2>1, <2>4 DEF Phase, Ready, Mining, Answer
    <3> QED BY <2>1, <2>3, <3>1, <1>m
  <2>5. CASE pc' = "report" /\ ret' = 0
    <3>1. Phase' = "found" /\ Answer' = nonce'
      BY <2>5 DEF Phase, Ready, Mining, Answer
    <3>2. nonce' \in Solutions[demo][job]
      BY <2>1, <2>5 DEF IInv, AcceptedIsGood
    <3> QED BY <2>1, <2>3, <3>1, <3>2, MapsTo
  <2> QED BY <2>2, <2>4, <2>5
<1>6. CASE Key \/ TimeUp
  <2>1. /\ pc = "poll" /\ pc' = "report" /\ ret' # 0
        /\ UNCHANGED <<demo, job, results>>
    BY <1>6 DEF Key, TimeUp, ESC, KeyP, Timedout
  <2>2. Phase = "mining" /\ Phase' = "given up" /\ UNCHANGED <<Answer, Outcomes>>
    BY <2>1 DEF Phase, Ready, Mining, Answer, Outcomes
  <2> QED BY <2>1, <2>2, MapsTo
<1>7. CASE Finish
  <2>1. /\ pc = "report" /\ UNCHANGED <<demo, job>>
        /\ results' = Append(results, ret)
        /\ \/ pc' \in {"read", "paused", "shown"}
           \/ pc' = "end" /\ ret = ESC /\ demo
    BY <1>7 DEF Finish
  <2>2. /\ Phase = IF ret = 0 THEN "found" ELSE "given up"
        /\ Phase' = IF pc' = "end" THEN "ended" ELSE "ready"
        /\ Answer' = Zero
    BY <2>1 DEF Phase, Ready, Mining, Answer
  <2>3. (Phase = "found") = (ret = 0)
    BY <2>2
  <2>4. ret \in {0, Timedout, ESC, KeyP} /\ results \in Seq({0, Timedout, ESC, KeyP})
    BY DEF IInv, TypeOK
  <2>5. Outcomes' = Append(Outcomes, Phase = "found")
    BY <2>1, <2>3, <2>4, AppendOutcome DEF Outcomes
  <2>6. Phase' = "ready" \/ (Phase = "given up" /\ demo /\ Phase' = "ended")
    <3>1. CASE pc' # "end"
      BY <2>2, <3>1
    <3>2. CASE pc' = "end"
      <4>1. demo
        BY <2>1, <3>2
      <4>2. ret # 0
        BY <2>1, <3>2 DEF ESC
      <4>3. Phase = "given up"
        BY <2>2, <4>2
      <4>4. Phase' = "ended"
        BY <2>2, <3>2
      <4> QED BY <4>1, <4>3, <4>4
    <3> QED BY <3>1, <3>2
  <2> QED BY <2>1, <2>2, <2>5, <2>6, MapsTo
<1>8. CASE Shown \/ AnyKey
  <2>1. Ready /\ Ready' /\ UNCHANGED <<demo, job, results>>
    BY <1>8 DEF Shown, AnyKey, Ready
  <2>2. UNCHANGED <<Phase, Answer, Outcomes>>
    BY <2>1 DEF Phase, Ready, Mining, Answer, Outcomes
  <2> QED BY <2>1, <2>2, <1>m
<1> QED
  BY <1>1, <1>2, <1>3, <1>4, <1>5, <1>6, <1>7, <1>8 DEF Next, Program, User

\* The mining loop, with its lost reads, its stale results and its work ids that
\* are used again, keeps the contract of MineContract: the headers are worked on
\* in order, each has one outcome, and only a solution is given out: the header's
\* own nonce with DEMO, else one whose hash meets the target as Meets has it,
\* which for a target like that of difficulty 1 may be above it.
THEOREM MiningMeetsContract == Spec => ImplementsContract
<1>1. Init => Contract!MInit
  BY BuildsAssumption DEF Init, Contract!MInit
<1>2. IInv /\ IInv' /\ [Next]_vars => [Contract!MNext]_(Contract!mvars)
  BY StepMaps
<1> QED BY <1>1, <1>2, Invariant, PTL DEF Spec, ImplementsContract, Contract!MSpec
-----------------------------------------------------------------------------
(* The program ends by itself: the steps it may still take become fewer,    *)
(* and a chip that reports adds none.                                       *)

LEMMA Times ==
    ASSUME NEW a \in Nat, NEW L \in Nat
    PROVE  /\ a * L \in Nat /\ (a + 1) * L = a * L + L
           /\ a > 0 => (a - 1) * L = a * L - L /\ (a - 1) * L \in Nat
<1>1. a * L \in Nat /\ (a + 1) * L = a * L + L /\ (a - 1) * L = a * L - L
  BY SMT
<1>2. a > 0 => (a - 1) * L \in Nat
  BY SMT
<1> QED BY <1>1, <1>2

LEMMA Parts == \A a, b, L \in Int : (a - b) * L + b * L = a * L
  BY SMT

\* The chips that are still to be polled, counted.
LEMMA ChipsToPoll ==
    ASSUME NEW S, S \subseteq ToPoll
    PROVE  /\ Cardinality(S) \in Nat /\ Cardinality(S) <= Cardinality(ToPoll)
           /\ Cardinality(ToPoll) \in Nat
           /\ S # {} => Cardinality(S \ {First(S)}) = Cardinality(S) - 1
<1>1. IsFiniteSet(0 .. 3) /\ IsFiniteSet(0 .. 63)
  <2>1. 0 \in Int /\ 3 \in Int /\ 63 \in Int
    OBVIOUS
  <2> QED BY <2>1, FS_Interval
<1>2. Open \subseteq 0 .. 3 /\ Polled(NChips) \subseteq 0 .. 63
  BY OpenAssumption DEF Boards, MAX_NBOARDS, Polled, ChipIds, MAX_NCHIPS_PER_BOARD
<1>3. IsFiniteSet(Open) /\ IsFiniteSet(Polled(NChips))
  BY <1>1, <1>2, FS_Subset
<1>4. IsFiniteSet(ToPoll)
  BY <1>3, FS_Product DEF ToPoll
<1>5. IsFiniteSet(S) /\ Cardinality(S) <= Cardinality(ToPoll)
  BY <1>4, FS_Subset
<1>6. Cardinality(S) \in Nat /\ Cardinality(ToPoll) \in Nat
  BY <1>4, <1>5, FS_CardinalityType
<1>7. S # {} => Cardinality(S \ {First(S)}) = Cardinality(S) - 1
  BY <1>5, FirstIsIn, FS_RemoveElement
<1> QED BY <1>5, <1>6, <1>7

LEMMA Lengths ==
    /\ RoundSteps \in Nat /\ RoundSteps = 2 * Cardinality(ToPoll) + 1
    /\ (Rounds + 1) * RoundSteps = Rounds * RoundSteps + RoundSteps
    /\ JobSteps \in Nat /\ JobSteps = Rounds * RoundSteps + RoundSteps + 5
<1>0. Cardinality(ToPoll) \in Nat
  <2>1. ToPoll \subseteq ToPoll
    OBVIOUS
  <2> QED BY <2>1, ChipsToPoll
<1>1. RoundSteps \in Nat /\ RoundSteps = 2 * Cardinality(ToPoll) + 1
  BY <1>0 DEF RoundSteps
<1>2. Rounds \in Nat
  BY CountAssumption
<1> QED BY <1>1, <1>2, Times DEF JobSteps

\* What is left of the rounds of a job fits into the job.
LEMMA PollBound ==
    ASSUME TypeOK
    PROVE  /\ PollSteps \in Nat
           /\ PollSteps + 6 <= JobSteps
<1>1. round \in Nat /\ Rounds - round \in Nat /\ Rounds \in Nat /\ RoundSteps \in Nat
  BY CountAssumption, Lengths DEF TypeOK
<1>2. (Rounds - round) * RoundSteps \in Nat /\ round * RoundSteps \in Nat
  BY <1>1, Times
<1>3. (Rounds - round) * RoundSteps + round * RoundSteps = Rounds * RoundSteps
  <2>1. Rounds \in Int /\ round \in Int /\ RoundSteps \in Int
    BY <1>1
  <2> HIDE DEF RoundSteps
  <2> QED BY <2>1, Parts, ZenonT(30)
<1>4. Cardinality(todo) \in Nat /\ 2 * Cardinality(todo) + 1 <= RoundSteps
  <2>1. /\ Cardinality(todo) \in Nat /\ Cardinality(todo) <= Cardinality(ToPoll)
        /\ Cardinality(ToPoll) \in Nat
    BY ChipsToPoll DEF TypeOK
  <2> QED BY <2>1, Lengths
<1>5. PollSteps = (Rounds - round) * RoundSteps + 2 * Cardinality(todo)
  BY DEF PollSteps
<1> HIDE DEF PollSteps
<1>6. \A x, y, z \in Nat : x + y = z => x <= z
  OBVIOUS
<1>7. Rounds * RoundSteps \in Nat /\ (Rounds - round) * RoundSteps <= Rounds * RoundSteps
  BY <1>1, <1>2, <1>3, <1>6, Times
<1> QED BY <1>2, <1>4, <1>5, <1>7, Lengths

\* A chip that is polled takes two steps, and a round one of its own.
LEMMA PolledCosts ==
    ASSUME TypeOK, todo # {}
    PROVE  /\ PollSteps >= 2
           /\ todo' = todo \ {First(todo)} /\ round' = round
                => PollSteps' = PollSteps - 2
<1> DEFINE r == (Rounds - round) * RoundSteps
<1>1. /\ Cardinality(todo) \in Nat /\ Cardinality(todo \ {First(todo)}) = Cardinality(todo) - 1
      /\ Cardinality(todo \ {First(todo)}) \in Nat
  <2>1. todo \subseteq ToPoll /\ todo \ {First(todo)} \subseteq ToPoll
    BY DEF TypeOK
  <2> QED BY <2>1, ChipsToPoll
<1>2. r \in Nat
  <2>1. Rounds - round \in Nat
    BY CountAssumption DEF TypeOK
  <2> QED BY <2>1, Lengths, Times
<1>3. /\ PollSteps = r + 2 * Cardinality(todo)
      /\ round' = round => PollSteps' = r + 2 * Cardinality(todo')
  BY DEF PollSteps
<1>4. PICK c \in Nat : c = Cardinality(todo)
  BY <1>1
<1>5. PollSteps = r + 2 * c /\ c - 1 \in Nat
  BY <1>1, <1>3, <1>4
<1>6. todo' = todo \ {First(todo)} /\ round' = round => PollSteps' = r + 2 * (c - 1)
  BY <1>1, <1>3, <1>4
<1> HIDE DEF r
<1> QED BY <1>2, <1>4, <1>5, <1>6

LEMMA RoundLess ==
    ASSUME TypeOK, todo = {}, todo' = ToPoll, round < Rounds, round' = round + 1
    PROVE  PollSteps' = PollSteps - 1
<1>1. Rounds \in Int /\ round \in Int /\ RoundSteps \in Int /\ Rounds - round \in Nat
  BY CountAssumption, Lengths DEF TypeOK
<1> DEFINE r == (Rounds - round) * RoundSteps
<1>2. (Rounds - (round + 1)) * RoundSteps = r - RoundSteps
  <2>1. \A a, b, L \in Int : (a - (b + 1)) * L = (a - b) * L - L
    BY SMT
  <2> QED BY <1>1, <2>1, Zenon
<1>3. r \in Nat
  BY <1>1, Lengths, Times
<1>4. Cardinality(todo) = 0
  BY FS_EmptySet
<1>5. PollSteps = r
  BY <1>3, <1>4 DEF PollSteps
<1>6. PollSteps' = (r - RoundSteps) + 2 * Cardinality(ToPoll)
  BY <1>2 DEF PollSteps
<1> HIDE DEF r
<1>7. Cardinality(ToPoll) \in Nat
  <2>1. ToPoll \subseteq ToPoll
    OBVIOUS
  <2> QED BY <2>1, ChipsToPoll
<1> QED BY <1>3, <1>5, <1>6, <1>7, Lengths

\* In each place of the program, the steps that are left, where L is the share of
\* the headers that have not been read.
LEMMA LeftAt ==
    ASSUME TypeOK, NEW L, L = (NJobs - job) * JobSteps
    PROVE  /\ pc = "end"                   => StepsLeft = 0
           /\ pc = "read"                  => StepsLeft = L + 1
           /\ pc \in {"shown", "paused"}   => StepsLeft = L + 2
           /\ pc = "report"                => StepsLeft = L + 3
           /\ pc = "mrr"                   => StepsLeft = L + (3 + PollSteps)
           /\ pc = "poll"                  => StepsLeft = L + (4 + PollSteps)
           /\ pc = "request"               => StepsLeft = L + (JobSteps - 1)
           /\ pc = "init"                  => StepsLeft = L + JobSteps
  BY DEF StepsLeft

\* A header that is read takes its share out of those that have not been.
LEMMA SharesLeft ==
    ASSUME TypeOK
    PROVE  /\ (NJobs - job) * JobSteps \in Nat
           /\ job < NJobs => (NJobs - (job + 1)) * JobSteps
                               = (NJobs - job) * JobSteps - JobSteps
<1>1. NJobs \in Nat /\ job \in Nat /\ NJobs - job \in Nat /\ JobSteps \in Nat
  BY CountAssumption, Lengths DEF TypeOK
<1>2. (NJobs - job) * JobSteps \in Nat
  BY <1>1, Times
<1>3. (NJobs - (job + 1)) * JobSteps = (NJobs - job) * JobSteps - JobSteps
  <2>1. \A a, b, L \in Int : (a - (b + 1)) * L = (a - b) * L - L
    BY SMT
  <2>2. NJobs \in Int /\ job \in Int /\ JobSteps \in Int
    BY <1>1
  <2> QED BY <2>1, <2>2, Zenon
<1> QED BY <1>2, <1>3

LEMMA LeftIsNat == TypeOK => StepsLeft \in Nat
<1> SUFFICES ASSUME TypeOK PROVE StepsLeft \in Nat
  OBVIOUS
<1>1. PICK L \in Nat : L = (NJobs - job) * JobSteps
  BY SharesLeft
<1>2. PollSteps \in Nat /\ PollSteps + 6 <= JobSteps /\ JobSteps \in Nat
  BY PollBound, Lengths
<1>3. \/ StepsLeft \in {0, L + 1, L + 2, L + 3, L + (3 + PollSteps), L + (4 + PollSteps)}
      \/ StepsLeft \in {L + (JobSteps - 1), L + JobSteps}
  BY <1>1, LeftAt DEF TypeOK
<1> QED BY <1>2, <1>3

\* A report of a chip leaves the program where it is.
LEMMA ReportKeepsLeft ==
    ASSUME UNCHANGED vars \/ \E k \in Fitted : Report(k)
    PROVE  StepsLeft' = StepsLeft
<1>1. UNCHANGED <<pc, job, todo, round>>
  BY DEF vars, Report
<1> QED BY <1>1 DEF StepsLeft, PollSteps

\* Every step of the program, or of its user, leaves fewer.
LEMMA ProgramShortens ==
    ASSUME IInv, IInv', Program \/ User
    PROVE  StepsLeft' < StepsLeft
<1>0. TypeOK /\ TypeOK'
  BY DEF IInv
<1>1. PICK L \in Nat : L = (NJobs - job) * JobSteps
  BY <1>0, SharesLeft
<1>2. PollSteps \in Nat /\ PollSteps + 6 <= JobSteps /\ JobSteps \in Nat
  BY <1>0, PollBound, Lengths
<1>3. /\ pc = "end"                   => StepsLeft = 0
      /\ pc = "read"                  => StepsLeft = L + 1
      /\ pc \in {"shown", "paused"}   => StepsLeft = L + 2
      /\ pc = "report"                => StepsLeft = L + 3
      /\ pc = "mrr"                   => StepsLeft = L + (3 + PollSteps)
      /\ pc = "poll"                  => StepsLeft = L + (4 + PollSteps)
      /\ pc = "request"               => StepsLeft = L + (JobSteps - 1)
      /\ pc = "init"                  => StepsLeft = L + JobSteps
  BY <1>0, <1>1, LeftAt
<1>4. job' = job =>
      /\ pc' = "end"                   => StepsLeft' = 0
      /\ pc' = "read"                  => StepsLeft' = L + 1
      /\ pc' \in {"shown", "paused"}   => StepsLeft' = L + 2
      /\ pc' = "report"                => StepsLeft' = L + 3
      /\ pc' = "mrr"                   => StepsLeft' = L + (3 + PollSteps')
      /\ pc' = "poll"                  => StepsLeft' = L + (4 + PollSteps')
      /\ pc' = "request"               => StepsLeft' = L + (JobSteps - 1)
  BY <1>1 DEF StepsLeft
<1>5. CASE ReadHeader
  <2>1. /\ pc = "read" /\ pc' = "init" /\ job < NJobs /\ job' = job + 1
    BY <1>5 DEF ReadHeader
  <2>2. StepsLeft' = (NJobs - job') * JobSteps + JobSteps
    BY <2>1 DEF StepsLeft
  <2>3. StepsLeft' = L
    BY <1>0, <1>1, <1>2, <2>1, <2>2, SharesLeft
  <2> QED BY <1>3, <2>1, <2>3
<1>6. CASE EndOfFile
  BY <1>3, <1>4, <1>6 DEF EndOfFile
<1>7. CASE Initialise
  BY <1>2, <1>3, <1>4, <1>7 DEF Initialise
<1>8. CASE Request
  <2>1. pc = "request" /\ pc' = "poll" /\ job' = job
    BY <1>8 DEF Request
  <2>2. round' = 0 /\ todo' = ToPoll
    BY <1>8 DEF Request
  <2>3. PollSteps' = Rounds * RoundSteps + 2 * Cardinality(ToPoll)
    <3>1. Rounds - 0 = Rounds
      BY CountAssumption
    <3> QED BY <2>2, <3>1 DEF PollSteps
  <2>4. PollSteps' + 6 = JobSteps /\ PollSteps' \in Int
    <3>1. ToPoll \subseteq ToPoll
      OBVIOUS
    <3>2. Cardinality(ToPoll) \in Nat
      BY <3>1, ChipsToPoll
    <3>3. Rounds * RoundSteps \in Nat
      BY Lengths, CountAssumption, Times
    <3> QED BY <2>3, <3>2, <3>3, Lengths
  <2>5. StepsLeft = L + (JobSteps - 1) /\ StepsLeft' = L + (4 + PollSteps')
    BY <1>3, <1>4, <2>1
  <2>6. PICK p \in Int : p = PollSteps'
    BY <2>4
  <2>7. StepsLeft' = L + (4 + p) /\ JobSteps = p + 6
    BY <2>4, <2>5, <2>6
  <2>8. StepsLeft = L + (p + 5)
    BY <1>2, <2>5, <2>6, <2>7
  <2> QED BY <2>7, <2>8
<1>9. CASE PollWorkId
  <2>1. /\ pc = "poll" /\ todo # {} /\ job' = job /\ round' = round
        /\ \/ pc' = "poll" /\ todo' = todo \ {First(todo)}
           \/ pc' = "mrr" /\ todo' = todo
    BY <1>9 DEF PollWorkId, NextChip
  <2>2. CASE pc' = "poll" /\ todo' = todo \ {First(todo)}
    <3>1. PollSteps' = PollSteps - 2
      BY <1>0, <2>1, <2>2, PolledCosts
    <3> QED BY <1>2, <1>3, <1>4, <2>1, <2>2, <3>1
  <2>3. CASE pc' = "mrr" /\ todo' = todo
    <3>1. PollSteps' = PollSteps
      BY <2>1, <2>3 DEF PollSteps
    <3> QED BY <1>2, <1>3, <1>4, <2>1, <2>3, <3>1
  <2> QED BY <2>1, <2>2, <2>3
<1>10. CASE PollResult
  <2>1. /\ pc = "mrr" /\ job' = job /\ round' = round
        /\ \/ pc' = "poll" /\ todo' = todo \ {First(todo)}
           \/ pc' = "report"
    BY <1>10 DEF PollResult, NextChip
  <2>2. CASE pc' = "poll" /\ todo' = todo \ {First(todo)}
    <3>1. todo # {}
      BY <2>1 DEF IInv, Shape
    <3>2. PollSteps' = PollSteps - 2
      BY <1>0, <2>1, <2>2, <3>1, PolledCosts
    <3> QED BY <1>2, <1>3, <1>4, <2>1, <2>2, <3>2
  <2>3. CASE pc' = "report"
    <3>1. PollSteps >= 2
      BY <1>0, <2>1, PolledCosts DEF IInv, Shape
    <3>2. StepsLeft = L + (3 + PollSteps) /\ StepsLeft' = L + 3
      BY <1>3, <1>4, <2>1, <2>3
    <3> QED BY <1>2, <3>1, <3>2
  <2> QED BY <2>1, <2>2, <2>3
<1>11. CASE Key \/ TimeUp
  BY <1>2, <1>3, <1>4, <1>11 DEF Key, TimeUp
<1>12. CASE NextRound
  <2>1. /\ pc = "poll" /\ pc' = "poll" /\ job' = job
        /\ round < Rounds /\ round' = round + 1 /\ todo = {} /\ todo' = ToPoll
    BY <1>12 DEF NextRound
  <2>2. PollSteps' = PollSteps - 1
    BY <1>0, <2>1, RoundLess
  <2> QED BY <1>2, <1>3, <1>4, <2>1, <2>2
<1>13. CASE Finish
  BY <1>3, <1>4, <1>13 DEF Finish
<1>14. CASE Shown \/ AnyKey
  BY <1>3, <1>4, <1>14 DEF Shown, AnyKey
<1> QED BY <1>5, <1>6, <1>7, <1>8, <1>9, <1>10, <1>11, <1>12, <1>13, <1>14
        DEF Program, User

\* The program ends within MaxSteps steps of its own, for any number of chips,
\* headers and rounds: whatever the chips report and whatever is lost, nothing
\* makes it do more.  (That it takes a step while it can is its fairness.)
THEOREM EndsInSteps ==
    Spec => /\ [](StepsLeft \in 0 .. MaxSteps)
            /\ [][IF Program \/ User THEN StepsLeft' < StepsLeft
                                     ELSE StepsLeft' = StepsLeft]_vars
<1> DEFINE Natural == StepsLeft \in Nat
           Bounded == StepsLeft \in 0 .. MaxSteps
           Shorter == IF Program \/ User THEN StepsLeft' < StepsLeft
                                         ELSE StepsLeft' = StepsLeft
<1>1. Init => Bounded
  <2>1. Init => StepsLeft = MaxSteps
    <3> SUFFICES ASSUME Init PROVE StepsLeft = MaxSteps
      OBVIOUS
    <3>1. pc = "read" /\ NJobs - job = NJobs
      BY CountAssumption DEF Init
    <3> QED BY <3>1 DEF StepsLeft, MaxSteps
  <2>2. Init => StepsLeft \in Nat
    BY InitInvariant, LeftIsNat DEF IInv
  <2> QED BY <2>1, <2>2
<1>n. IInv => Natural
  BY LeftIsNat DEF IInv
<1>2. IInv /\ IInv' /\ [Next]_vars => [Shorter]_vars
  BY ProgramShortens, ReportKeepsLeft DEF Next
<1>3. IInv /\ IInv' /\ Natural' /\ Bounded /\ [Next]_vars => Bounded'
  <2> SUFFICES ASSUME IInv, IInv', Natural', Bounded, [Next]_vars PROVE Bounded'
    OBVIOUS
  <2>1. StepsLeft' \in Nat
    OBVIOUS
  <2>2. StepsLeft' <= StepsLeft
    <3>0. StepsLeft \in Nat
      BY <1>n
    <3>1. CASE Program \/ User
      BY <2>1, <3>0, <3>1, ProgramShortens
    <3>2. CASE ~(Program \/ User)
      BY <3>0, <3>2, ReportKeepsLeft DEF Next
    <3> QED BY <3>1, <3>2
  <2>3. MaxSteps \in Nat
    BY CountAssumption, Lengths, Times DEF MaxSteps
  <2> QED BY <2>1, <2>2, <2>3
<1> QED BY <1>1, <1>n, <1>2, <1>3, Invariant, PTL DEF Spec
=============================================================================

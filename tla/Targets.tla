------------------------------- MODULE Targets -------------------------------
(***************************************************************************)
(* Hashes, targets and their comparison (api/bnt_util.c).  A hash is a      *)
(* sequence of HashLen bytes, the most significant first, as it is after    *)
(* bnt_swap_byte; in the code HashLen is 32.  A compact number stands for   *)
(* an unsigned int whose top byte is its exponent, the number of            *)
(* significant bytes, and whose other three bytes are its mantissa, here    *)
(* the sequence of them.                                                    *)
(***************************************************************************)
EXTENDS Integers

CONSTANT HashLen \* SHA256_DIGEST_LENGTH

ASSUME HashLenAssumption == HashLen \in 3 .. 126

Bytes == 0 .. 255
Hashes == [1 .. HashLen -> Bytes]
Compacts == [exp : Bytes, mant : [1 .. 3 -> Bytes]]

\* The order of numbers, the most significant byte first.
Less(x, y) ==
    \E i \in DOMAIN x : x[i] < y[i] /\ \A j \in 1 .. i - 1 : x[j] = y[j]

\* Mutant: the digest is taken as it comes.
bnt_swap_byte_Not(digest) == digest

\* The digest of SHA-256 comes with its least significant byte first.
bnt_swap_byte(digest) == [i \in 1 .. HashLen |-> digest[HashLen + 1 - i]]

\* hash[i] of the code; behind the hash lies whatever is on the stack.
ByteAt(hash, past, i) == IF i < HashLen THEN hash[i + 1] ELSE past[i - HashLen + 1]

\* The loop leaves zerobyte at the first byte that is not 0.  It looks at one
\* byte behind the hash too, and ends past that one if it is 0 as well.
ZeroBytes(hash, past) ==
    LET Found == {i \in 0 .. HashLen : ByteAt(hash, past, i) # 0} IN
    IF Found = {} THEN HashLen + 1
    ELSE CHOOSE i \in Found : \A j \in Found : i <= j

\* Mutant: the exponent is the number of leading zero bytes.
bnt_get_bits_Leading(hash, past) ==
    LET z == ZeroBytes(hash, past) IN
    [exp |-> z, mant |-> [k \in 1 .. 3 |-> ByteAt(hash, past, z + k - 1)]]

\* 32 - zerobyte is shifted into the top byte; the three bytes from zerobyte on
\* are the mantissa, also where they reach behind the hash.
bnt_get_bits(hash, past) ==
    LET z == ZeroBytes(hash, past) IN
    IF z = HashLen
    THEN [exp |-> 127, mant |-> [k \in 1 .. 3 |-> 255]]
    ELSE [exp  |-> (HashLen - z) % 256,
          mant |-> [k \in 1 .. 3 |-> ByteAt(hash, past, z + k - 1)]]

\* bits < bhash->bh.bits, as unsigned integers.
Below(a, b) == a.exp < b.exp \/ (a.exp = b.exp /\ Less(a.mant, b.mant))

\* Mutant: one byte too few is filled with zeros.
bnt_get_targetstr_Short(t) ==
    [i \in 1 .. HashLen |->
        LET k == i - (HashLen - t.exp) + 1 IN
        IF k \in 1 .. 3 THEN t.mant[k] ELSE 0]

\* Zeros in front, the three bytes of the mantissa, zeros up to the end.  For an
\* exponent below 3 or above the length the code's counts wrap (Fits).
bnt_get_targetstr(t) ==
    [i \in 1 .. HashLen |->
        LET k == i - (HashLen - t.exp) IN
        IF k \in 1 .. 3 THEN t.mant[k] ELSE 0]

-----------------------------------------------------------------------------
\* Exponents for which bnt_get_targetstr writes HashLen bytes.
Fits(t) == t.exp \in 3 .. HashLen

\* The first byte of the mantissa is not 0.
Normal(t) == t.mant[1] # 0

IsZero(hash) == \A i \in 1 .. HashLen : hash[i] = 0

\* hash < 256^n
Short(hash, n) == \A i \in 1 .. HashLen - n : hash[i] = 0

\* The hash is below the target; where the mantissa of the target begins with a
\* zero byte (difficulty 1 is such a one, 0x1d00ffff), below the target rounded up
\* to a power of 256.
Meets(hash, t) ==
    \/ Less(hash, bnt_get_targetstr(t))
    \/ ~Normal(t) /\ Short(hash, t.exp - 1)

\* What the comparison of the code amounts to: the hash meets the target, but the
\* hash 0 is rejected.
CompareLaw(hash, past, t) ==
    Below(bnt_get_bits(hash, past), t) <=> ~IsZero(hash) /\ Meets(hash, t)
=============================================================================

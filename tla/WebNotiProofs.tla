--------------------------- MODULE WebNotiProofs ---------------------------
(***************************************************************************)
(* The status file, for any writers, texts and bounds: type correctness,    *)
(* the three invariants of WebNoti, and that it implements StatusPage.      *)
(***************************************************************************)
EXTENDS WebNoti, TLAPS

\* Without company a writer that has the file open finds it empty, and is the
\* only one that has.
Alone ==
    ~overlap => \A w \in Writers : wpc[w] = "open" =>
                    file = <<>> /\ \A v \in Writers \ {w} : wpc[v] # "open"

IInv == TypeOK /\ BeginsWithLast /\ TornTakesTwo /\ Alone /\ EmptyHasReason

\* What fclose leaves: a sequence of cells that is not empty and begins with the
\* text; on an empty file it is the text and nothing else.
LEMMA WrittenText ==
    ASSUME NEW m \in Texts, NEW f \in Seq(Cells)
    PROVE  /\ Written(m, f) \in Seq(Cells)
           /\ Written(m, f) # <<>>
           /\ BeginsWith(Written(m, f), m)
           /\ Written(m, f)[1][1] = m
           /\ f = <<>> => Whole(Written(m, f))
<1> DEFINE n == IF Length[m] > Len(f) THEN Length[m] ELSE Len(f)
<1> DEFINE g == Written(m, f)
<1>1. Length[m] \in Nat /\ Length[m] >= 1 /\ Len(f) \in Nat
  BY TextsAssumption
<1>2. n \in Nat /\ n >= 1 /\ n >= Length[m] /\ (f = <<>> => n = Length[m])
  BY <1>1
<1> HIDE DEF n
<1>3. g = [i \in 1 .. n |-> IF i <= Length[m] THEN <<m, i>> ELSE f[i]]
  BY DEF n, Written
<1>4. \A i \in 1 .. n : g[i] \in Cells
  <2> SUFFICES ASSUME NEW i \in 1 .. n PROVE g[i] \in Cells
    OBVIOUS
  <2>1. CASE i <= Length[m]
    BY <2>1, <1>3, <1>2, <1>1 DEF Cells
  <2>2. CASE ~(i <= Length[m])
    <3>1. i \in 1 .. Len(f)
      BY <2>2, <1>1 DEF n
    <3>2. f[i] \in Cells
      BY <3>1
    <3> QED BY <2>2, <3>2, <1>3
  <2> QED BY <2>1, <2>2
<1>5. g \in [1 .. n -> Cells]
  BY <1>3, <1>4
<1>6. g \in Seq(Cells) /\ Len(g) = n
  BY <1>5, <1>2
<1>7. g # <<>>
  BY <1>6, <1>2
<1>8. \A i \in 1 .. Length[m] : g[i] = <<m, i>>
  BY <1>3, <1>2, <1>1
<1>9. BeginsWith(g, m)
  BY <1>8, <1>6, <1>2 DEF BeginsWith
<1>10. g[1][1] = m
  BY <1>8, <1>1
<1>11. f = <<>> => Whole(g)
  BY <1>9, <1>6, <1>2 DEF Whole
<1> QED BY <1>6, <1>7, <1>9, <1>10, <1>11

LEMMA InitInvariant == Init => IInv
<1> SUFFICES ASSUME Init PROVE IInv
  OBVIOUS
<1>1. TypeOK
  <2>1. file \in Seq(Cells)
    BY DEF Init
  <2>2. begun \in 0 .. MaxWrites /\ failures \in 0 .. MaxFailures
    BY BoundsAssumption DEF Init
  <2>3. overlap \in BOOLEAN /\ excuse \in BOOLEAN /\ last \in Texts \cup {NoText}
    BY DEF Init
  <2>4. /\ wpc \in [Writers -> {"idle", "begun", "open", "dead"}]
        /\ text \in [Writers -> Texts \cup {NoText}]
        /\ \A w \in Writers : wpc[w] \in {"begun", "open"} => text[w] \in Texts
    BY DEF Init
  <2> QED BY <2>1, <2>2, <2>3, <2>4 DEF TypeOK
<1> QED BY <1>1 DEF Init, IInv, BeginsWithLast, TornTakesTwo, Alone, EmptyHasReason

\* Called gives the writer a text, also one that had none.
LEMMA CalledText ==
    ASSUME TypeOK, NEW w \in Writers, Called(w)
    PROVE  /\ begun' \in 0 .. MaxWrites
           /\ text' \in [Writers -> Texts \cup {NoText}]
           /\ text'[w] \in Texts
           /\ \A v \in Writers \ {w} : text'[v] = text[v]
           /\ wpc[w] \in {"idle", "begun"}
<1>1. CASE w \in Tools /\ wpc[w] = "begun" /\ UNCHANGED <<begun, text>>
  BY <1>1 DEF TypeOK
<1>2. CASE /\ w \in Miners /\ wpc[w] = "idle" /\ begun < MaxWrites
           /\ begun' = begun + 1
           /\ \E m \in Texts : text' = [text EXCEPT ![w] = m]
  BY <1>2, BoundsAssumption DEF TypeOK
<1> QED BY <1>1, <1>2 DEF Called

LEMMA FailBounded ==
    ASSUME TypeOK, NEW ok \in BOOLEAN, Fail(ok)
    PROVE  failures' \in 0 .. MaxFailures
  BY BoundsAssumption DEF TypeOK, Fail

LEMMA NextTypeOK == TypeOK /\ [Next]_vars => TypeOK'
<1> SUFFICES ASSUME TypeOK, [Next]_vars PROVE TypeOK'
  OBVIOUS
<1>0. CASE UNCHANGED vars
  BY <1>0 DEF vars, TypeOK
<1> SUFFICES ASSUME NEW w \in Writers, Writer(w) PROVE TypeOK'
  BY <1>0 DEF Next
<1>1. CASE OpenFirst(w)
  <2> PICK ok \in BOOLEAN : /\ Fail(ok) /\ Cut(ok)
                            /\ overlap' = IF ok THEN Others(w) # {} ELSE overlap
    BY <1>1 DEF OpenFirst
  <2>1. file' \in Seq(Cells)
    BY DEF Cut, TypeOK
  <2>2. failures' \in 0 .. MaxFailures
    BY FailBounded
  <2>3. begun' \in 0 .. MaxWrites
    BY <1>1, BoundsAssumption DEF OpenFirst, TypeOK
  <2>4. overlap' \in BOOLEAN
    BY DEF TypeOK
  <2> QED BY <1>1, <2>1, <2>2, <2>3, <2>4 DEF OpenFirst, TypeOK
<1>2. CASE Open(w)
  <2>1. file' \in Seq(Cells)
    BY <1>2 DEF Open, Cut
  <2>2. overlap' \in BOOLEAN
    BY <1>2 DEF Open
  <2> QED BY <1>2, <2>1, <2>2, CalledText DEF Open, TypeOK
<1>3. CASE OpenFails(w)
  <2>1. failures' \in 0 .. MaxFailures
    BY <1>3, FailBounded DEF OpenFails
  <2> QED BY <1>3, <2>1, CalledText DEF OpenFails, TypeOK
<1>4. CASE Close(w)
  <2>1. text[w] \in Texts
    BY <1>4 DEF Close, TypeOK
  <2>2. file' \in Seq(Cells)
    BY <1>4, <2>1, WrittenText DEF Close, TypeOK
  <2> QED BY <1>4, <2>1, <2>2 DEF Close, TypeOK
<1>5. CASE CloseFails(w)
  <2>1. failures' \in 0 .. MaxFailures
    BY <1>5, FailBounded DEF CloseFails
  <2> QED BY <1>5, <2>1 DEF CloseFails, TypeOK
<1>6. CASE Die(w)
  <2>1. failures' \in 0 .. MaxFailures
    BY <1>6, FailBounded DEF Die
  <2> QED BY <1>6, <2>1 DEF Die, TypeOK
<1>7. CASE Restart(w)
  BY <1>7 DEF Restart, TypeOK
<1> QED BY <1>1, <1>2, <1>3, <1>4, <1>5, <1>6, <1>7 DEF Writer

\* A writer that does not touch the file leaves what is said of the file true.
LEMMA FileKept ==
    ASSUME IInv, NEW w \in Writers, UNCHANGED <<file, last, overlap>>,
           \A v \in Writers : wpc'[v] = "open" => wpc[v] = "open"
    PROVE  BeginsWithLast' /\ TornTakesTwo' /\ Alone'
<1>1. BeginsWithLast' /\ TornTakesTwo'
  BY DEF IInv, BeginsWithLast, TornTakesTwo
<1>2. Alone'
  BY DEF IInv, Alone
<1> QED BY <1>1, <1>2

LEMMA NextInvariant == IInv /\ [Next]_vars => IInv'
<1> SUFFICES ASSUME IInv, [Next]_vars PROVE IInv'
  OBVIOUS
<1>0. CASE UNCHANGED vars
  BY <1>0 DEF vars, IInv, TypeOK, BeginsWithLast, TornTakesTwo, Alone, EmptyHasReason
<1>t. TypeOK /\ TypeOK'
  BY NextTypeOK DEF IInv
<1> SUFFICES ASSUME NEW w \in Writers, Writer(w)
             PROVE  BeginsWithLast' /\ TornTakesTwo' /\ Alone' /\ EmptyHasReason'
  BY <1>0, <1>t DEF Next, IInv
<1>w. wpc \in [Writers -> {"idle", "begun", "open", "dead"}]
  BY <1>t DEF TypeOK
<1>1. CASE OpenFirst(w)
  <2>1. wpc'[w] = "begun" /\ \A v \in Writers \ {w} : wpc'[v] = wpc[v]
    BY <1>1, <1>w DEF OpenFirst
  <2>2. EmptyHasReason'
    BY <2>1 DEF EmptyHasReason
  <2> PICK ok \in BOOLEAN : /\ Fail(ok) /\ Cut(ok)
                            /\ overlap' = IF ok THEN Others(w) # {} ELSE overlap
    BY <1>1 DEF OpenFirst
  <2>3. CASE ok
    <3>1. file' = <<>>
      BY <2>3 DEF Cut
    <3>2. ~overlap' => \A v \in Writers : wpc'[v] # "open"
      BY <2>1, <2>3 DEF Others
    <3> QED BY <2>2, <3>1, <3>2 DEF BeginsWithLast, TornTakesTwo, Alone
  <2>4. CASE ~ok
    <3>1. UNCHANGED <<file, last, overlap>>
      BY <1>1, <2>4 DEF Cut, OpenFirst
    <3> QED BY <2>1, <2>2, <3>1, FileKept
  <2> QED BY <2>3, <2>4
<1>2. CASE Open(w)
  <2>1. wpc'[w] = "open" /\ \A v \in Writers \ {w} : wpc'[v] = wpc[v]
    BY <1>2, <1>w DEF Open
  <2>2. EmptyHasReason'
    BY <2>1 DEF EmptyHasReason
  <2>3. file' = <<>>
    BY <1>2 DEF Open, Cut
  <2>4. ~overlap' => \A v \in Writers \ {w} : wpc'[v] # "open"
    BY <1>2, <2>1 DEF Open, Others
  <2>5. Alone'
    BY <2>3, <2>4 DEF Alone
  <2> QED BY <2>2, <2>3, <2>5 DEF BeginsWithLast, TornTakesTwo
<1>3. CASE OpenFails(w)
  <2>1. \A v \in Writers : wpc'[v] = "open" => wpc[v] = "open"
    BY <1>3, <1>w DEF OpenFails
  <2>2. UNCHANGED <<file, last, overlap>> /\ excuse'
    BY <1>3 DEF OpenFails
  <2> QED BY <2>1, <2>2, FileKept DEF EmptyHasReason
<1>4. CASE Close(w)
  <2>1. text[w] \in Texts
    BY <1>4, <1>t DEF Close, TypeOK
  <2>2. file \in Seq(Cells)
    BY <1>t DEF TypeOK
  <2>3. file' = Written(text[w], file) /\ last' = text[w] /\ overlap' = overlap
    BY <1>4 DEF Close
  <2>4. file' # <<>> /\ BeginsWith(file', text[w]) /\ (file = <<>> => Whole(file'))
    BY <2>1, <2>2, <2>3, WrittenText
  <2>5. BeginsWithLast' /\ EmptyHasReason'
    BY <2>1, <2>3, <2>4 DEF BeginsWithLast, EmptyHasReason
  <2>6. ~overlap => file = <<>> /\ \A v \in Writers \ {w} : wpc[v] # "open"
    BY <1>4 DEF IInv, Alone, Close
  <2>7. TornTakesTwo'
    BY <2>3, <2>4, <2>6 DEF TornTakesTwo
  <2>8. wpc'[w] = "idle" /\ \A v \in Writers \ {w} : wpc'[v] = wpc[v]
    BY <1>4, <1>w DEF Close
  <2>9. Alone'
    BY <2>3, <2>6, <2>8 DEF Alone
  <2> QED BY <2>5, <2>7, <2>9
<1>5. CASE CloseFails(w)
  <2>1. \A v \in Writers : wpc'[v] = "open" => wpc[v] = "open"
    BY <1>5, <1>w DEF CloseFails
  <2>2. UNCHANGED <<file, last, overlap>> /\ excuse'
    BY <1>5 DEF CloseFails
  <2> QED BY <2>1, <2>2, FileKept DEF EmptyHasReason
<1>6. CASE Die(w)
  <2>1. \A v \in Writers : wpc'[v] = "open" => wpc[v] = "open"
    BY <1>6, <1>w DEF Die
  <2>2. UNCHANGED <<file, last, overlap>> /\ excuse'
    BY <1>6 DEF Die
  <2> QED BY <2>1, <2>2, FileKept DEF EmptyHasReason
<1>7. CASE Restart(w)
  <2>1. \A v \in Writers : wpc'[v] \in {"begun", "open"} <=> wpc[v] \in {"begun", "open"}
    BY <1>7, <1>w DEF Restart
  <2>2. \A v \in Writers : wpc'[v] = "open" => wpc[v] = "open"
    BY <1>7, <1>w DEF Restart
  <2>3. UNCHANGED <<file, last, overlap, excuse>>
    BY <1>7 DEF Restart
  <2>4. EmptyHasReason'
    BY <2>1, <2>3 DEF IInv, EmptyHasReason
  <2> QED BY <2>2, <2>3, <2>4, FileKept
<1> QED BY <1>1, <1>2, <1>3, <1>4, <1>5, <1>6, <1>7 DEF Writer

LEMMA Invariant == Spec => []IInv
  BY InitInvariant, NextInvariant, PTL DEF Spec

\* Every variable has its type; who is writing has something to write.
THEOREM TypeCorrect == Spec => []TypeOK
<1>1. IInv => TypeOK
  BY DEF IInv
<1> QED BY <1>1, Invariant, PTL

\* Whatever writers do to each other and whoever is killed, a file that is not
\* empty begins with the whole text written last; what may be wrong is behind it.
THEOREM BeginsWithLastWritten == Spec => []BeginsWithLast
<1>1. IInv => BeginsWithLast
  BY DEF IInv
<1> QED BY <1>1, Invariant, PTL

\* bnt_set_status_noti_web never leaves the rest of an older text behind the new
\* one unless another writer was about: one publication alone puts it right.
THEOREM TearsOnlyInCompany == Spec => []TornTakesTwo
<1>1. IInv => TornTakesTwo
  BY DEF IInv
<1> QED BY <1>1, Invariant, PTL

\* The page goes blank for good only by an open or write that failed, whose
\* result bnt_set_status_noti_web drops, or a writer that was killed.
THEOREM BlankHasReason == Spec => []EmptyHasReason
<1>1. IInv => EmptyHasReason
  BY DEF IInv
<1> QED BY <1>1, Invariant, PTL

-----------------------------------------------------------------------------
Underway == {v \in Writers : wpc[v] \in {"begun", "open"}}

Shown(f) == IF f = <<>> THEN NoText ELSE f[1][1]

LEMMA StepRefines == TypeOK /\ [Next]_vars => [Page!PNext]_(Page!pvars)
<1> DEFINE page == Shown(file)
<1> SUFFICES ASSUME TypeOK, Next
             PROVE  Page!PNext \/ UNCHANGED Page!pvars
  BY DEF vars, Page!pvars
<1> PICK w \in Writers : Writer(w)
  BY DEF Next
<1>w. wpc \in [Writers -> {"idle", "begun", "open", "dead"}]
  BY DEF TypeOK
<1>b. ASSUME UNCHANGED page, Underway' = Underway \cup {w} PROVE Page!PNext
  BY <1>b DEF Page!PNext, Page!Begin, Underway, Shown
<1>c. ASSUME page' = NoText, Underway' = Underway \cup {w} PROVE Page!PNext
  BY <1>c DEF Page!PNext, Page!Clear, Underway, Shown
<1>g. ASSUME UNCHANGED page, w \in Underway, Underway' = Underway \ {w}
      PROVE  Page!PNext
  BY <1>g DEF Page!PNext, Page!GiveUp, Underway, Shown
<1>p. ASSUME NEW s \in Texts, page' = s, w \in Underway, Underway' = Underway \ {w}
      PROVE  Page!PNext
  BY <1>p DEF Page!PNext, Page!Publish, Underway, Shown
<1>u. ASSUME UNCHANGED page, UNCHANGED Underway PROVE UNCHANGED Page!pvars
  BY <1>u DEF Page!pvars, Underway, Shown
<1>1. CASE OpenFirst(w)
  <2>1. Underway' = Underway \cup {w}
    BY <1>1, <1>w DEF OpenFirst, Underway
  <2>2. page' = NoText \/ UNCHANGED page
    BY <1>1 DEF OpenFirst, Cut, Shown
  <2> QED BY <2>1, <2>2, <1>b, <1>c
<1>2. CASE Open(w)
  <2>1. Underway' = Underway \cup {w}
    BY <1>2, <1>w DEF Open, Underway
  <2>2. page' = NoText
    BY <1>2 DEF Open, Cut, Shown
  <2> QED BY <2>1, <2>2, <1>c
<1>3. CASE OpenFails(w)
  <2>1. UNCHANGED page
    BY <1>3 DEF OpenFails, Shown
  <2>2. CASE wpc[w] = "begun"
    <3>1. w \in Underway /\ Underway' = Underway \ {w}
      BY <1>3, <2>2, <1>w DEF OpenFails, Underway
    <3> QED BY <2>1, <3>1, <1>g
  <2>3. CASE wpc[w] = "idle"
    <3>1. UNCHANGED Underway
      BY <1>3, <2>3, <1>w DEF OpenFails, Underway
    <3> QED BY <2>1, <3>1, <1>u
  <2>4. wpc[w] \in {"idle", "begun"}
    BY <1>3 DEF OpenFails, Called
  <2> QED BY <2>2, <2>3, <2>4
<1>4. CASE Close(w)
  <2>1. w \in Underway /\ Underway' = Underway \ {w}
    BY <1>4, <1>w DEF Close, Underway
  <2>2. text[w] \in Texts
    BY <1>4 DEF Close, TypeOK
  <2>3. page' = text[w]
    BY <1>4, <2>2, WrittenText DEF Close, Shown, TypeOK
  <2> QED BY <2>1, <2>2, <2>3, <1>p
<1>5. CASE CloseFails(w)
  <2>1. w \in Underway /\ Underway' = Underway \ {w}
    BY <1>5, <1>w DEF CloseFails, Underway
  <2>2. UNCHANGED page
    BY <1>5 DEF CloseFails, Shown
  <2> QED BY <2>1, <2>2, <1>g
<1>6. CASE Die(w)
  <2>1. w \in Underway /\ Underway' = Underway \ {w}
    BY <1>6, <1>w DEF Die, Underway
  <2>2. UNCHANGED page
    BY <1>6 DEF Die, Shown
  <2> QED BY <2>1, <2>2, <1>g
<1>7. CASE Restart(w)
  <2>1. UNCHANGED page /\ UNCHANGED Underway
    BY <1>7, <1>w DEF Restart, Underway, Shown
  <2> QED BY <2>1, <1>u
<1> QED BY <1>1, <1>2, <1>3, <1>4, <1>5, <1>6, <1>7 DEF Writer

\* The file with its two unguarded steps, its stale tails and its killed writers
\* is, seen by its first status, the page of StatusPage.
THEOREM WebNotiImplementsPage == Spec => ImplementsPage
<1>1. Init => Page!PInit
  BY DEF Init, Page!PInit
<1> QED BY <1>1, TypeCorrect, StepRefines, PTL DEF Spec, ImplementsPage, Page!PSpec
=============================================================================

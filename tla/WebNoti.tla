------------------------------- MODULE WebNoti -------------------------------
(***************************************************************************)
(* The status file of the web page (app/demo/bnt_demoutil.c), rewritten by  *)
(* bnt_getnonce in its DEMO build and by bnt_setnoti.  fopen(.., "w") cuts  *)
(* the file off; the text stays in the stream's buffer until fclose writes  *)
(* it in one piece from where this stream stands, the beginning.  Writers   *)
(* do not know of each other, and may be killed and started again.          *)
(*                                                                          *)
(* A text is a status, workid, time, target and nonce; here it is a name    *)
(* and a length.  The file is the sequence of its bytes: byte i of text m   *)
(* is <<m, i>>.                                                             *)
(***************************************************************************)
EXTENDS Integers, Sequences

CONSTANTS Miners,     \* processes of bnt_getnonce
          Tools,      \* processes of bnt_setnoti
          Texts,      \* what may be written
          Length,     \* length of each text
          NoText,
          MaxWrites,  \* publications begun
          MaxFailures \* opens and writes that fail, and writers killed

Writers == Miners \cup Tools

ASSUME WritersAssumption == Miners \cap Tools = {}
ASSUME TextsAssumption == NoText \notin Texts /\ Length \in [Texts -> Nat \ {0}]
ASSUME BoundsAssumption == MaxWrites \in Nat /\ MaxFailures \in Nat

VARIABLES file,     \* bytes in the file
          wpc,      \* "idle", "begun" (bnt_setnoti after its first open),
                    \* "open", or "dead"
          text,     \* what each writer is about to write
          begun, failures,
          last,     \* history: text written last
          overlap,  \* history: a writer has had company since the last cut
          excuse    \* history: a writer failed or died since the last write

vars == <<file, wpc, text, begun, failures, last, overlap, excuse>>

\* Mutant: the file is opened without cutting it off.
Cut_Not(ok) == UNCHANGED file

Cut(ok) == file' = IF ok THEN <<>> ELSE file

Others(w) == {v \in Writers \ {w} : wpc[v] \in {"begun", "open"}}

Init ==
    /\ file = <<>>
    /\ wpc = [w \in Writers |-> "idle"] /\ text = [w \in Writers |-> NoText]
    /\ begun = 0 /\ failures = 0
    /\ last = NoText /\ overlap = FALSE /\ excuse = FALSE

Fail(ok) == IF ok THEN UNCHANGED failures
            ELSE failures < MaxFailures /\ failures' = failures + 1

-----------------------------------------------------------------------------
\* bnt_setnoti: main opens the file before bnt_set_status_noti_web does again,
\* and never closes this stream; nothing is written through it.
OpenFirst(w) ==
    /\ w \in Tools /\ wpc[w] = "idle" /\ begun < MaxWrites
    /\ begun' = begun + 1
    /\ \E m \in Texts : text' = [text EXCEPT ![w] = m]
    /\ \E ok \in BOOLEAN :
         /\ Fail(ok) /\ Cut(ok)
         /\ overlap' = IF ok THEN Others(w) # {} ELSE overlap
    /\ wpc' = [wpc EXCEPT ![w] = "begun"]
    /\ UNCHANGED <<last, excuse>>

\* Mutant: the miner calls with no status.
Called_NoText(w) ==
    \/ w \in Tools /\ wpc[w] = "begun" /\ UNCHANGED <<begun, text>>
    \/ /\ w \in Miners /\ wpc[w] = "idle" /\ begun < MaxWrites
       /\ begun' = begun + 1
       /\ UNCHANGED text

\* A call of bnt_set_status_noti_web: what it is given to write.
Called(w) ==
    \/ w \in Tools /\ wpc[w] = "begun" /\ UNCHANGED <<begun, text>>
    \/ /\ w \in Miners /\ wpc[w] = "idle" /\ begun < MaxWrites
       /\ begun' = begun + 1
       /\ \E m \in Texts : text' = [text EXCEPT ![w] = m]

\* Mutant: open, write and close are one step.
Open_AtOnce(w) ==
    /\ Called(w)
    /\ file' = [i \in 1 .. Length[text'[w]] |-> <<text'[w], i>>]
    /\ overlap' = (Others(w) # {})
    /\ wpc' = [wpc EXCEPT ![w] = "idle"]
    /\ last' = text'[w]
    /\ UNCHANGED <<failures, excuse>>

\* bnt_open_noti_web cuts the file off ...
Open(w) ==
    /\ Called(w)
    /\ Cut(TRUE)
    /\ overlap' = (Others(w) # {})
    /\ wpc' = [wpc EXCEPT ![w] = "open"]
    /\ UNCHANGED <<failures, last, excuse>>

\* ... or fails, and bnt_set_status_noti_web returns without a word.
OpenFails(w) ==
    /\ Called(w)
    /\ Fail(FALSE)
    /\ wpc' = [wpc EXCEPT ![w] = "idle"]
    /\ excuse' = TRUE
    /\ UNCHANGED <<file, last, overlap>>

\* Mutant: the text is written behind what is there.
Written_Appended(m, f) == f \o [i \in 1 .. Length[m] |-> <<m, i>>]

\* The text from the beginning of the file on; what is behind it stays.
Written(m, f) ==
    [i \in 1 .. (IF Length[m] > Len(f) THEN Length[m] ELSE Len(f)) |->
        IF i <= Length[m] THEN <<m, i>> ELSE f[i]]

\* Mutant: the stream is not closed, and its buffer never written.
Close_Forgotten(w) ==
    /\ wpc[w] = "open"
    /\ wpc' = [wpc EXCEPT ![w] = "idle"]
    /\ UNCHANGED <<file, text, begun, failures, last, overlap, excuse>>

\* Mutant: only the miner closes the stream.
Close_MinersOnly(w) ==
    /\ wpc[w] = "open"
    /\ wpc' = [wpc EXCEPT ![w] = "idle"]
    /\ IF w \in Miners THEN file' = Written(text[w], file) /\ last' = text[w]
       ELSE UNCHANGED <<file, last>>
    /\ UNCHANGED <<text, begun, failures, overlap, excuse>>

\* fwrite and fclose.
Close(w) ==
    /\ wpc[w] = "open"
    /\ file' = Written(text[w], file)
    /\ wpc' = [wpc EXCEPT ![w] = "idle"]
    /\ last' = text[w] /\ excuse' = FALSE
    /\ UNCHANGED <<text, begun, failures, overlap>>

\* The write of fclose fails; its result is ignored.
CloseFails(w) ==
    /\ wpc[w] = "open"
    /\ Fail(FALSE)
    /\ wpc' = [wpc EXCEPT ![w] = "idle"]
    /\ excuse' = TRUE
    /\ UNCHANGED <<file, text, begun, last, overlap>>

\* The writer is killed: what is in its buffer is lost.
Die(w) ==
    /\ wpc[w] \in {"begun", "open"}
    /\ Fail(FALSE)
    /\ wpc' = [wpc EXCEPT ![w] = "dead"]
    /\ excuse' = TRUE
    /\ UNCHANGED <<file, text, begun, last, overlap>>

Restart(w) ==
    /\ wpc[w] = "dead"
    /\ wpc' = [wpc EXCEPT ![w] = "idle"]
    /\ UNCHANGED <<file, text, begun, failures, last, overlap, excuse>>

Writer(w) == \/ OpenFirst(w) \/ Open(w) \/ OpenFails(w)
             \/ Close(w) \/ CloseFails(w) \/ Die(w) \/ Restart(w)

Next == \E w \in Writers : Writer(w)

\* A writer that has begun goes on, unless it is killed.
Finish(w) == (w \in Tools /\ (Open(w) \/ OpenFails(w))) \/ Close(w) \/ CloseFails(w)

Spec == Init /\ [][Next]_vars /\ \A w \in Writers : WF_vars(Finish(w))

-----------------------------------------------------------------------------
Cells == Texts \X (Nat \ {0})

TypeOK ==
    /\ file \in Seq(Cells)
    /\ wpc \in [Writers -> {"idle", "begun", "open", "dead"}]
    /\ text \in [Writers -> Texts \cup {NoText}]
    /\ begun \in 0 .. MaxWrites /\ failures \in 0 .. MaxFailures
    /\ last \in Texts \cup {NoText}
    /\ overlap \in BOOLEAN /\ excuse \in BOOLEAN
    /\ \A w \in Writers : wpc[w] \in {"begun", "open"} => text[w] \in Texts

\* f begins with the whole of m.
BeginsWith(f, m) ==
    Len(f) >= Length[m] /\ \A i \in 1 .. Length[m] : f[i] = <<m, i>>

Whole(f) == \E m \in Texts : BeginsWith(f, m) /\ Len(f) = Length[m]

\* Whatever writers do to each other, a file that is not empty begins with the
\* whole text written last.
BeginsWithLast == file # <<>> => last \in Texts /\ BeginsWith(file, last)

\* A text with the rest of another behind it takes two writers at once; one
\* publication on its own, later, puts the file right again.
TornTakesTwo == file # <<>> /\ ~Whole(file) => overlap

\* Once something was published the file is empty only while somebody is about
\* to write it, or because somebody failed to.
EmptyHasReason ==
    file = <<>> /\ last # NoText =>
        excuse \/ \E w \in Writers : wpc[w] \in {"begun", "open"}

\* In the end there is a status on the page, if a publication was begun and the
\* last ones did not fail.
EndsShown == <>[](begun = 0 \/ excuse \/ file # <<>>)

Page == INSTANCE StatusPage WITH
    Publishers <- Writers,
    Statuses   <- Texts,
    NoStatus   <- NoText,
    page       <- IF file = <<>> THEN NoText ELSE file[1][1],
    underway   <- {w \in Writers : wpc[w] \in {"begun", "open"}}

\* The first status on the page is that of the last publication, or none while
\* somebody publishes or after somebody failed to: see StatusPage.
ImplementsPage == Page!PSpec
=============================================================================

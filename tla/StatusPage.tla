----------------------------- MODULE StatusPage -----------------------------
(***************************************************************************)
(* What the web page can rely on: the status it finds is that of the last   *)
(* publication, or none while somebody publishes one or has failed to.  A   *)
(* publication has two steps; several may be under way at once.             *)
(***************************************************************************)
CONSTANTS Publishers, Statuses, NoStatus

VARIABLES page,     \* status the page shows, or NoStatus
          underway  \* who is publishing

pvars == <<page, underway>>

PInit == page = NoStatus /\ underway = {}

\* A publisher that could not clear the page tries once more.
Begin(p) == underway' = underway \cup {p} /\ UNCHANGED page

\* The page is cleared for a new status, maybe again by the same publisher.
Clear(p) == page' = NoStatus /\ underway' = underway \cup {p}

Publish(p, s) ==
    /\ p \in underway
    /\ page' = s
    /\ underway' = underway \ {p}

\* A publisher fails or dies and leaves the page as it is.
GiveUp(p) ==
    /\ p \in underway
    /\ underway' = underway \ {p}
    /\ UNCHANGED page

PNext ==
    \E p \in Publishers : \/ Begin(p) \/ Clear(p) \/ GiveUp(p)
                          \/ \E s \in Statuses : Publish(p, s)

PSpec == PInit /\ [][PNext]_pvars
=============================================================================

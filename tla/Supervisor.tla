----------------------------- MODULE Supervisor -----------------------------
(***************************************************************************)
(* What the application promises about each program it keeps running for   *)
(* the user.  It is brought up, and brought up again whenever it is lost;  *)
(* it is given up only when MaxRetries attempts in a row have failed; one  *)
(* that ends by itself (exit code 0), or has no executable, is left alone. *)
(* Once the application closes everything goes down for good.              *)
(***************************************************************************)
EXTENDS Naturals

CONSTANTS Programs, MaxRetries

VARIABLES
    phase,    \* of each program
    tries,    \* of each program: attempts since it was last up
    closed    \* the application was told to shut down

Phases == {"idle", "trying", "up", "ended", "givenUp"}

vars == <<phase, tries, closed>>

Init ==
    /\ phase = [p \in Programs |-> "idle"]
    /\ tries = [p \in Programs |-> 0]
    /\ closed = FALSE

\* Bringing programs up, which only an open application does; a program that
\* has no executable has ended before it began.
Start ==
    /\ ~closed
    /\ phase = [p \in Programs |-> "idle"]
    /\ phase' \in [Programs -> {"trying", "ended"}]
    /\ UNCHANGED <<tries, closed>>

Moves(p, to, n) ==
    /\ phase' = [phase EXCEPT ![p] = to]
    /\ tries' = [tries EXCEPT ![p] = n]
    /\ UNCHANGED closed

Rise(p) == phase[p] = "trying" /\ Moves(p, "up", 0)

\* A program that is lost while the application is open is tried again.
Lose(p) ==
    /\ phase[p] = "up" /\ ~closed
    /\ \E n \in {tries[p], tries[p] + 1} : Moves(p, "trying", n)

\* An attempt failed, and another one follows.
Retry(p) ==
    /\ phase[p] = "trying" /\ ~closed
    /\ tries[p] <= MaxRetries
    /\ Moves(p, "trying", tries[p] + 1)

GiveUp(p) ==
    /\ phase[p] = "trying" /\ ~closed
    /\ tries[p] >= MaxRetries
    /\ Moves(p, "givenUp", tries[p])

\* A program ends by itself, or there is nothing to start any more.
Quit(p) ==
    /\ phase[p] \in {"trying", "up"} /\ ~closed
    /\ \E n \in {tries[p], tries[p] + 1} : Moves(p, "ended", n)

\* In a closed application what is still there goes down.
Leave(p) ==
    /\ phase[p] \in {"trying", "up"} /\ closed
    /\ Moves(p, "idle", tries[p])

\* Closing cancels what has not been brought up yet.
Close ==
    /\ ~closed
    /\ closed' = TRUE
    /\ tries' = [p \in Programs |-> 0]
    /\ phase' \in [Programs -> Phases]
    /\ \A p \in Programs : \/ phase'[p] = "idle"
                           \/ phase'[p] = phase[p] /\ phase[p] \in {"trying", "up"}

Next ==
    \/ Start \/ Close
    \/ \E p \in Programs :
          Rise(p) \/ Lose(p) \/ Retry(p) \/ GiveUp(p) \/ Quit(p) \/ Leave(p)

Spec == Init /\ [][Next]_vars

\* No attempt goes on for ever, and a closed application ends everything.
Settles == \A p \in Programs : phase[p] = "trying" ~> phase[p] # "trying"
Ends == closed ~> \A p \in Programs : phase[p] = "idle"

Promise == Spec /\ Settles /\ Ends
=============================================================================

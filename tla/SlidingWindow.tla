--------------------------- MODULE SlidingWindow ---------------------------
(* What the ring buffer of signal strengths of one beacon promises, without  *)
(* its replace index and its halves: a queue of the latest WindowSize        *)
(* readings, oldest first, from which an estimate is taken when it is full   *)
(* and half of it is new since the estimate before.                          *)
EXTENDS Integers, Sequences

CONSTANTS
    Half,      \* readings that must be new for the next estimate
    Reading    \* the readings that can be received

WindowSize == 2 * Half

VARIABLES
    window,    \* the readings held, oldest first
    fresh,     \* how many of them no estimate has used yet, at most Half
    reported   \* the number of estimates taken, modulo 2

wvars == <<window, fresh, reported>>

Init ==
    /\ window \in {<<>>} \cup {<<r>> : r \in Reading}
    /\ fresh = Half
    /\ reported = 0

(* Until the window is full every reading is kept.                           *)
Fill ==
    /\ Len(window) < WindowSize
    /\ \E r \in Reading : window' = Append(window, r)
    /\ UNCHANGED <<fresh, reported>>

(* A reading pushes the oldest one out.                                      *)
Slide ==
    /\ Len(window) = WindowSize
    /\ fresh < Half
    /\ \E r \in Reading : window' = Append(Tail(window), r)
    /\ fresh' = fresh + 1
    /\ UNCHANGED reported

(* The estimate reads the window and leaves it as it is.                     *)
Report ==
    /\ Len(window) = WindowSize
    /\ fresh = Half
    /\ fresh' = 0
    /\ reported' = 1 - reported
    /\ UNCHANGED window

Next == Fill \/ Slide \/ Report

Spec == Init /\ [][Next]_wvars
=============================================================================

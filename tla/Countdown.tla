----------------------------- MODULE Countdown -----------------------------
(***************************************************************************)
(* What a graceful shutdown promises the users, who only see what the     *)
(* system channel announces: one deadline that nobody moves, announced at *)
(* once and then ever closer, and never as closer than it is.             *)
(* A server may also be stopped at once.                                  *)
(***************************************************************************)
EXTENDS Integers, Sequences

CONSTANTS
    TicksPerSecond,
    Cooldown            \* seconds from the first announcement to the deadline

VARIABLES
    left,               \* ticks to the deadline, or Never
    said,               \* the seconds announced
    stopped

cvars == <<left, said, stopped>>

Never == Cooldown * TicksPerSecond + 1

Init == left = Never /\ said = << >> /\ stopped = FALSE

Begin ==
    /\ left = Never
    /\ left' = Cooldown * TicksPerSecond
    /\ said' = <<Cooldown>>
    /\ UNCHANGED stopped

Announce ==
    /\ left # Never
    /\ \E n \in 1 .. said[Len(said)] - 1 :
        /\ n * TicksPerSecond >= left
        /\ said' = Append(said, n)
    /\ UNCHANGED <<left, stopped>>

Pass == left # Never /\ left' = left - 1 /\ UNCHANGED <<said, stopped>>

Stop == stopped' = TRUE /\ UNCHANGED <<left, said>>

Spec == Init /\ [][Begin \/ Announce \/ Pass \/ Stop]_cvars
=============================================================================

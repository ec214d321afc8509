------------------------------ MODULE TraceLog ------------------------------
(***************************************************************************)
(* What a trace of bounded size promises: the newest events, as many as    *)
(* fit, oldest first, in the order in which they were added.               *)
(***************************************************************************)
EXTENDS Integers, Sequences

VARIABLES capacity, log

\* The last n elements of s, or all of it.
Newest(n, s) ==
    LET m == IF Len(s) <= n THEN Len(s) ELSE n
    IN  [i \in 1 .. m |-> s[Len(s) - m + i]]

Init == capacity \in Nat /\ log = <<>>

Add(e) == log' = Newest(capacity, Append(log, e)) /\ UNCHANGED capacity

\* Some event is added; it is then the last of the log.
Next == log' # <<>> /\ Add(log'[Len(log')])

Spec == Init /\ [][Next]_<<capacity, log>>
=============================================================================

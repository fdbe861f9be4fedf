--------------------------- MODULE SourceBuckets ---------------------------
(***************************************************************************)
(* What the lookup rate limiter promises to every source, its bounded      *)
(* table left out: one GCRA bucket per source, kept for ever.              *)
(*                                                                         *)
(* The module is abstract: it speaks of no table, no lock and no eviction. *)
(* SourceIPLimiter implements it as long as calls reach the mutex in the   *)
(* order of their clock readings.                                          *)
(***************************************************************************)
EXTENDS Integers, Sequences

CONSTANTS
  Sources,    \* source addresses
  Interval,   \* time one admission costs, a natural number
  Tolerance   \* how far ahead a bucket may run and still admit, likewise

VARIABLES
  now,      \* the clock
  due,      \* theoretical arrival time of the next admission, per source
  granted   \* the admitted arrival times, per source, in the order let through

buckets == <<now, due, granted>>

Settled(d, t) == IF d < t THEN t ELSE d

Init ==
  /\ now = 0
  /\ due = [s \in Sources |-> 0]
  /\ granted = [s \in Sources |-> <<>>]

Advance ==
  /\ now' = now + 1
  /\ UNCHANGED <<due, granted>>

(* An arrival may be admitted some time after it happened. *)
Admit(s, t) ==
  /\ t >= due[s] - Tolerance
  /\ due' = [due EXCEPT ![s] = Settled(@, t) + Interval]
  /\ granted' = [granted EXCEPT ![s] = Append(@, t)]
  /\ UNCHANGED now

Next ==
  \/ Advance
  \/ \E s \in Sources, t \in 0..now : Admit(s, t)

Spec == Init /\ [][Next]_buckets

============================================================================

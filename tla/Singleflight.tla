---------------------------- MODULE Singleflight ----------------------------
(***************************************************************************)
(* What the singleflight table promises its callers, without locks,        *)
(* guards or notifications: a task either leads the one flight of its key  *)
(* or joins it; a flight lands once, with a result or (its leader having   *)
(* been dropped) with None; whoever joined a flight takes the outcome that *)
(* flight landed with.  Inflight implements this specification.            *)
(***************************************************************************)

CONSTANTS Tasks, Keys, Results, None, Open

VARIABLES
  flight,    \* flight[k]: the task leading the flight of k, or None
  outcome,   \* outcome[t]: what the flight led by t landed with, or Open
  joined,    \* joined[t]: the flight t joined, or None
  taken      \* taken[t]: the outcome t was handed as a follower, or Open

vars == <<flight, outcome, joined, taken>>

Init ==
  /\ flight  = [k \in Keys |-> None]
  /\ outcome = [t \in Tasks |-> Open]
  /\ joined  = [t \in Tasks |-> None]
  /\ taken   = [t \in Tasks |-> Open]

\* t takes part in no flight yet.
Fresh(t) ==
  /\ joined[t] = None
  /\ outcome[t] = Open
  /\ \A k \in Keys : flight[k] # t

Depart(t, k) ==
  /\ Fresh(t) /\ flight[k] = None
  /\ flight' = [flight EXCEPT ![k] = t]
  /\ UNCHANGED <<outcome, joined, taken>>

Join(t, k) ==
  /\ Fresh(t) /\ flight[k] # None
  /\ joined' = [joined EXCEPT ![t] = flight[k]]
  /\ UNCHANGED <<flight, outcome, taken>>

\* The flight of k ends: its key is free again in the same step in which its
\* outcome becomes visible.
Land(k, o) ==
  /\ flight[k] # None
  /\ outcome' = [outcome EXCEPT ![flight[k]] = o]
  /\ flight'  = [flight EXCEPT ![k] = None]
  /\ UNCHANGED <<joined, taken>>

Take(t) ==
  /\ joined[t] # None /\ taken[t] = Open
  /\ outcome[joined[t]] # Open
  /\ taken' = [taken EXCEPT ![t] = outcome[joined[t]]]
  /\ UNCHANGED <<flight, outcome, joined>>

Next ==
  \/ \E t \in Tasks, k \in Keys : Depart(t, k) \/ Join(t, k)
  \/ \E k \in Keys, o \in Results \cup {None} : Land(k, o)
  \/ \E t \in Tasks : Take(t)

Spec == Init /\ [][Next]_vars
=============================================================================

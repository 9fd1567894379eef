---------------------------- MODULE WriteThrough ----------------------------
(***************************************************************************)
(* What a PUT promises, whatever its chunks and parts are: the upstream    *)
(* gets the whole body or nothing, and the cache gets what the upstream    *)
(* got, if it fits the cap.  A body of exactly the cap may be skipped.     *)
(***************************************************************************)
EXTENDS Naturals

CONSTANTS Cap, MaxBytes, None

VARIABLES
  received,   \* bytes of the body received so far
  closed,     \* the body has ended
  object,     \* size of the object the upload left at the upstream, or None
  cached,     \* size of the entry the upload left in the cache, or None
  verdict     \* what the client has been told

vars == <<received, closed, object, cached, verdict>>

Init ==
  /\ received = 0
  /\ closed = FALSE
  /\ object = None
  /\ cached = None
  /\ verdict = "open"

Receive ==
  /\ verdict = "open" /\ ~closed
  /\ received' \in received..MaxBytes
  /\ UNCHANGED <<closed, object, cached, verdict>>

Close ==
  /\ verdict = "open" /\ ~closed
  /\ closed' = TRUE
  /\ UNCHANGED <<received, object, cached, verdict>>

\* The upstream completes the upload, possibly after the client was told off.
Commit ==
  /\ closed /\ object = None
  /\ object' = received
  /\ UNCHANGED <<received, closed, cached, verdict>>

\* What the cache may hold after an upload of n bytes.
Cachings(n) == IF n < Cap THEN {n} ELSE IF n = Cap THEN {n, None} ELSE {None}

Accept ==
  /\ verdict = "open" /\ object # None
  /\ verdict' = "ok"
  /\ cached' \in Cachings(object)
  /\ UNCHANGED <<received, closed, object>>

Reject ==
  /\ verdict = "open"
  /\ verdict' = "failed"
  /\ UNCHANGED <<received, closed, object, cached>>

Next == Receive \/ Close \/ Commit \/ Accept \/ Reject

Spec == Init /\ [][Next]_vars
=============================================================================

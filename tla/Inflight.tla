------------------------------ MODULE Inflight ------------------------------
(***************************************************************************)
(* The singleflight table of src/src/inflight.rs: Inflight::acquire hands  *)
(* out a Leader guard or a Follower entry, InflightGuard::complete and its *)
(* Drop release the entry, InflightEntry::wait blocks a follower.          *)
(*                                                                         *)
(* A task is one future that calls acquire (a GET handler or a HEAD        *)
(* prefetch); it calls it at most once.  An InflightEntry is identified    *)
(* with the task whose acquire allocated it, so Arc::ptr_eq is equality.   *)
(*                                                                         *)
(* The steps are the critical sections of the two tokio Mutexes and of     *)
(* tokio's Notify.  Neither Mutex is held across an await, so a critical   *)
(* section is one step; everything else interleaves, since the runtime is  *)
(* multi-threaded (main.rs:93).                                            *)
(***************************************************************************)

CONSTANTS
  Tasks,     \* futures that may call acquire
  Keys,      \* cache keys
  Results,   \* values a leader may publish (R in the code)
  None,      \* absent entry, Option::None
  Open       \* marks a flight that has not landed, in the abstract specification

ASSUME NoneAssumption == None \notin Tasks \cup Results
ASSUME OpenAssumption == Open \notin Results \cup {None}

VARIABLES
  inner,     \* inner[k]: the entry registered under k, or None
  result,    \* result[e]: the Option<R> inside entry e
  step,      \* step[t]: how far task t is inside this module
  key,       \* key[t]: the key t called acquire with
  entry,     \* entry[t]: the entry a follower was handed
  got        \* got[t]: what wait() returned to follower t

vars == <<inner, result, step, key, entry, got>>

(***************************************************************************)
(* idle      acquire not called                                            *)
(* leader    holds the guard (released = false), complete not called       *)
(* stored    inside complete: result stored, release pending               *)
(* dropped   guard dropped unreleased, the release it spawned is pending   *)
(* follower  acquire returned Follower, notified() not yet created         *)
(* waiting   suspended on notify.notified()                                *)
(* woken     notified; about to lock and clone the result                  *)
(* done      guard released by complete, or wait() returned                *)
(* gone      the task was dropped and holds nothing any more               *)
(***************************************************************************)
Steps == {"idle", "leader", "stored", "dropped", "follower", "waiting",
          "woken", "done", "gone"}

Init ==
  /\ inner  = [k \in Keys |-> None]
  /\ result = [t \in Tasks |-> None]
  /\ step   = [t \in Tasks |-> "idle"]
  /\ key    = [t \in Tasks |-> None]
  /\ entry  = [t \in Tasks |-> None]
  /\ got    = [t \in Tasks |-> None]

\* Inflight::new in a process that starts again, where no task of the old one is.
Reset ==
  /\ inner'  = [k \in Keys |-> None]
  /\ result' = [t \in Tasks |-> None]
  /\ step'   = [t \in Tasks |-> "idle"]
  /\ key'    = [t \in Tasks |-> None]
  /\ entry'  = [t \in Tasks |-> None]
  /\ got'    = [t \in Tasks |-> None]

-----------------------------------------------------------------------------
(***************************************************************************)
(* acquire: under the table's lock, join the entry of k or allocate one.   *)
(***************************************************************************)
Lead(t, k) ==
  /\ inner[k] = None
  /\ inner' = [inner EXCEPT ![k] = t]
  /\ step'  = [step EXCEPT ![t] = "leader"]
  /\ UNCHANGED entry

\* Mutant: the follower is handed the key instead of the entry.
FollowKey(t, k) ==
  /\ inner[k] # None
  /\ entry' = [entry EXCEPT ![t] = k]
  /\ step'  = [step EXCEPT ![t] = "follower"]
  /\ UNCHANGED inner

Follow(t, k) ==
  /\ inner[k] # None
  /\ entry' = [entry EXCEPT ![t] = inner[k]]
  /\ step'  = [step EXCEPT ![t] = "follower"]
  /\ UNCHANGED inner

\* Mutant: the lookup of an existing entry is forgotten.
AcquireAlwaysLeads(t, k) ==
  /\ step[t] = "idle"
  /\ key' = [key EXCEPT ![t] = k]
  /\ inner' = [inner EXCEPT ![k] = t]
  /\ step'  = [step EXCEPT ![t] = "leader"]
  /\ UNCHANGED <<entry, result, got>>

Acquire(t, k) ==
  /\ step[t] = "idle"
  /\ key' = [key EXCEPT ![t] = k]
  /\ Lead(t, k) \/ Follow(t, k)
  /\ UNCHANGED <<result, got>>

(***************************************************************************)
(* release: if the table still maps the key to this very entry, remove it  *)
(* and notify_waiters.  tokio wakes the Notified futures that exist at     *)
(* that moment and leaves no permit behind for later ones.  The caller's   *)
(* task moves to `last`.                                                   *)
(***************************************************************************)
Waiters(e) == {t \in Tasks : step[t] = "waiting" /\ entry[t] = e}

\* Mutant: the entry is removed but nobody is notified.
ReleaseSilently(e, last) ==
  /\ inner' = IF inner[key[e]] = e THEN [inner EXCEPT ![key[e]] = None]
                                   ELSE inner
  /\ step' = [step EXCEPT ![e] = last]

Release(e, last) ==
  LET own == inner[key[e]] = e
  IN  /\ inner' = IF own THEN [inner EXCEPT ![key[e]] = None] ELSE inner
      /\ step'  = [t \in Tasks |-> IF t = e THEN last
                                   ELSE IF own /\ t \in Waiters(e) THEN "woken"
                                   ELSE step[t]]

(***************************************************************************)
(* InflightGuard::complete, in its two critical sections: store the        *)
(* result under the entry's lock, then release under the table's lock and  *)
(* set `released`, which makes the guard's Drop a no-op.                   *)
(***************************************************************************)
StoreResult(t, r) ==
  /\ step[t] = "leader"
  /\ result' = [result EXCEPT ![t] = r]
  /\ step'   = [step EXCEPT ![t] = "stored"]
  /\ UNCHANGED <<inner, key, entry, got>>

\* Mutant: `released = true` is forgotten, so Drop spawns a second release.
CompleteReleaseUnflagged(t) ==
  /\ step[t] = "stored"
  /\ Release(t, "dropped")
  /\ UNCHANGED <<result, key, entry, got>>

CompleteRelease(t) ==
  /\ step[t] = "stored"
  /\ Release(t, "done")
  /\ UNCHANGED <<result, key, entry, got>>

(***************************************************************************)
(* Drop of an unreleased guard (the leader's future is cancelled or        *)
(* panics): spawn a task that releases the entry, whatever result it has.  *)
(***************************************************************************)
\* Mutant: no Drop implementation.
DropGuardSilently(t) ==
  /\ step[t] \in {"leader", "stored"}
  /\ step' = [step EXCEPT ![t] = "gone"]
  /\ UNCHANGED <<inner, result, key, entry, got>>

DropGuard(t) ==
  /\ step[t] \in {"leader", "stored"}
  /\ step' = [step EXCEPT ![t] = "dropped"]
  /\ UNCHANGED <<inner, result, key, entry, got>>

SpawnedRelease(t) ==
  /\ step[t] = "dropped"
  /\ Release(t, "gone")
  /\ UNCHANGED <<result, key, entry, got>>

(***************************************************************************)
(* InflightEntry::wait: create the Notified future, be notified, then lock *)
(* and clone the result.  A Notified future counts as a waiter from its    *)
(* creation on; before that a notification passes it by.                   *)
(***************************************************************************)
Register(t) ==
  /\ step[t] = "follower"
  /\ step' = [step EXCEPT ![t] = "waiting"]
  /\ UNCHANGED <<inner, result, key, entry, got>>

\* Mutant: wait() returns without having been notified.
ReadResultEarly(t) ==
  /\ step[t] \in {"waiting", "woken"}
  /\ got'  = [got EXCEPT ![t] = result[entry[t]]]
  /\ step' = [step EXCEPT ![t] = "done"]
  /\ UNCHANGED <<inner, result, key, entry>>

\* Mutant: the result is taken out of the entry instead of cloned.
ReadResultTakes(t) ==
  /\ step[t] = "woken"
  /\ got'  = [got EXCEPT ![t] = result[entry[t]]]
  /\ step' = [step EXCEPT ![t] = "done"]
  /\ result' = [result EXCEPT ![entry[t]] = None]
  /\ UNCHANGED <<inner, key, entry>>

ReadResult(t) ==
  /\ step[t] = "woken"
  /\ got'  = [got EXCEPT ![t] = result[entry[t]]]
  /\ step' = [step EXCEPT ![t] = "done"]
  /\ UNCHANGED <<inner, result, key, entry>>

(***************************************************************************)
(* A follower goes away: its future is dropped at an await inside wait(),  *)
(* or it never waits (a prefetch drops the entry, handler.rs:799).         *)
(***************************************************************************)
Abandon(t) ==
  /\ step[t] \in {"follower", "waiting", "woken"}
  /\ step' = [step EXCEPT ![t] = "gone"]
  /\ UNCHANGED <<inner, result, key, entry, got>>

Next ==
  \E t \in Tasks :
    \/ \E k \in Keys : Acquire(t, k)
    \/ \E r \in Results : StoreResult(t, r)
    \/ CompleteRelease(t)
    \/ DropGuard(t)
    \/ SpawnedRelease(t)
    \/ Register(t)
    \/ ReadResult(t)
    \/ Abandon(t)

Spec == Init /\ [][Next]_vars

(***************************************************************************)
(* The runtime polls every runnable task again, and the leader's upstream  *)
(* call ends (with a result or an error: object_store's client has request *)
(* timeouts).  Arrivals and cancellations are not fair.                    *)
(***************************************************************************)
Fairness ==
  \A t \in Tasks :
    /\ WF_vars(\E r \in Results : StoreResult(t, r))
    /\ WF_vars(CompleteRelease(t))
    /\ WF_vars(SpawnedRelease(t))
    /\ WF_vars(Register(t))
    /\ WF_vars(ReadResult(t))

FairSpec == Spec /\ Fairness

-----------------------------------------------------------------------------
(***************************************************************************)
(* Properties                                                              *)
(***************************************************************************)

\* Every variable keeps the type of the field it models (inflight.rs:12-27).
TypeOK ==
  /\ inner  \in [Keys -> Tasks \cup {None}]
  /\ result \in [Tasks -> Results \cup {None}]
  /\ step   \in [Tasks -> Steps]
  /\ key    \in [Tasks -> Keys \cup {None}]
  /\ entry  \in [Tasks -> Tasks \cup {None}]
  /\ got    \in [Tasks -> Results \cup {None}]

\* t holds an unreleased guard, or the release its Drop spawned is pending.
Flying(t) == step[t] \in {"leader", "stored", "dropped"}

\* No key is left blocked: whatever entry sits in the table, somebody is still
\* going to release it (the leader's guard, or the task its Drop spawned).  An
\* entry without one would turn every later request for the key into a follower
\* that waits for ever.
NoOrphanEntry ==
  \A k \in Keys :
    inner[k] # None => key[inner[k]] = k /\ Flying(inner[k])

\* Two unreleased guards never exist for one key, cancellation included: the
\* singleflight promise itself (inflight.rs:36-53 with 66-89).
OneFlightPerKey ==
  \A t, u \in Tasks : Flying(t) /\ Flying(u) /\ key[t] = key[u] => t = u

\* A pending release always finds its own entry in the table: an entry is
\* released exactly once, by complete or by Drop and never by both, so the
\* Arc::ptr_eq test of release (inflight.rs:58) never meets a successor's entry.
ReleaseFindsOwnEntry ==
  \A t \in Tasks : Flying(t) => inner[key[t]] = t

\* A follower that returned from wait() has exactly what its leader published,
\* so all followers of a flight agree, and it is told None (and refetches by
\* itself) only when the leader's guard was dropped without a result.
FollowersAgreeWithLeader ==
  \A t \in Tasks :
    step[t] = "done" /\ entry[t] # None =>
      /\ got[t] = result[entry[t]]
      /\ step[entry[t]] \in {"done", "gone"}
      /\ got[t] = None => step[entry[t]] = "gone"

\* The table implements the abstract singleflight: storing the result and
\* removing the entry are two critical sections in the code, yet followers see
\* one landing.
Landed(t) == entry[t] = None /\ step[t] \in {"done", "gone"}
Abstract == INSTANCE Singleflight WITH
  flight  <- inner,
  joined  <- entry,
  outcome <- [t \in Tasks |-> IF Landed(t) THEN result[t] ELSE Open],
  taken   <- [t \in Tasks |-> IF entry[t] # None /\ step[t] = "done"
                              THEN got[t] ELSE Open]
ImplementsSingleflight == Abstract!Spec

\* Every entry leaves the table again, also when its leader is cancelled at the
\* worst moment (before or inside complete).
FlightsLand ==
  \A k \in Keys, e \in Tasks : inner[k] = e ~> inner[k] # e

\* A follower whose Notified future exists before the release is always woken
\* and returns from wait().
RegisteredFollowersResume ==
  \A t \in Tasks :
    (step[t] = "waiting" /\ inner[key[t]] = entry[t])
      ~> step[t] \in {"done", "gone"}

\* Every follower returns from wait() (or its client goes away): what get_object
\* relies on when it awaits the leader (handler.rs:166-190).
FollowersResume ==
  \A t \in Tasks : step[t] = "follower" ~> step[t] \in {"done", "gone"}
=============================================================================

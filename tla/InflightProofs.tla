--------------------------- MODULE InflightProofs ---------------------------
(***************************************************************************)
(* Proofs about Inflight, for every set of tasks, keys and results.        *)
(*                                                                         *)
(* The invariants of Inflight are not inductive one by one: that a pending *)
(* release finds its own entry needs the table and the tasks to agree on   *)
(* who leads, and that a follower got its leader's result needs the entry  *)
(* it holds to be final once it has been notified.  IInv adds those facts. *)
(***************************************************************************)
EXTENDS Inflight, TLAPS

\* A task has a key once it called acquire; it holds an entry exactly when
\* acquire made it a follower (a task that is gone may have been either).
Roles ==
  \A t \in Tasks :
    /\ step[t] = "idle" => got[t] = None
    /\ step[t] # "idle" => key[t] \in Keys
    /\ step[t] \in {"idle", "leader", "stored", "dropped"} => entry[t] = None
    /\ step[t] \in {"follower", "waiting", "woken"} => entry[t] \in Tasks

\* The entry a follower holds was allocated by a leader, not by a follower.
EntriesAreLed ==
  \A t \in Tasks :
    entry[t] # None =>
      /\ entry[entry[t]] = None
      /\ step[entry[t]] # "idle"
      /\ step[t] = "woken" => step[entry[t]] \in {"done", "gone"}

\* A guard released by complete has published a result.
Published ==
  \A t \in Tasks :
    entry[t] = None /\ step[t] \in {"stored", "done"} => result[t] # None

IInv ==
  /\ TypeOK
  /\ Roles
  /\ EntriesAreLed
  /\ Published
  /\ NoOrphanEntry
  /\ ReleaseFindsOwnEntry
  /\ FollowersAgreeWithLeader

-----------------------------------------------------------------------------
\* The empty table satisfies IInv (inflight.rs:30-34).
LEMMA InitIInv == Init => IInv
BY NoneAssumption
   DEF Init, IInv, TypeOK, Steps, Roles, EntriesAreLed, Published, NoOrphanEntry,
       ReleaseFindsOwnEntry, FollowersAgreeWithLeader, Flying

\* A release step finds its own entry: the branch of Release in which the
\* Arc::ptr_eq test fails is never taken, and what is left is one table removal
\* and the wake-up of the registered followers.
LEMMA ReleaseEffect ==
  ASSUME IInv, NEW e \in Tasks, Flying(e), NEW last, Release(e, last)
  PROVE  /\ key[e] \in Keys
         /\ inner[key[e]] = e
         /\ inner' = [inner EXCEPT ![key[e]] = None]
         /\ step' = [t \in Tasks |-> IF t = e THEN last
                                     ELSE IF t \in Waiters(e) THEN "woken"
                                     ELSE step[t]]
BY DEF IInv, Roles, ReleaseFindsOwnEntry, Flying, Release

\* Releasing an entry preserves IInv, whether complete does it ("done") or the
\* task that Drop spawned ("gone") (inflight.rs:55-89).
LEMMA ReleaseIInv ==
  ASSUME IInv, NEW e \in Tasks, Flying(e), NEW last \in {"done", "gone"},
         Release(e, last), last = "done" => step[e] = "stored",
         UNCHANGED <<result, key, entry, got>>
  PROVE  IInv'
<1>1. /\ key[e] \in Keys
      /\ inner[key[e]] = e
      /\ inner' = [inner EXCEPT ![key[e]] = None]
      /\ step' = [t \in Tasks |-> IF t = e THEN last
                                  ELSE IF t \in Waiters(e) THEN "woken"
                                  ELSE step[t]]
  BY ReleaseEffect
<1>2. TypeOK'
  BY <1>1 DEF IInv, TypeOK, Steps
<1>3. Roles'
  BY <1>1 DEF IInv, TypeOK, Roles, Waiters, Flying
<1>4. EntriesAreLed'
  BY <1>1, NoneAssumption DEF IInv, TypeOK, Roles, EntriesAreLed, Waiters, Flying
<1>5. Published'
  BY <1>1 DEF IInv, TypeOK, Roles, Published, Waiters, Flying
<1>6. NoOrphanEntry'
  BY <1>1, NoneAssumption DEF IInv, TypeOK, NoOrphanEntry, Waiters, Flying
<1>7. ReleaseFindsOwnEntry'
  BY <1>1, NoneAssumption
     DEF IInv, TypeOK, Roles, ReleaseFindsOwnEntry, Waiters, Flying
<1>8. FollowersAgreeWithLeader'
  BY <1>1 DEF IInv, TypeOK, Roles, EntriesAreLed, FollowersAgreeWithLeader,
              Waiters, Flying
<1>9. QED
  BY <1>2, <1>3, <1>4, <1>5, <1>6, <1>7, <1>8 DEF IInv

\* Every step of acquire, complete, Drop and wait preserves IInv.
LEMMA NextIInv == IInv /\ [Next]_vars => IInv'
<1> SUFFICES ASSUME IInv, [Next]_vars PROVE IInv'
  OBVIOUS
<1>1. ASSUME NEW t \in Tasks, NEW k \in Keys, Acquire(t, k) PROVE IInv'
  <2>1. CASE Lead(t, k)
    BY <1>1, <2>1, NoneAssumption
       DEF IInv, TypeOK, Steps, Roles, EntriesAreLed, Published, NoOrphanEntry,
           ReleaseFindsOwnEntry, FollowersAgreeWithLeader, Flying, Acquire, Lead
  <2>2. CASE Follow(t, k)
    BY <1>1, <2>2, NoneAssumption
       DEF IInv, TypeOK, Steps, Roles, EntriesAreLed, Published, NoOrphanEntry,
           ReleaseFindsOwnEntry, FollowersAgreeWithLeader, Flying, Acquire, Follow
  <2>3. QED
    BY <1>1, <2>1, <2>2 DEF Acquire
<1>2. ASSUME NEW t \in Tasks, NEW r \in Results, StoreResult(t, r) PROVE IInv'
  BY <1>2, NoneAssumption
     DEF IInv, TypeOK, Steps, Roles, EntriesAreLed, Published, NoOrphanEntry,
         ReleaseFindsOwnEntry, FollowersAgreeWithLeader, Flying, StoreResult
<1>3. ASSUME NEW t \in Tasks, CompleteRelease(t) PROVE IInv'
  BY <1>3, ReleaseIInv DEF CompleteRelease, Flying
<1>4. ASSUME NEW t \in Tasks, DropGuard(t) PROVE IInv'
  BY <1>4
     DEF IInv, TypeOK, Steps, Roles, EntriesAreLed, Published, NoOrphanEntry,
         ReleaseFindsOwnEntry, FollowersAgreeWithLeader, Flying, DropGuard
<1>5. ASSUME NEW t \in Tasks, SpawnedRelease(t) PROVE IInv'
  BY <1>5, ReleaseIInv DEF SpawnedRelease, Flying
<1>6. ASSUME NEW t \in Tasks, Register(t) PROVE IInv'
  BY <1>6, NoneAssumption
     DEF IInv, TypeOK, Steps, Roles, EntriesAreLed, Published, NoOrphanEntry,
         ReleaseFindsOwnEntry, FollowersAgreeWithLeader, Flying, Register
<1>7. ASSUME NEW t \in Tasks, ReadResult(t) PROVE IInv'
  BY <1>7, NoneAssumption
     DEF IInv, TypeOK, Steps, Roles, EntriesAreLed, Published, NoOrphanEntry,
         ReleaseFindsOwnEntry, FollowersAgreeWithLeader, Flying, ReadResult
<1>8. ASSUME NEW t \in Tasks, Abandon(t) PROVE IInv'
  BY <1>8, NoneAssumption
     DEF IInv, TypeOK, Steps, Roles, EntriesAreLed, Published, NoOrphanEntry,
         ReleaseFindsOwnEntry, FollowersAgreeWithLeader, Flying, Abandon
<1>9. CASE UNCHANGED vars
  BY <1>9 DEF vars, IInv, TypeOK, Roles, EntriesAreLed, Published, NoOrphanEntry,
              ReleaseFindsOwnEntry, FollowersAgreeWithLeader, Flying
<1>10. QED
  BY <1>1, <1>2, <1>3, <1>4, <1>5, <1>6, <1>7, <1>8, <1>9 DEF Next

\* IInv holds in every reachable state.
LEMMA Inductive == Spec => []IInv
BY InitIInv, NextIInv, PTL DEF Spec

-----------------------------------------------------------------------------
(***************************************************************************)
(* The invariants                                                          *)
(***************************************************************************)

\* Inflight's variables keep their types (inflight.rs:12-27).
THEOREM TypeCorrect == Spec => []TypeOK
<1>1. IInv => TypeOK
  BY DEF IInv
<1>2. QED
  BY <1>1, Inductive, PTL

\* However many tasks acquire, complete and are cancelled, no key is left with
\* an entry nobody will release (inflight.rs:55-89).
THEOREM NeverOrphaned == Spec => []NoOrphanEntry
<1>1. IInv => NoOrphanEntry
  BY DEF IInv
<1>2. QED
  BY <1>1, Inductive, PTL

\* An entry is released exactly once, by complete or by Drop: a pending release
\* finds its own entry in the table (inflight.rs:57-62).
THEOREM ReleasedOnce == Spec => []ReleaseFindsOwnEntry
<1>1. IInv => ReleaseFindsOwnEntry
  BY DEF IInv
<1>2. QED
  BY <1>1, Inductive, PTL

\* Two unreleased guards never exist for one key (inflight.rs:36-53): both would
\* have to be the one entry the table maps the key to.
THEOREM AtMostOneFlight == Spec => []OneFlightPerKey
<1>1. IInv => OneFlightPerKey
  BY DEF IInv, ReleaseFindsOwnEntry, OneFlightPerKey
<1>2. QED
  BY <1>1, Inductive, PTL

\* A follower that returned from wait() was told what its leader published, and
\* None only if the leader's guard was dropped (inflight.rs:91-97).
THEOREM FollowersAgree == Spec => []FollowersAgreeWithLeader
<1>1. IInv => FollowersAgreeWithLeader
  BY DEF IInv
<1>2. QED
  BY <1>1, Inductive, PTL

-----------------------------------------------------------------------------
(***************************************************************************)
(* The refinement.  acquire is Depart or Join, the release (by complete or *)
(* by the task Drop spawned) is Land, the end of wait() is Take; storing   *)
(* the result, dropping the guard, registering and abandoning are          *)
(* invisible.                                                              *)
(***************************************************************************)
\* The outcomes and what was taken of them, as the instance Abstract maps them.
absOutcome == [t \in Tasks |-> IF Landed(t) THEN result[t] ELSE Open]
absTaken == [t \in Tasks |-> IF entry[t] # None /\ step[t] = "done"
                             THEN got[t] ELSE Open]

\* The empty table is the abstract state without flights.
LEMMA InitRefines == Init => Abstract!Init
BY DEF Init, Abstract!Init, Landed

\* acquire departs a flight or joins the one its key has (inflight.rs:36-53).
LEMMA AcquireRefines ==
  ASSUME IInv, NEW t \in Tasks, NEW k \in Keys, Acquire(t, k)
  PROVE  Abstract!Depart(t, k) \/ Abstract!Join(t, k)
<1>1. Abstract!Fresh(t)
  BY NoneAssumption DEF Acquire, IInv, TypeOK, Roles, NoOrphanEntry, Flying,
                        Abstract!Fresh, Landed
<1>2. absOutcome' = absOutcome
  BY NoneAssumption DEF Acquire, Lead, Follow, IInv, TypeOK, Roles, absOutcome, Landed
<1>3. absTaken' = absTaken
  BY NoneAssumption DEF Acquire, Lead, Follow, IInv, TypeOK, Roles, absTaken
<1>4. CASE Lead(t, k)
  BY <1>1, <1>2, <1>3, <1>4 DEF Lead, Abstract!Depart, absOutcome, absTaken
<1>5. CASE Follow(t, k)
  BY <1>1, <1>2, <1>3, <1>5 DEF Follow, Abstract!Join, absOutcome, absTaken
<1>6. QED
  BY <1>4, <1>5 DEF Acquire

\* A release lands the flight of its key with the stored result, None if there
\* is none (inflight.rs:55-63).
LEMMA ReleaseRefines ==
  ASSUME IInv, NEW e \in Tasks, Flying(e), NEW last \in {"done", "gone"},
         Release(e, last), UNCHANGED <<result, key, entry, got>>
  PROVE  \E k \in Keys, o \in Results \cup {None} : Abstract!Land(k, o)
<1>1. /\ key[e] \in Keys
      /\ inner[key[e]] = e
      /\ inner' = [inner EXCEPT ![key[e]] = None]
      /\ step' = [t \in Tasks |-> IF t = e THEN last
                                  ELSE IF t \in Waiters(e) THEN "woken"
                                  ELSE step[t]]
  BY ReleaseEffect
<1>2. entry[e] = None /\ e # None
  BY NoneAssumption DEF IInv, Roles, Flying
<1>3. absOutcome' = [absOutcome EXCEPT ![e] = result[e]]
  BY <1>1, <1>2 DEF IInv, TypeOK, Roles, Waiters, absOutcome, Landed
<1>4. absTaken' = absTaken
  BY <1>1, <1>2 DEF IInv, TypeOK, Waiters, absTaken
<1>5. PICK k \in Keys : k = key[e]
  BY <1>1
<1>6. PICK o \in Results \cup {None} : o = result[e]
  BY DEF IInv, TypeOK
<1>7. Abstract!Land(k, o)
  BY <1>1, <1>2, <1>3, <1>4, <1>5, <1>6 DEF Abstract!Land, absOutcome, absTaken
<1>8. QED
  BY <1>7

\* The end of wait() takes the outcome of the flight (inflight.rs:94-95).
LEMMA ReadResultRefines ==
  ASSUME IInv, NEW t \in Tasks, ReadResult(t)
  PROVE  Abstract!Take(t)
<1>1. /\ entry[t] \in Tasks
      /\ Landed(entry[t])
  BY NoneAssumption DEF ReadResult, IInv, Roles, EntriesAreLed, Landed
<1>2. absOutcome[entry[t]] = result[entry[t]] /\ result[entry[t]] # Open
  BY <1>1, OpenAssumption DEF IInv, TypeOK, absOutcome
<1>3. absOutcome' = absOutcome
  BY NoneAssumption DEF ReadResult, IInv, TypeOK, Roles, absOutcome, Landed
<1>4. absTaken' = [absTaken EXCEPT ![t] = result[entry[t]]]
  BY <1>1, NoneAssumption DEF ReadResult, IInv, TypeOK, absTaken
<1>5. absTaken[t] = Open /\ entry[t] # None
  BY <1>1, NoneAssumption DEF ReadResult, absTaken
<1>6. QED
  BY <1>2, <1>3, <1>4, <1>5 DEF ReadResult, Abstract!Take, absOutcome, absTaken

\* A step that moves a task inside the module without landing a flight or
\* returning from wait() is invisible.
LEMMA InvisibleSteps ==
  ASSUME IInv, NEW t \in Tasks,
         \/ \E r \in Results : StoreResult(t, r)
         \/ DropGuard(t) \/ Register(t) \/ Abandon(t)
  PROVE  UNCHANGED Abstract!vars
<1>1. UNCHANGED <<inner, entry>>
  BY DEF StoreResult, DropGuard, Register, Abandon
<1>2. absOutcome' = absOutcome
  BY NoneAssumption DEF StoreResult, DropGuard, Register, Abandon, IInv, TypeOK,
                        Roles, absOutcome, Landed
<1>3. absTaken' = absTaken
  BY NoneAssumption DEF StoreResult, DropGuard, Register, Abandon, IInv, TypeOK,
                        Roles, absTaken
<1>4. QED
  BY <1>1, <1>2, <1>3 DEF Abstract!vars, absOutcome, absTaken

\* Every step of the table is an abstract step or a stutter.
LEMMA NextRefines == IInv /\ [Next]_vars => [Abstract!Next]_(Abstract!vars)
<1> SUFFICES ASSUME IInv, [Next]_vars PROVE [Abstract!Next]_(Abstract!vars)
  OBVIOUS
<1>1. ASSUME NEW t \in Tasks, NEW k \in Keys, Acquire(t, k) PROVE Abstract!Next
  BY <1>1, AcquireRefines DEF Abstract!Next
<1>2. ASSUME NEW t \in Tasks, CompleteRelease(t) \/ SpawnedRelease(t)
      PROVE  Abstract!Next
  <2>1. \E k \in Keys, o \in Results \cup {None} : Abstract!Land(k, o)
    BY <1>2, ReleaseRefines DEF CompleteRelease, SpawnedRelease, Flying
  <2>2. QED
    BY <2>1 DEF Abstract!Next
<1>3. ASSUME NEW t \in Tasks, ReadResult(t) PROVE Abstract!Next
  BY <1>3, ReadResultRefines DEF Abstract!Next
<1>4. ASSUME NEW t \in Tasks,
             \/ \E r \in Results : StoreResult(t, r)
             \/ DropGuard(t) \/ Register(t) \/ Abandon(t)
      PROVE  UNCHANGED Abstract!vars
  BY <1>4, InvisibleSteps
<1>5. CASE UNCHANGED vars
  BY <1>5 DEF vars, Abstract!vars, Landed
<1>6. QED
  BY <1>1, <1>2, <1>3, <1>4, <1>5 DEF Next

\* The table implements the abstract singleflight: a flight lands in one visible
\* step although complete is two critical sections (inflight.rs:67-74), and
\* every follower takes the outcome its flight landed with.
THEOREM Refinement == Spec => ImplementsSingleflight
BY InitRefines, NextRefines, Inductive, PTL
   DEF Spec, ImplementsSingleflight, Abstract!Spec
=============================================================================

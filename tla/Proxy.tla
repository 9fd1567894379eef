------------------------------- MODULE Proxy --------------------------------
(***************************************************************************)
(* What cachegate promises its clients as long as objects are immutable: a *)
(* gateway without a cache, without flights and without a process that can *)
(* be lost.  A request is answered at most once; a download is answered    *)
(* with what the upstream holds at that moment; an upload is acknowledged  *)
(* only after the upstream has applied it, and never reaches the upstream  *)
(* once its body was refused; any request may be refused instead, in the   *)
(* ways its method allows.  Gateway implements this specification.         *)
(***************************************************************************)

CONSTANTS Requests, Locations, Location, BadPaths, CTypes, Ops,
          InitStore, None

VARIABLES
  store,     \* store[l]: the upstream object, or None
  applied,   \* the uploads the upstream has applied
  asked,     \* asked[r]: what the client of r asked for, or None
  answer     \* answer[r]: what it was answered, or None

vars == <<store, applied, asked, answer>>

Init ==
  /\ store   = InitStore
  /\ applied = {}
  /\ asked   = [r \in Requests |-> None]
  /\ answer  = [r \in Requests |-> None]

Reply(status, body, ctype) == [status |-> status, body |-> body, ctype |-> ctype]
Fail(status) == Reply(status, None, None)

\* The errors o may be answered.
Refusals(o) ==
  CASE ~o.decodes -> {400}
    [] o.decodes /\ ~o.auth -> {401}
    [] o.decodes /\ o.auth /\ o.key \in BadPaths -> {400}
    [] o.decodes /\ o.auth /\ o.key \notin BadPaths ->
         {404, 502} \cup {s \in {400} : o.method = "PUT"}

\* r asks for something only a client with credentials may have, by a good path.
Proper(r) ==
  asked[r] # None /\ asked[r].decodes /\ asked[r].auth /\ asked[r].key \notin BadPaths

At(r) == Location[asked[r].key]

Answer(r, x) ==
  /\ answer[r] = None
  /\ answer' = [answer EXCEPT ![r] = x]

\* A request may be refused on arrival.
Ask(r, o) ==
  /\ asked[r] = None
  /\ asked' = [asked EXCEPT ![r] = o]
  /\ UNCHANGED answer \/ \E s \in Refusals(o) : Answer(r, Fail(s))
  /\ UNCHANGED <<store, applied>>

\* A body that could not be read is one the upstream does not get.
Refuse(r) ==
  /\ asked[r] # None
  /\ \E s \in Refusals(asked[r]) : Answer(r, Fail(s)) /\ (s = 400 => r \notin applied)
  /\ UNCHANGED <<store, applied, asked>>

Serve(r) ==
  /\ Proper(r) /\ asked[r].method # "PUT" /\ store[At(r)] # None
  /\ \E c \in CTypes \cup {None} : Answer(r, Reply(200, store[At(r)], c))
  /\ UNCHANGED <<store, applied, asked>>

\* The upstream applies an upload once, whatever has become of its client.
Apply(r) ==
  /\ Proper(r) /\ asked[r].method = "PUT"
  /\ r \notin applied /\ answer[r] # Fail(400)
  /\ applied' = applied \cup {r}
  /\ store' = [store EXCEPT ![At(r)] = asked[r].body]
  /\ UNCHANGED <<asked, answer>>

Accept(r) ==
  /\ Proper(r) /\ asked[r].method = "PUT" /\ r \in applied
  /\ Answer(r, Reply(200, None, None))
  /\ UNCHANGED <<store, applied, asked>>

Next ==
  \E r \in Requests :
    \/ \E o \in Ops : Ask(r, o)
    \/ Refuse(r) \/ Serve(r) \/ Apply(r) \/ Accept(r)

Spec == Init /\ [][Next]_vars
=============================================================================

----------------------------- MODULE MCGateway ------------------------------
(***************************************************************************)
(* Model-checking instances of Gateway: the menus of requests and the      *)
(* initial upstream contents the configurations choose from.               *)
(***************************************************************************)
EXTENDS Gateway, TLC

CONSTANTS k1, alias, lost, bad, v1, v2, text, png, octet

Op(m, k, b) ==
  [method |-> m, key |-> k, body |-> b, ctype |-> None, prefetch |-> FALSE,
   auth |-> TRUE, decodes |-> TRUE]
Typed(o, c)  == [o EXCEPT !.ctype = c]
Warm(o)      == [o EXCEPT !.prefetch = TRUE]
Anonymous(o) == [o EXCEPT !.auth = FALSE]
Garbled(o)   == [o EXCEPT !.decodes = FALSE]

\* Every operation on one object, PUT always with the same contents; requests
\* for an unknown bucket, with an invalid path, without credentials, undecodable.
ImmutableOps ==
  {Op("GET", k1, None), Op("HEAD", k1, None), Warm(Op("HEAD", k1, None)),
   Op("PUT", k1, v1),
   Op("GET", lost, None), Op("HEAD", lost, None), Op("PUT", lost, v1),
   Op("GET", bad, None), Anonymous(Op("GET", k1, None)),
   Garbled(Op("GET", k1, None))}

\* Reads and two different uploads of one object.
OverwriteOps ==
  {Op("GET", k1, None), Warm(Op("HEAD", k1, None)), Op("PUT", k1, v1),
   Op("PUT", k1, v2)}

\* The same, with the object's other name and a content type.
AdverseOps ==
  {Op("GET", k1, None), Op("GET", alias, None), Warm(Op("HEAD", k1, None)),
   Typed(Op("PUT", k1, v1), text), Op("PUT", k1, v2)}

\* What can make one request wait for another.
FlightOps == {Op("GET", k1, None), Warm(Op("HEAD", k1, None))}

\* One kind of request each, or downloads and large uploads of one object.
Gets      == {Op("GET", k1, None)}
Heads     == {Op("HEAD", k1, None)}
Puts      == {Op("PUT", k1, v1)}
LargePuts == Gets \cup {Op("PUT", k1, v2)}

Empty  == [l \in Locations |-> None]
Filled == [l \in Locations |-> v1]
Large  == [l \in Locations |-> v2]

\* A location goes by the name of one of its keys.  Paths tell nothing of the
\* type; v2 has a magic number.
Canonical     == [k \in Keys |-> IF k = alias THEN k1 ELSE k]
Extensionless == [k \in Keys |-> None]
Magics        == [v \in Values |-> IF v = v2 THEN png ELSE None]

Symmetry == Permutations(Requests)
=============================================================================

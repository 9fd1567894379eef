-------------------------- MODULE AzureConnProofs ---------------------------
(***************************************************************************)
(* What the parser of Azure connection strings computes, for every number  *)
(* and order of segments.  Values folds Insert over the segments; the fold *)
(* is a function that is defined by recursion, so the proofs are by        *)
(* induction on the number of segments.  The induction principle is a      *)
(* property of sets of numbers (SetInduction).                             *)
(***************************************************************************)
EXTENDS AzureConn, WellFoundedInduction, TLAPS

\* A set that has 0 and the successor of each number in it has every number.
LEMMA SetInduction ==
  ASSUME NEW S, 0 \in S, \A n \in Nat : n \in S => n + 1 \in S
  PROVE  \A n \in Nat : n \in S
<1>. DEFINE T == Nat \ S
            R == OpToRel(<, Nat)
<1>1. SUFFICES ASSUME T # {} PROVE FALSE
  OBVIOUS
<1>2. PICK x \in T : \A y \in T : ~ (<<y, x>> \in R)
  <2>1. T \subseteq Nat /\ IsWellFoundedOn(R, Nat)
    BY NatLessThanWellFounded
  <2>. HIDE DEF R, T
  <2>. QED  BY <1>1, <2>1, WFMin, Zenon
<1>3. x \in Nat /\ x # 0 /\ x - 1 \in Nat /\ (x - 1) + 1 = x
  OBVIOUS
<1>4. x - 1 \in T
  <2>1. x - 1 \notin S
    BY <1>3
  <2>. QED  BY <1>3, <2>1
<1>5. <<x - 1, x>> \in R
  BY <1>3 DEF OpToRel
<1>. QED  BY <1>2, <1>4, <1>5

\* The greatest element of a set is the one its Max chooses.
LEMMA MaxIs ==
  ASSUME NEW S \in SUBSET Int, NEW n \in S, \A y \in S : y <= n
  PROVE  Max(S) = n
<1>1. PICK m \in S : m = Max(S) /\ \A y \in S : m >= y
  <2>1. \E x \in S : \A y \in S : x >= y
    OBVIOUS
  <2>. QED  BY <2>1, Zenon DEF Max
<1>2. m = n
  BY <1>1
<1>. QED  BY <1>1, <1>2

\* Max chooses an element: a non-empty set of numbers up to n has a greatest one.
LEMMA MaxIn ==
  ASSUME NEW n \in Nat, NEW S \in SUBSET (1..n), S # {}
  PROVE  Max(S) \in S
<1>. DEFINE B == {m \in Nat : \A T \in SUBSET (1..m) :
                                T # {} => \E x \in T : \A y \in T : x >= y}
<1>1. 0 \in B
  <2>1. 1..0 = {}
    OBVIOUS
  <2>. QED  BY <2>1
<1>2. ASSUME NEW m \in Nat, m \in B PROVE m + 1 \in B
  <2>. SUFFICES ASSUME NEW T \in SUBSET (1..(m + 1)), T # {}
                PROVE  \E x \in T : \A y \in T : x >= y
    OBVIOUS
  <2>1. CASE m + 1 \in T
    BY <2>1
  <2>2. CASE m + 1 \notin T
    <3>1. T \in SUBSET (1..m)
      BY <2>2
    <3>. QED  BY <1>2, <3>1
  <2>. QED  BY <2>1, <2>2
<1>3. \A m \in Nat : m \in B
  <2>. HIDE DEF B
  <2>. QED  BY <1>1, <1>2, SetInduction
<1>4. \E x \in S : \A y \in S : x >= y
  BY <1>3
<1>. QED  BY <1>4, Zenon DEF Max

-----------------------------------------------------------------------------
\* The map before the loop over the segments (azure.rs:54).
Unset == [k \in Keys |-> None]

\* g is the recursion of FoldLeft over the first n segments.
Iterates(g, segments, n) ==
  g = [s \in SUBSET (1..n) |->
         IF s = {} THEN Unset
         ELSE Insert(g[s \ {Max(s)}], segments[Max(s)])]

\* FoldLeft is the value of that recursion for all segments (azure.rs:56-79).
LEMMA ValuesIterate ==
  ASSUME NEW segments, DOMAIN segments = 1..Len(segments)
  PROVE  Values(segments) =
           (CHOOSE g : Iterates(g, segments, Len(segments)))[1..Len(segments)]
BY DEF Values, FoldLeft, MapThenFoldSet, Iterates, Unset

\* There is a function that satisfies the recursion, however many segments
\* there are: one more segment extends it to the sets that hold the new index.
LEMMA IterationExists ==
  ASSUME NEW segments
  PROVE  \A n \in Nat : \E g : Iterates(g, segments, n)
<1>. DEFINE S == {n \in Nat : \E g : Iterates(g, segments, n)}
<1>1. 0 \in S
  <2>. DEFINE g == [s \in SUBSET (1..0) |-> Unset]
  <2>1. \A s \in SUBSET (1..0) : s = {}
    OBVIOUS
  <2>2. g = [s \in SUBSET (1..0) |->
               IF s = {} THEN Unset ELSE Insert(g[s \ {Max(s)}], segments[Max(s)])]
    BY <2>1
  <2>3. Iterates(g, segments, 0)
    BY <2>2, Zenon DEF Iterates
  <2>. QED  BY <2>3
<1>2. ASSUME NEW n \in Nat, n \in S PROVE n + 1 \in S
  <2>1. PICK g : Iterates(g, segments, n)
    BY <1>2
  <2>. DEFINE next(s) == Insert(g[s \ {n + 1}], segments[n + 1])
              h == [s \in SUBSET (1..(n + 1)) |-> IF n + 1 \in s THEN next(s) ELSE g[s]]
  <2>2. ASSUME NEW s \in SUBSET (1..(n + 1))
        PROVE  h[s] = IF s = {} THEN Unset
                      ELSE Insert(h[s \ {Max(s)}], segments[Max(s)])
    <3>1. CASE n + 1 \in s
      <4>1. Max(s) = n + 1
        BY <3>1, MaxIs
      <4>2. s \ {n + 1} \in SUBSET (1..(n + 1)) /\ n + 1 \notin s \ {n + 1}
        OBVIOUS
      <4>3. h[s \ {n + 1}] = g[s \ {n + 1}]
        BY <4>2
      <4>. QED  BY <3>1, <4>1, <4>3
    <3>2. CASE n + 1 \notin s
      <4>1. s \in SUBSET (1..n)
        BY <3>2
      <4>2. s \ {Max(s)} \in SUBSET (1..(n + 1)) /\ n + 1 \notin s \ {Max(s)}
        BY <3>2
      <4>3. h[s \ {Max(s)}] = g[s \ {Max(s)}] /\ h[s] = g[s]
        BY <3>2, <4>2
      <4>4. g[s] = IF s = {} THEN Unset
                   ELSE Insert(g[s \ {Max(s)}], segments[Max(s)])
        <5>. DEFINE rhs(t) == IF t = {} THEN Unset
                              ELSE Insert(g[t \ {Max(t)}], segments[Max(t)])
        <5>1. g = [t \in SUBSET (1..n) |-> rhs(t)]
          BY <2>1, Zenon DEF Iterates
        <5>2. g[s] = rhs(s)
          <6>. HIDE DEF rhs
          <6>. QED  BY <4>1, <5>1
        <5>. QED  BY <5>2
      <4>. QED  BY <4>3, <4>4, Zenon
    <3>. QED  BY <3>1, <3>2
  <2>3. Iterates(h, segments, n + 1)
    <3>. DEFINE rhs(t) == IF t = {} THEN Unset
                          ELSE Insert(h[t \ {Max(t)}], segments[Max(t)])
    <3>1. h = [t \in SUBSET (1..(n + 1)) |-> h[t]]
      OBVIOUS
    <3>2. \A t \in SUBSET (1..(n + 1)) : h[t] = rhs(t)
      BY <2>2
    <3>3. h = [t \in SUBSET (1..(n + 1)) |-> rhs(t)]
      <4>. HIDE DEF h, rhs
      <4>. QED  BY <3>1, <3>2
    <3>. QED  BY <3>3, Zenon DEF Iterates
  <2>. QED  BY <2>3
<1>. HIDE DEF S
<1>3. \A n \in Nat : n \in S
  BY <1>1, <1>2, SetInduction
<1>. QED  BY <1>3 DEF S

-----------------------------------------------------------------------------
\* The segments up to the n-th that give a value for k, and the last of them.
Giving(segments, n, k) ==
  {i \in 1..n : segments[i].key # Blank /\ LowerKey[segments[i].key] = k}

Said(segments, n, k) ==
  IF Giving(segments, n, k) = {} THEN None
  ELSE segments[Max(Giving(segments, n, k))].value

\* The n + 1-st segment gives a value for its own key and for no other.
LEMMA GivingNext ==
  ASSUME NEW segments, NEW n \in Nat, NEW k
  PROVE  LET own == segments[n + 1].key # Blank /\ LowerKey[segments[n + 1].key] = k
         IN  Said(segments, n + 1, k) = IF own THEN segments[n + 1].value
                                        ELSE Said(segments, n, k)
<1>. DEFINE own == segments[n + 1].key # Blank /\ LowerKey[segments[n + 1].key] = k
<1>1. CASE own
  <2>1. n + 1 \in Giving(segments, n + 1, k)
    BY <1>1 DEF Giving
  <2>2. /\ Giving(segments, n + 1, k) \in SUBSET Int
        /\ \A i \in Giving(segments, n + 1, k) : i <= n + 1
    BY DEF Giving
  <2>3. Max(Giving(segments, n + 1, k)) = n + 1
    BY <2>1, <2>2, MaxIs
  <2>. QED  BY <1>1, <2>1, <2>3 DEF Said
<1>2. CASE ~own
  <2>1. Giving(segments, n + 1, k) = Giving(segments, n, k)
    BY <1>2 DEF Giving
  <2>. QED  BY <1>2, <2>1 DEF Said
<1>. QED  BY <1>1, <1>2

\* After n segments the map holds for each key the last value given for it
\* (azure.rs:56-79).
LEMMA LastValueWins ==
  ASSUME NEW segments \in Seq(Segments), Blank \notin DOMAIN LowerKey
  PROVE  Values(segments) = [k \in Keys |-> Said(segments, Len(segments), k)]
<1>. DEFINE L == Len(segments)
            g == CHOOSE h : Iterates(h, segments, L)
            said(n) == [k \in Keys |-> Said(segments, n, k)]
            S == {n \in Nat : n <= L => g[1..n] = said(n)}
<1>1. L \in Nat /\ DOMAIN segments = 1..L /\ \A i \in 1..L : segments[i] \in Segments
  OBVIOUS
<1>2. Iterates(g, segments, L)
  BY <1>1, IterationExists, Zenon
<1>3. ASSUME NEW s \in SUBSET (1..L)
      PROVE  g[s] = IF s = {} THEN Unset ELSE Insert(g[s \ {Max(s)}], segments[Max(s)])
  <2>. DEFINE rhs(t) == IF t = {} THEN Unset ELSE Insert(g[t \ {Max(t)}], segments[Max(t)])
  <2>1. g = [t \in SUBSET (1..L) |-> rhs(t)]
    <3>. HIDE DEF g
    <3>. QED  BY <1>2, Zenon DEF Iterates
  <2>2. g[s] = rhs(s)
    <3>. HIDE DEF rhs, g
    <3>. QED  BY <2>1
  <2>. QED  BY <2>2
<1>. HIDE DEF g
<1>4. 0 \in S
  <2>1. 1..0 = {} /\ {} \in SUBSET (1..L)
    OBVIOUS
  <2>2. g[1..0] = Unset
    BY <1>3, <2>1
  <2>3. \A k \in Keys : Said(segments, 0, k) = None
    BY <2>1 DEF Said, Giving
  <2>. QED  BY <2>2, <2>3 DEF Unset
<1>5. ASSUME NEW n \in Nat, n \in S PROVE n + 1 \in S
  <2>. SUFFICES ASSUME n + 1 <= L PROVE g[1..(n + 1)] = said(n + 1)
    OBVIOUS
  <2>. DEFINE segment == segments[n + 1]
  <2>1. /\ 1..(n + 1) \in SUBSET (1..L) /\ 1..(n + 1) # {}
        /\ (1..(n + 1)) \ {n + 1} = 1..n
        /\ Max(1..(n + 1)) = n + 1
    <3>1. n + 1 \in 1..(n + 1) /\ \A i \in 1..(n + 1) : i <= n + 1
      OBVIOUS
    <3>2. 1..(n + 1) \in SUBSET Int
      OBVIOUS
    <3>3. Max(1..(n + 1)) = n + 1
      BY <3>1, <3>2, MaxIs
    <3>4. 1..(n + 1) \in SUBSET (1..L)
      BY <1>1
    <3>5. (1..(n + 1)) \ {n + 1} = 1..n
      OBVIOUS
    <3>. QED  BY <3>1, <3>3, <3>4, <3>5
  <2>2. g[1..(n + 1)] = Insert(g[1..n], segment)
    BY <1>3, <2>1
  <2>3. g[1..n] = said(n)
    BY <1>1, <1>5
  <2>4. segment \in Segments
    BY <1>1
  <2>5. segment.key # Blank => LowerKey[segment.key] \in Keys
    BY <2>4 DEF Segments, Keys, LowerKey
  <2>6. Insert(said(n), segment) = said(n + 1)
    <3>1. CASE segment.key = Blank
      BY <3>1, GivingNext DEF Insert
    <3>2. CASE segment.key # Blank
      <4>1. Insert(said(n), segment) =
              [k \in Keys |-> IF k = LowerKey[segment.key] THEN segment.value
                              ELSE Said(segments, n, k)]
        BY <2>5, <3>2 DEF Insert
      <4>2. \A k \in Keys : Said(segments, n + 1, k) =
                              IF k = LowerKey[segment.key] THEN segment.value
                              ELSE Said(segments, n, k)
        BY <3>2, GivingNext
      <4>. QED  BY <4>1, <4>2
    <3>. QED  BY <3>1, <3>2
  <2>. QED  BY <2>2, <2>3, <2>6
<1>6. g[1..L] = said(L)
  <2>. HIDE DEF S
  <2>1. \A n \in Nat : n \in S
    BY <1>4, <1>5, SetInduction
  <2>. QED  BY <1>1, <2>1 DEF S
<1>. QED  BY <1>1, <1>6, ValuesIterate DEF g

\* A value of the map is that of the last segment that spells its key in any way.
LEMMA SaidIsLast ==
  ASSUME NEW segments \in Seq(Segments), Blank \notin DOMAIN LowerKey
  PROVE  LET said(k) == Values(segments)[k]
         IN  /\ said("accountname") = LastOf(segments, {"AccountName", "ACCOUNTNAME"})
             /\ said("accountkey") = LastOf(segments, {"AccountKey"})
             /\ said("protocol") = LastOf(segments, {"DefaultEndpointsProtocol"})
             /\ said("blobendpoint") = LastOf(segments, {"BlobEndpoint"})
<1>. DEFINE L == Len(segments)
<1>1. L \in Nat /\ \A i \in 1..L : segments[i] \in Segments
  OBVIOUS
<1>2. \A i \in 1..L : segments[i].key \in {Blank} \cup DOMAIN LowerKey
  BY <1>1 DEF Segments, LowerKey
<1>3. {"accountname", "accountkey", "protocol", "blobendpoint"} \subseteq Keys
  BY DEF Keys, LowerKey
<1>4. /\ Giving(segments, L, "accountname") =
           {i \in 1..L : segments[i].key \in {"AccountName", "ACCOUNTNAME"}}
      /\ Giving(segments, L, "accountkey") =
           {i \in 1..L : segments[i].key \in {"AccountKey"}}
      /\ Giving(segments, L, "protocol") =
           {i \in 1..L : segments[i].key \in {"DefaultEndpointsProtocol"}}
      /\ Giving(segments, L, "blobendpoint") =
           {i \in 1..L : segments[i].key \in {"BlobEndpoint"}}
  <2>1. \A x \in DOMAIN LowerKey :
          /\ LowerKey[x] = "accountname" <=> x \in {"AccountName", "ACCOUNTNAME"}
          /\ LowerKey[x] = "accountkey" <=> x = "AccountKey"
          /\ LowerKey[x] = "protocol" <=> x = "DefaultEndpointsProtocol"
          /\ LowerKey[x] = "blobendpoint" <=> x = "BlobEndpoint"
    BY DEF LowerKey
  <2>2. Blank \notin {"AccountName", "ACCOUNTNAME", "AccountKey",
                     "DefaultEndpointsProtocol", "BlobEndpoint"}
    BY DEF LowerKey
  <2>3. \A i \in 1..L :
          LET own(k) == segments[i].key # Blank /\ LowerKey[segments[i].key] = k
          IN  /\ own("accountname") <=> segments[i].key \in {"AccountName", "ACCOUNTNAME"}
              /\ own("accountkey") <=> segments[i].key \in {"AccountKey"}
              /\ own("protocol") <=> segments[i].key \in {"DefaultEndpointsProtocol"}
              /\ own("blobendpoint") <=> segments[i].key \in {"BlobEndpoint"}
    BY <1>2, <2>1, <2>2
  <2>. QED  BY <2>3 DEF Giving
<1>5. \A k \in Keys : Values(segments)[k] = Said(segments, L, k)
  BY LastValueWins
<1>6. /\ Said(segments, L, "accountname") = LastOf(segments, {"AccountName", "ACCOUNTNAME"})
      /\ Said(segments, L, "accountkey") = LastOf(segments, {"AccountKey"})
      /\ Said(segments, L, "protocol") = LastOf(segments, {"DefaultEndpointsProtocol"})
      /\ Said(segments, L, "blobendpoint") = LastOf(segments, {"BlobEndpoint"})
  BY <1>4, Zenon DEF Said, LastOf
<1>. QED  BY <1>3, <1>5, <1>6

\* The last value given for some keys is of a kind that such segments have.
LEMMA LastIsTyped ==
  ASSUME NEW segments \in Seq(Segments), NEW keys, NEW V,
         \A s \in Segments : s.key \in keys => s.value \in V
  PROVE  LastOf(segments, keys) \in V \cup {None}
<1>. DEFINE at == {i \in 1..Len(segments) : segments[i].key \in keys}
<1>1. CASE at = {}
  BY <1>1 DEF LastOf
<1>2. CASE at # {}
  <2>1. Max(at) \in at
    <3>1. at \in SUBSET (1..Len(segments)) /\ Len(segments) \in Nat
      OBVIOUS
    <3>. HIDE DEF at
    <3>. QED  BY <1>2, <3>1, MaxIn
  <2>2. segments[Max(at)] \in Segments /\ segments[Max(at)].key \in keys
    BY <2>1
  <2>3. LastOf(segments, keys) = segments[Max(at)].value
    BY <1>2, Zenon DEF LastOf
  <2>. QED  BY <2>2, <2>3
<1>. QED  BY <1>1, <1>2

\* What is said of protocol and endpoint is a scheme, a URL, blank or nothing.
LEMMA LastKinds ==
  ASSUME NEW segments \in Seq(Segments), Blank \notin DOMAIN LowerKey
  PROVE  /\ LastOf(segments, {"DefaultEndpointsProtocol"})
              \in DOMAIN LowerScheme \cup {None, Blank}
         /\ LastOf(segments, {"BlobEndpoint"}) \in Url \cup {None, Blank}
<1>1. Blank \notin {"DefaultEndpointsProtocol", "BlobEndpoint"}
  BY DEF LowerKey
<1>2. ASSUME NEW s \in Segments
      PROVE  /\ s.key \in {"DefaultEndpointsProtocol"} =>
                  s.value \in DOMAIN LowerScheme \cup {Blank}
             /\ s.key \in {"BlobEndpoint"} => s.value \in Url \cup {Blank}
  BY <1>1, <1>2 DEF Segments
<1>3. LastOf(segments, {"DefaultEndpointsProtocol"}) \in (DOMAIN LowerScheme \cup {Blank}) \cup {None}
  BY <1>2, LastIsTyped
<1>4. LastOf(segments, {"BlobEndpoint"}) \in (Url \cup {Blank}) \cup {None}
  BY <1>2, LastIsTyped
<1>. QED  BY <1>3, <1>4

\* What Parse makes of a connection string is what its last segments say: the
\* account, its access key, and whether plain HTTP is allowed (azure.rs:52-119).
THEOREM ParsesAsWritten ==
  ASSUME NEW segments \in Seq(Segments), Blank \notin DOMAIN LowerKey,
         {None, Blank} \cap DOMAIN LowerScheme = {}, Parse(segments) # None
  PROVE  LET info == Parse(segments)
             url  == LastOf(segments, {"BlobEndpoint"})
             p    == LastOf(segments, {"DefaultEndpointsProtocol"})
         IN  /\ info.account = LastOf(segments, {"AccountName", "ACCOUNTNAME"})
             /\ info.access_key = LastOf(segments, {"AccountKey"})
             /\ info.allow_http <=> p \in {"http", "HTTP"} \/ SaysHttp(url)
             /\ SaysHttp(info.endpoint) => info.allow_http
<1>. DEFINE values == Values(segments)
            info == Parse(segments)
            url  == LastOf(segments, {"BlobEndpoint"})
            p    == LastOf(segments, {"DefaultEndpointsProtocol"})
<1>1. /\ values["accountname"] = LastOf(segments, {"AccountName", "ACCOUNTNAME"})
      /\ values["accountkey"] = LastOf(segments, {"AccountKey"})
      /\ values["protocol"] = p /\ values["blobendpoint"] = url
  BY SaidIsLast
<1>2. p \in DOMAIN LowerScheme \cup {None, Blank} /\ url \in Url \cup {None, Blank}
  BY LastKinds
<1>3. /\ info.account = values["accountname"] /\ info.access_key = values["accountkey"]
      /\ info.endpoint = Endpoint(values)
      /\ info.allow_http = (IsHttp(Endpoint(values)) \/ Protocol(values) = "http")
  BY DEF Parse
<1>. HIDE DEF values, info, url, p
<1>4. \A x \in DOMAIN LowerScheme : /\ LowerScheme[x] = "http" <=> x \in {"http", "HTTP"}
                                    /\ LowerScheme[x] # "HTTP"
  BY DEF LowerScheme
<1>5. {"http", "HTTP", "https"} \cap {None, Blank} = {} /\ DOMAIN LowerScheme = {"http", "HTTP", "https"}
  BY DEF LowerScheme
<1>6. /\ Protocol(values) = "http" <=> p \in {"http", "HTTP"}
      /\ Protocol(values) # "HTTP"
      /\ Protocol(values) \in {"http", "https", None, Blank}
  <2>1. Protocol(values) = IF p \in {None, Blank} THEN p ELSE LowerScheme[p]
    BY <1>1 DEF Protocol
  <2>2. p \notin {None, Blank} => LowerScheme[p] \in {"http", "https"}
    BY <1>2 DEF LowerScheme
  <2>. QED  BY <1>2, <1>4, <1>5, <2>1, <2>2
<1>7. CASE url \notin {None, Blank}
  <2>1. Endpoint(values) = url /\ url \in Url
    BY <1>1, <1>2, <1>7 DEF Endpoint
  <2>2. url.scheme \in DOMAIN LowerScheme \cup {Blank}
    BY <2>1 DEF Url
  <2>3. IsHttp(url) <=> SaysHttp(url)
    BY <1>4, <1>5, <1>7, <2>2 DEF IsHttp, SaysHttp
  <2>. QED  BY <1>1, <1>3, <1>6, <2>1, <2>3 DEF info, url, p
<1>8. CASE url \in {None, Blank}
  <2>1. ~SaysHttp(url)
    BY <1>8 DEF SaysHttp
  <2>2. CASE values["suffix"] = None
    <3>1. Endpoint(values) = None
      BY <1>1, <1>8, <2>2 DEF Endpoint
    <3>2. ~IsHttp(None) /\ ~SaysHttp(None)
      BY DEF IsHttp, SaysHttp
    <3>. QED  BY <1>1, <1>3, <1>6, <2>1, <3>1, <3>2 DEF info, url, p
  <2>3. CASE values["suffix"] # None
    <3>. DEFINE scheme == IF Protocol(values) = None THEN "https" ELSE Protocol(values)
    <3>1. Endpoint(values).scheme = scheme
      BY <1>1, <1>8, <2>3 DEF Endpoint
    <3>2. scheme \in {"http", "https", Blank} /\ (scheme = "http" <=> Protocol(values) = "http")
      BY <1>5, <1>6
    <3>. HIDE DEF scheme
    <3>3. IsHttp(Endpoint(values)) => Protocol(values) = "http"
      BY <1>4, <1>5, <3>1, <3>2 DEF IsHttp
    <3>4. SaysHttp(Endpoint(values)) => Protocol(values) = "http"
      BY <1>5, <3>1, <3>2 DEF SaysHttp
    <3>. QED  BY <1>1, <1>3, <1>6, <2>1, <3>3, <3>4 DEF info, url, p
  <2>. QED  BY <2>2, <2>3
<1>. QED  BY <1>7, <1>8
=============================================================================

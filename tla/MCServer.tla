------------------------------ MODULE MCServer ------------------------------
(***************************************************************************)
(* Instance of Server for model checking: configuration documents that     *)
(* vary one part of a base document each, and requests that vary a good    *)
(* one.                                                                    *)
(***************************************************************************)
EXTENDS Server

Keypair(public, private, token) ==
  [public_key |-> public, private_key |-> private, bearer_token |-> token]

Segment(k, v) == [key |-> k, value |-> v]
Url(scheme)   == [scheme |-> scheme, host |-> <<"localhost">>]

Account == << Segment("AccountName", "main"), Segment("AccountKey", "secret") >>

Extras ==
  {Segment("DefaultEndpointsProtocol", p) : p \in {"http", "HTTP", "https", Blank}}
  \cup {Segment("BlobEndpoint", Url(s)) : s \in {"http", "HTTP", "https"}}
  \cup {Segment("BlobEndpoint", Blank), Segment("EndpointSuffix", "core"),
        Segment("ACCOUNTNAME", "other"), Segment("AccountKey", Blank),
        Segment("AccountKey", "rotated"),
        Segment("QueueEndpoint", Url("http")), Segment(Blank, Blank)}

Connections ==
  {<<>>} \cup {Account \o rest : rest \in SeqOf(Extras, 2)}
         \cup {rest \o Account : rest \in SeqOf(Extras, 1)}

S3(endpoint, allow) == [type |-> "s3", endpoint |-> endpoint, allow_http |-> allow]
AzureStore(segments) == [type |-> "azure", connection_string |-> segments]

Policy(memory, object, disk, path) ==
  [max_memory |-> memory, max_object_size |-> object, max_disk |-> disk,
   disk_path |-> path]

Base ==
  [auth |-> Keypair("k1", "k1", "tok"), cache |-> Policy(4, 2, 0, None), sentry |-> None,
   stores |-> [s3 |-> S3(None, None), az |-> AzureStore(Account)]]

Docs ==
  {[Base EXCEPT !.auth = a] :
     a \in {Keypair("k1", "k1", None), Keypair("k2", "k2", "tok"), Keypair("k1", "k2", None),
            Keypair(Garbled, "k1", None), Keypair("k1", Garbled, None)}}
  \cup {[Base EXCEPT !.stores.az = AzureStore(c)] : c \in Connections}
  \cup {[Base EXCEPT !.stores.s3 = S3(Url("http"), a)] : a \in {TRUE, FALSE}}
  \cup {[Base EXCEPT !.cache = p] :
          p \in {Policy(4, 0, 0, "/cache"), Policy(0, 0, 0, None), Policy(0, 2, 8, None),
                 Policy(4, 2, 8, None), Policy(4, 9, 8, "/cache")}}
  \cup {[Base EXCEPT !.sentry = s] : s \in {"dsn", Garbled}}

\* A file; or an environment with a whole document, flat variables or both.
Given(arg, file, whole, flat) ==
  [arg |-> arg, file |-> file, whole |-> whole, vars |-> flat]

MCGivens ==
  {Given("path", d, None, None) : d \in Docs \cup {None, Garbled}}
  \cup {Given("env", None, w, f) : w \in {None, Garbled, Base},
                                   f \in {None, [Base EXCEPT !.auth.bearer_token = None]}}
  \cup {Given(None, Base, Base, Base)}

Claim(v, exp, m, p) == [v |-> v, exp |-> exp, m |-> m, b |-> "s3", p |-> p]

Claims ==
  {Claim(1, e, m, "p1") : e \in 0..2, m \in {"GET", "get", "PUT"}}
  \cup {Claim(2, 2, "GET", "p1"), Claim(1, 2, "GET", "p2")}

Sig(dot, payload, signature) ==
  [dot |-> dot, payload |-> payload, signature |-> signature]

Sigs ==
  {Presigned(k, c) : k \in {"k1", "k2"}, c \in Claims}
  \cup {Sig(TRUE, Claim(1, 2, "GET", "p1"), s) :
          s \in {Garbled, [by |-> "k1", over |-> Claim(1, 0, "GET", "p1")]}}
  \cup {Sig(FALSE, Garbled, Garbled), Sig(TRUE, Garbled, Garbled)}

Headers ==
  {None, <<"Bearer", "tok">>, <<"bearer", "tok">>, <<"Bearer", "bad">>,
   <<"Basic", "tok">>, <<"Bearer">>, <<"Bearer", "tok", "tail">>}

Req(route, m, header, sig) ==
  [route |-> route, method |-> m, bucket |-> "s3", path |-> "p1",
   header |-> header, sig |-> sig]

MCRequests ==
  {Req("object", m, None, s) : m \in {"GET", "HEAD", "PUT"}, s \in Sigs}
  \cup {Req("object", "GET", h, s) :
          h \in Headers, s \in {None, Garbled, Presigned("k1", Claim(1, 1, "GET", "p1"))}}
  \cup {Req("stats", "GET", None, None)}
=============================================================================

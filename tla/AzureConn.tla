------------------------------ MODULE AzureConn -----------------------------
(***************************************************************************)
(* parse_connection_string (src/src/store/azure.rs): an Azure connection   *)
(* string as the sequence of its segments, each a key and a value, after   *)
(* white space and quotes are gone.  Blank is the empty text, also the     *)
(* value of a segment without "=".  A URL is its scheme and its host.      *)
(***************************************************************************)
EXTENDS Naturals, Sequences, SequencesExt

CONSTANTS None, Blank

\* to_ascii_lowercase on the spellings of keys and schemes that occur.
LowerKey ==
  [AccountName |-> "accountname", ACCOUNTNAME |-> "accountname",
   AccountKey |-> "accountkey", BlobEndpoint |-> "blobendpoint",
   DefaultEndpointsProtocol |-> "protocol", EndpointSuffix |-> "suffix",
   QueueEndpoint |-> "other"]
LowerScheme == [http |-> "http", HTTP |-> "http", https |-> "https"]

\* A segment: texts, of which a protocol is a scheme and an endpoint a URL.
Url == [scheme : {Blank} \cup DOMAIN LowerScheme, host : Seq(STRING)]
Segments ==
  [key : {"DefaultEndpointsProtocol"}, value : {Blank} \cup DOMAIN LowerScheme]
  \cup [key : {"BlobEndpoint", "QueueEndpoint"}, value : {Blank} \cup Url]
  \cup [key : {"AccountName", "ACCOUNTNAME", "AccountKey", "EndpointSuffix", Blank},
        value : {Blank} \cup STRING]

Keys == {LowerKey[k] : k \in DOMAIN LowerKey}

\* Mutant: the first value of a key is kept.
InsertOnce(values, segment) ==
  IF segment.key = Blank \/ values[LowerKey[segment.key]] # None THEN values
  ELSE [values EXCEPT ![LowerKey[segment.key]] = segment.value]

\* values.insert: a key may come again and then replaces its value.
Insert(values, segment) ==
  IF segment.key = Blank THEN values
  ELSE [values EXCEPT ![LowerKey[segment.key]] = segment.value]

Values(segments) == FoldLeft(Insert, [k \in Keys |-> None], segments)

\* Mutant: the protocol is compared as it was written.
ProtocolAsWritten(values) == values["protocol"]

Protocol(values) ==
  IF values["protocol"] \in {None, Blank} THEN values["protocol"]
  ELSE LowerScheme[values["protocol"]]

\* A blank BlobEndpoint counts as none; a blank suffix or protocol is used.
Endpoint(values) ==
  IF values["blobendpoint"] \notin {None, Blank} THEN values["blobendpoint"]
  ELSE IF values["suffix"] = None THEN None
  ELSE [scheme |-> IF Protocol(values) = None THEN "https" ELSE Protocol(values),
        host   |-> <<values["accountname"], values["suffix"]>>]

IsHttp(endpoint) ==
  endpoint # None /\ endpoint.scheme # Blank /\ LowerScheme[endpoint.scheme] = "http"

\* AzureConnectionInfo, or None when the account or its key is missing.
Parse(segments) ==
  LET values == Values(segments)
  IN  IF {values["accountname"], values["accountkey"]} \cap {None, Blank} # {}
      THEN None
      ELSE [account    |-> values["accountname"],
            access_key |-> values["accountkey"],
            endpoint   |-> Endpoint(values),
            allow_http |-> IsHttp(Endpoint(values)) \/ Protocol(values) = "http"]

-----------------------------------------------------------------------------
(* What a connection string says, without parsing it.                      *)

\* The value of the last segment with one of these keys.
LastOf(segments, keys) ==
  LET at == {i \in 1..Len(segments) : segments[i].key \in keys}
  IN  IF at = {} THEN None ELSE segments[Max(at)].value

SaysHttp(url) == url \notin {None, Blank} /\ url.scheme \in {"http", "HTTP"}
=============================================================================

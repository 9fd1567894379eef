------------------------------ MODULE PutUpload -----------------------------
(***************************************************************************)
(* The streaming upload of put_object (src/src/handler.rs:397-473), which  *)
(* module Gateway takes as one step: the chunk loop that fills the cache   *)
(* buffer up to the cap and hands every chunk to a multipart upload, the   *)
(* end of the upload, and the write-through to the cache.                  *)
(*                                                                         *)
(* Bytes are counted, not kept: the buffer only ever grows by the next     *)
(* bytes of the body, so it is the body's prefix of that length.  The      *)
(* multipart upload (object_store's WriteMultipart) is external: it cuts   *)
(* the body into parts of PartSize and uploads each in a task of its own.  *)
(***************************************************************************)
EXTENDS Naturals

CONSTANTS
  Cap,          \* cache_max_object_bytes
  ChunkSizes,   \* sizes of the chunks the body stream may yield
  PartSize,     \* chunk_size of WriteMultipart
  MaxBytes,     \* bound of the model: the longest body
  None

\* Module Server shows that the cap of a running server is not 0.  A chunk may
\* be empty: an HTTP/2 client ends its body with an empty DATA frame.
ASSUME CapAssumption  == Cap \in Nat \ {0}
ASSUME SizeAssumption == ChunkSizes \subseteq Nat /\ MaxBytes \in Nat
ASSUME PartAssumption == PartSize \in Nat \ {0}
ASSUME NoneAssumption == None \notin Nat

VARIABLES
  pc,         \* the await put_object is suspended at
  total,      \* total_bytes
  buffer,     \* buffer.len()
  capped,     \* capped
  ended,      \* the body stream has returned None
  pending,    \* bytes WriteMultipart holds back for its next part
  underway,   \* parts being uploaded
  landed,     \* parts the upstream holds for this upload
  broken,     \* the upload of a part has failed
  commit,     \* the request that completes the upload
  object,     \* size of the object it left at the upstream, or None
  cached,     \* size of the entry left in the cache, or None
  reply,      \* the status sent, or None
  trailing    \* history: an empty chunk came when Cap bytes had been read

local    == <<total, buffer, capped, ended, trailing>>
upstream == <<pending, underway, landed, broken, commit, object>>
vars == <<pc, local, upstream, cached, reply>>

Init ==
  /\ pc = "reading" /\ total = 0 /\ buffer = 0 /\ capped = (Cap = 0)
  /\ ended = FALSE
  /\ pending = 0 /\ underway = 0 /\ landed = 0 /\ broken = FALSE
  /\ commit = "none" /\ object = None
  /\ cached = None /\ reply = None /\ trailing = FALSE

-----------------------------------------------------------------------------
(***************************************************************************)
(* The chunk loop                                                          *)
(***************************************************************************)
Least(a, b) == IF a <= b THEN a ELSE b

\* Mutant: a chunk that does not fit is cut, but `capped` is not set.
FillForgetsCapped(n) ==
  LET remaining == Cap - buffer
  IN  IF capped \/ remaining = 0 THEN UNCHANGED <<buffer, capped>>
      ELSE buffer' = buffer + Least(n, remaining) /\ UNCHANGED capped

\* Mutant: only a chunk that leaves room in the buffer is taken to fit.
FillStrictly(n) ==
  LET remaining == Cap - buffer
  IN  IF capped THEN UNCHANGED <<buffer, capped>>
      ELSE /\ buffer' = buffer + Least(n, remaining)
           /\ capped' = (n >= remaining)

\* Mutant: the chunk is appended before it is measured.
FillFirst(n) ==
  IF capped THEN UNCHANGED <<buffer, capped>>
  ELSE buffer' = buffer + n /\ capped' = (buffer' > Cap)

\* The buffer takes what fits.  Once it is full, any further chunk, even an
\* empty one, marks the body as capped.
Fill(n) ==
  LET remaining == Cap - buffer
  IN  IF capped THEN UNCHANGED <<buffer, capped>>
      ELSE IF remaining = 0 THEN capped' = TRUE /\ UNCHANGED buffer
      ELSE buffer' = buffer + Least(n, remaining) /\ capped' = (n > remaining)

\* write.put(chunk): full parts start uploading at once, however many are under
\* way, and nothing waits for them.
WritePut(n) ==
  /\ pending' = (pending + n) % PartSize
  /\ underway' = underway + ((pending + n) \div PartSize)
  /\ UNCHANGED <<landed, broken, commit, object>>

Chunk(n) ==
  /\ pc = "reading" /\ total + n <= MaxBytes
  /\ total' = total + n
  /\ trailing' = (trailing \/ (n = 0 /\ total = Cap))
  /\ Fill(n)
  /\ WritePut(n)
  /\ UNCHANGED <<pc, ended, cached, reply>>

\* The handler ends: its part tasks are dropped with the JoinSet that owns them.
\* `kept` is what becomes of the parts already uploaded.
Leave(where, status, kept) ==
  /\ pc' = where
  /\ reply' = status
  /\ pending' = 0 /\ underway' = 0 /\ landed' = kept
  /\ UNCHANGED <<local, broken>>

\* Mutant: a body error ends the loop as the end of the body does.
BodyErrFinishes ==
  /\ pc = "reading"
  /\ pc' = "parts" /\ ended' = FALSE
  /\ pending' = 0
  /\ underway' = underway + (IF pending > 0 THEN 1 ELSE 0)
  /\ UNCHANGED <<total, buffer, capped, trailing, landed, broken, commit, object,
                 cached, reply>>

\* The body stream fails: the upload is aborted, and the answer is 400 whether
\* or not the upstream heeds the abort.
BodyErr ==
  /\ pc = "reading"
  /\ \E kept \in {0, landed} : Leave("answered", 400, kept)
  /\ UNCHANGED <<commit, object, cached>>

-----------------------------------------------------------------------------
(***************************************************************************)
(* write.finish(): flush the last part, wait for all parts, complete.      *)
(***************************************************************************)
BodyEnd ==
  /\ pc = "reading"
  /\ pc' = "parts" /\ ended' = TRUE
  /\ pending' = 0
  /\ underway' = underway + (IF pending > 0 THEN 1 ELSE 0)
  /\ UNCHANGED <<total, buffer, capped, trailing, landed, broken, commit, object,
                 cached, reply>>

PartLands ==
  /\ underway > 0
  /\ underway' = underway - 1 /\ landed' = landed + 1
  /\ UNCHANGED <<pc, local, pending, broken, commit, object, cached, reply>>

PartFails ==
  /\ underway > 0
  /\ underway' = underway - 1 /\ broken' = TRUE
  /\ UNCHANGED <<pc, local, pending, landed, commit, object, cached, reply>>

SendComplete ==
  /\ pc = "parts" /\ underway = 0 /\ ~broken
  /\ pc' = "completing" /\ commit' = "sent"
  /\ UNCHANGED <<local, pending, underway, landed, broken, object, cached, reply>>

\* The upstream completes the upload on its own time: before the answer, after a
\* lost answer, or after the client has gone.
Apply ==
  /\ commit = "sent"
  /\ commit' = "applied"
  /\ object' = total /\ landed' = 0
  /\ UNCHANGED <<pc, local, pending, underway, broken, cached, reply>>

\* Mutant: the answer does not wait for the completion.
FinishOkEarly ==
  /\ pc = "completing"
  /\ cached' = IF capped THEN cached ELSE buffer
  /\ Leave("answered", 200, landed)
  /\ UNCHANGED <<commit, object>>

FinishOk ==
  /\ pc = "completing" /\ commit = "applied"
  /\ cached' = IF capped THEN cached ELSE buffer
  /\ Leave("answered", 200, landed)
  /\ UNCHANGED <<commit, object>>

\* Mutant: a failed completion is tried again.
FinishErrRetries ==
  /\ \/ pc = "parts" /\ broken
     \/ pc = "completing"
  /\ pc' = "parts" /\ broken' = FALSE
  /\ UNCHANGED <<local, pending, underway, landed, commit, object, cached, reply>>

\* Mutant: an upstream error is passed on as an internal one.
FinishErrInternal ==
  /\ \/ pc = "parts" /\ broken
     \/ pc = "completing"
  /\ Leave("answered", 500, landed)
  /\ UNCHANGED <<commit, object, cached>>

\* A part failed, or the completion did.  WriteMultipart may abort by itself.
FinishErr ==
  /\ \/ pc = "parts" /\ broken
     \/ pc = "completing"
  /\ \E status \in {404, 502}, kept \in {0, landed} :
       Leave("answered", status, kept)
  /\ UNCHANGED <<commit, object, cached>>

\* The client goes away and the handler's future is dropped at its await: nobody
\* aborts the upload.
Disconnect ==
  /\ pc \in {"reading", "parts", "completing"}
  /\ Leave("gone", None, landed)
  /\ UNCHANGED <<commit, object, cached>>

Next ==
  \/ \E n \in ChunkSizes : Chunk(n)
  \/ BodyErr \/ BodyEnd \/ PartLands \/ PartFails \/ SendComplete \/ Apply
  \/ FinishOk \/ FinishErr \/ Disconnect

Spec == Init /\ [][Next]_vars

(***************************************************************************)
(* Upstream calls end (object_store's client times out) and a woken        *)
(* handler is polled.  The client owes nothing: put_object has no timeout  *)
(* on the body.                                                            *)
(***************************************************************************)
Fairness ==
  /\ WF_vars(PartLands \/ PartFails)
  /\ WF_vars(SendComplete \/ FinishOk \/ FinishErr)

FairSpec == Spec /\ Fairness

-----------------------------------------------------------------------------
(***************************************************************************)
(* Properties                                                              *)
(***************************************************************************)
\* Every variable keeps its type.
TypeOK ==
  /\ pc \in {"reading", "parts", "completing", "answered", "gone"}
  /\ total \in Nat /\ buffer \in Nat /\ capped \in BOOLEAN
  /\ ended \in BOOLEAN /\ trailing \in BOOLEAN
  /\ pending \in Nat /\ underway \in Nat /\ landed \in Nat
  /\ broken \in BOOLEAN /\ commit \in {"none", "sent", "applied"}
  /\ object \in Nat \cup {None} /\ cached \in Nat \cup {None}
  /\ reply \in {200, 400, 404, 502, None}

\* The buffer never outgrows the cap, whatever the chunks are, and as long as
\* the body is not marked as capped it holds all of it (handler.rs:416-426).
BufferIsBody ==
  /\ buffer <= Cap
  /\ ~capped => buffer = total

\* Neither the upstream nor the cache ever gets a part of a body: the parts that
\* a completion names hold every byte of the body and no part too many, however
\* the chunks were cut and whichever parts failed; an object exists only after
\* the body has ended, and then in full; and the cache holds nothing but that
\* object (handler.rs:404-412, 428, 431, 457-463).
OnlyWholeBodies ==
  /\ pc = "completing" /\ commit = "sent" =>
       total <= PartSize * landed /\ PartSize * landed < total + PartSize
  /\ object # None => ended /\ object = total
  /\ cached # None => cached = object /\ cached <= Cap

\* Write-through: an acknowledged upload is in the cache unless it is longer
\* than the cap, or as long and followed by an empty chunk (handler.rs:416-418).
SkippedOnlyAboveCap ==
  reply = 200 /\ cached = None => total > Cap \/ (total = Cap /\ trailing)

\* Parts outlive the handler only when the client left, or the upstream failed;
\* an acknowledged upload leaves none behind (handler.rs:404-412, 431).
NoPartsAfterAck ==
  reply = 200 => landed = 0 /\ underway = 0 /\ pending = 0

\* Once its body has ended an upload is answered, unless the client leaves.
EndedUploadsAnswered == pc \in {"parts", "completing"} ~> pc \in {"answered", "gone"}

(***************************************************************************)
(* Refinement                                                              *)
(***************************************************************************)
verdict == IF reply = 200 THEN "ok"
           ELSE IF pc \in {"answered", "gone"} THEN "failed" ELSE "open"

W == INSTANCE WriteThrough WITH received <- total, closed <- ended

\* The chunk loop and the multipart upload implement the abstract write-through.
ImplementsWriteThrough == W!Spec
=============================================================================

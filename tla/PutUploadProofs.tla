-------------------------- MODULE PutUploadProofs ---------------------------
(***************************************************************************)
(* Theorems about PutUpload, for every cap, chunk size and part size: the  *)
(* cache and the upstream only ever get whole bodies, and PutUpload        *)
(* implements WriteThrough.                                                *)
(***************************************************************************)
EXTENDS PutUpload, Integers, TLAPS

\* A body marked as capped is one the cache may do without.
CappedIsLong == capped => total > Cap \/ (total = Cap /\ trailing)

\* What is known at each await of the handler.
Progress ==
  /\ pc = "reading" => ~ended
  /\ pc \in {"parts", "completing"} => ended
  /\ pc \in {"reading", "parts"} => commit = "none"
  /\ pc \in {"reading", "parts", "completing"} => reply = None /\ cached = None
  /\ pc # "reading" => pending = 0
  /\ pc \notin {"reading", "parts"} => underway = 0

\* The upstream completes what the handler asked for, and nothing else.
Completion ==
  /\ commit # "none" => ended
  /\ commit = "applied" => object = total /\ landed = 0
  /\ commit # "applied" => object = None

\* What an answer of 200 rests on, and a cached entry with it.
Acknowledged ==
  /\ reply = 200 => /\ commit = "applied"
                    /\ cached = IF capped THEN None ELSE buffer
  /\ cached # None => reply = 200

IInv ==
  /\ TypeOK /\ total <= MaxBytes
  /\ BufferIsBody /\ CappedIsLong
  /\ Progress /\ Completion /\ Acknowledged

-----------------------------------------------------------------------------
\* Cutting a body into parts keeps counts natural (WriteMultipart).
LEMMA PartCounts ==
  ASSUME NEW m \in Nat
  PROVE  m % PartSize \in Nat /\ m \div PartSize \in Nat
<1>1. PartSize \in Int /\ PartSize > 0
  BY PartAssumption
<1>2. m % PartSize \in Nat
  BY <1>1
<1>3. m \div PartSize \in Nat
  BY <1>1
<1>. QED  BY <1>2, <1>3

\* A handler that has not read anything satisfies IInv (handler.rs:397-402).
LEMMA InitIInv == Init => IInv
<1>. SUFFICES ASSUME Init PROVE IInv
  OBVIOUS
<1>1. Cap \in Nat /\ Cap # 0
  BY CapAssumption
<1>2. capped = FALSE
  <2>1. capped = (Cap = 0)
    BY DEF Init
  <2>. QED  BY <1>1, <2>1, Zenon
<1>3. TypeOK /\ total <= MaxBytes
  <2>1. /\ pc = "reading" /\ total = 0 /\ buffer = 0
        /\ ended = FALSE /\ trailing = FALSE /\ broken = FALSE
        /\ pending = 0 /\ underway = 0 /\ landed = 0
        /\ commit = "none" /\ object = None /\ cached = None /\ reply = None
    BY DEF Init
  <2>2. total <= MaxBytes
    BY <2>1, SizeAssumption
  <2>3. TypeOK
    BY <1>2, <2>1 DEF TypeOK
  <2>. QED  BY <2>2, <2>3
<1>4. BufferIsBody /\ CappedIsLong
  BY <1>1, <1>2 DEF Init, BufferIsBody, CappedIsLong
<1>5. Progress /\ Completion /\ Acknowledged
  BY NoneAssumption DEF Init, Progress, Completion, Acknowledged
<1>. QED  BY <1>3, <1>4, <1>5 DEF IInv

\* The arithmetic of the chunk loop (handler.rs:416-426): the buffer stays within
\* the cap and is the body so far unless the body is marked, and a body is only
\* marked when it does not fit, an empty chunk after exactly Cap bytes apart.
LEMMA FillCorrect ==
  ASSUME TypeOK, BufferIsBody, CappedIsLong, NEW n \in Nat,
         total' = total + n, trailing' = (trailing \/ (n = 0 /\ total = Cap)), Fill(n)
  PROVE  /\ buffer' \in Nat /\ capped' \in BOOLEAN
         /\ BufferIsBody' /\ CappedIsLong'
<1>0. /\ total \in Nat /\ buffer \in Nat /\ capped \in BOOLEAN /\ Cap \in Nat
      /\ trailing => trailing'
      /\ n = 0 /\ total = Cap => trailing'
  <2>1. Cap \in Nat
    BY CapAssumption
  <2>2. total \in Nat /\ buffer \in Nat /\ capped \in BOOLEAN /\ trailing \in BOOLEAN
    BY DEF TypeOK
  <2>3. trailing' = (trailing \/ (n = 0 /\ total = Cap))
    OBVIOUS
  <2>. QED  BY <2>1, <2>2, <2>3
<1>1. CASE capped
  <2>1. buffer' = buffer /\ capped' = capped
    BY <1>1 DEF Fill
  <2>2. total' > Cap \/ (total' = Cap /\ trailing')
    BY <1>0, <1>1 DEF CappedIsLong
  <2>. QED  BY <1>0, <1>1, <2>1, <2>2 DEF BufferIsBody, CappedIsLong
<1>2. CASE ~capped /\ Cap - buffer = 0
  <2>1. buffer' = buffer /\ capped'
    BY <1>2 DEF Fill
  <2>2. total = Cap
    BY <1>0, <1>2 DEF BufferIsBody
  <2>3. total' > Cap \/ (total' = Cap /\ trailing')
    BY <1>0, <2>2
  <2>4. capped' = TRUE
    BY <1>2 DEF Fill
  <2>. QED  BY <1>0, <1>2, <2>1, <2>3, <2>4 DEF BufferIsBody, CappedIsLong
<1>3. CASE ~capped /\ Cap - buffer # 0
  <2>1. buffer' = buffer + Least(n, Cap - buffer) /\ capped' = (n > Cap - buffer)
    BY <1>3 DEF Fill
  <2>2. buffer = total /\ Cap - buffer \in Nat /\ buffer \in Nat /\ Cap \in Nat
    BY <1>3, CapAssumption DEF TypeOK, BufferIsBody
  <2>3. CASE n > Cap - buffer
    <3>1. buffer' = Cap /\ total' > Cap
      BY <1>0, <2>1, <2>2, <2>3 DEF Least
    <3>2. capped' = TRUE
      BY <2>1, <2>3
    <3>. QED  BY <1>0, <3>1, <3>2 DEF BufferIsBody, CappedIsLong
  <2>4. CASE ~(n > Cap - buffer)
    <3>1. buffer' = total' /\ buffer' <= Cap /\ buffer' \in Nat
      BY <1>0, <2>1, <2>2, <2>4 DEF Least
    <3>2. ~capped'
      BY <2>1, <2>4
    <3>3. capped' \in BOOLEAN
      BY <2>1
    <3>. QED  BY <3>1, <3>2, <3>3 DEF BufferIsBody, CappedIsLong
  <2>. QED  BY <2>3, <2>4
<1>. QED  BY <1>1, <1>2, <1>3 DEF TypeOK

\* Every step of the upload preserves IInv.
LEMMA NextIInv == IInv /\ [Next]_vars => IInv'
<1>. SUFFICES ASSUME IInv, [Next]_vars PROVE IInv'
  OBVIOUS
<1>. USE DEF IInv
<1>0. Cap \in Nat /\ None \notin Nat
  BY CapAssumption, NoneAssumption
<1>1. ASSUME NEW n \in ChunkSizes, Chunk(n) PROVE IInv'
  <2>1. n \in Nat /\ MaxBytes \in Nat
    BY SizeAssumption
  <2>2. /\ buffer' \in Nat /\ capped' \in BOOLEAN
        /\ BufferIsBody' /\ CappedIsLong'
    BY <1>1, <2>1, FillCorrect DEF Chunk
  <2>6. /\ (pending + n) % PartSize \in Nat
        /\ (pending + n) \div PartSize \in Nat
    BY <2>1, PartCounts DEF TypeOK
  <2>3. TypeOK'
    BY <1>1, <2>1, <2>2, <2>6 DEF Chunk, WritePut, TypeOK
  <2>4. total' <= MaxBytes
    BY <1>1 DEF Chunk
  <2>5. Progress' /\ Completion' /\ Acknowledged'
    BY <1>1, <1>0 DEF Chunk, WritePut, TypeOK, Progress, Completion, Acknowledged
  <2>. QED  BY <2>2, <2>3, <2>4, <2>5
<1>2. CASE BodyErr
  BY <1>2, <1>0 DEF BodyErr, Leave, local, TypeOK, BufferIsBody, CappedIsLong,
                    Progress, Completion, Acknowledged
<1>3. CASE BodyEnd
  BY <1>3, <1>0 DEF BodyEnd, TypeOK, BufferIsBody, CappedIsLong,
                    Progress, Completion, Acknowledged
<1>4. CASE PartLands
  BY <1>4, <1>0 DEF PartLands, local, TypeOK, BufferIsBody, CappedIsLong,
                    Progress, Completion, Acknowledged
<1>5. CASE PartFails
  BY <1>5, <1>0 DEF PartFails, local, TypeOK, BufferIsBody, CappedIsLong,
                    Progress, Completion, Acknowledged
<1>6. CASE SendComplete
  BY <1>6, <1>0 DEF SendComplete, local, TypeOK, BufferIsBody, CappedIsLong,
                    Progress, Completion, Acknowledged
<1>7. CASE Apply
  BY <1>7, <1>0 DEF Apply, local, TypeOK, BufferIsBody, CappedIsLong,
                    Progress, Completion, Acknowledged
<1>8. CASE FinishOk
  BY <1>8, <1>0 DEF FinishOk, Leave, local, TypeOK, BufferIsBody, CappedIsLong,
                    Progress, Completion, Acknowledged
<1>9. CASE FinishErr
  BY <1>9, <1>0 DEF FinishErr, Leave, local, TypeOK, BufferIsBody, CappedIsLong,
                    Progress, Completion, Acknowledged
<1>10. CASE Disconnect
  BY <1>10, <1>0 DEF Disconnect, Leave, local, TypeOK, BufferIsBody, CappedIsLong,
                     Progress, Completion, Acknowledged
<1>11. CASE UNCHANGED vars
  BY <1>11 DEF vars, local, upstream, TypeOK, BufferIsBody, CappedIsLong,
               Progress, Completion, Acknowledged
<1>. QED
  BY <1>1, <1>2, <1>3, <1>4, <1>5, <1>6, <1>7, <1>8, <1>9, <1>10, <1>11 DEF Next

LEMMA IInvHolds == Spec => []IInv
BY InitIInv, NextIInv, PTL DEF Spec

\* Every local of put_object and every count of parts keeps its type, and the
\* stages of the handler are the ones the code has (handler.rs:376-497).
THEOREM TypeCorrect == Spec => []TypeOK
BY IInvHolds, PTL DEF IInv

-----------------------------------------------------------------------------
\* The buffer never outgrows the cap, and is the body unless the body is marked
\* as capped (handler.rs:416-426).
THEOREM BufferCorrect == Spec => []BufferIsBody
BY IInvHolds, PTL DEF IInv

\* Until a part fails, the parts account for every byte read: with what is held
\* back for the next part while the body is read, and alone once the rest has
\* been flushed.  No part has failed when the completion is sent.
PartsHoldBody ==
  /\ ~broken /\ pc = "reading" =>
       total = PartSize * (underway + landed) + pending /\ pending < PartSize
  /\ ~broken /\ pc \in {"parts", "completing"} /\ commit # "applied" =>
       /\ total <= PartSize * (underway + landed)
       /\ PartSize * (underway + landed) < total + PartSize
  /\ pc = "completing" => ~broken /\ underway = 0

\* Cutting off whole parts loses no byte: what a parts and m further bytes
\* hold, the parts cut from those bytes and the rest hold (WriteMultipart).
LEMMA CutKeepsBytes ==
  ASSUME NEW a \in Nat, NEW m \in Nat
  PROVE  PartSize * (a + (m \div PartSize)) + (m % PartSize) = PartSize * a + m
<1>1. PartSize \in Nat /\ PartSize > 0
  BY PartAssumption
<1>2. m = PartSize * (m \div PartSize) + (m % PartSize)
  BY <1>1
<1>. DEFINE d == m \div PartSize
<1>3. d \in Nat /\ m % PartSize \in Nat
  BY PartCounts
<1>4. PartSize * (a + d) = PartSize * a + PartSize * d
  <2>. HIDE DEF d
  <2>. QED  BY <1>1, <1>3
<1>5. PartSize * a \in Nat /\ PartSize * d \in Nat
  <2>. HIDE DEF d
  <2>. QED  BY <1>1, <1>3
<1>. QED  BY <1>2, <1>3, <1>4, <1>5

\* One part more is PartSize bytes more.
LEMMA OneMorePart ==
  ASSUME NEW a \in Nat
  PROVE  PartSize * a \in Nat /\ PartSize * (a + 1) = PartSize * a + PartSize
BY PartAssumption

\* Chunks, flushes, landings and failures keep the parts' account of the body.
LEMMA NextPartsHoldBody == IInv /\ PartsHoldBody /\ [Next]_vars => PartsHoldBody'
<1>. SUFFICES ASSUME IInv, PartsHoldBody, [Next]_vars PROVE PartsHoldBody'
  OBVIOUS
<1>0. /\ PartSize \in Nat /\ PartSize > 0 /\ TypeOK /\ Progress
      /\ total \in Nat /\ pending \in Nat /\ underway \in Nat /\ landed \in Nat
      /\ underway + landed \in Nat
  BY PartAssumption DEF IInv, TypeOK
<1>1. ASSUME NEW n \in ChunkSizes, Chunk(n) PROVE PartsHoldBody'
  <2>1. n \in Nat /\ pc = "reading" /\ pc' = "reading" /\ total' = total + n
        /\ broken' = broken /\ landed' = landed
        /\ pending' = (pending + n) % PartSize
        /\ underway' = underway + ((pending + n) \div PartSize)
    BY <1>1, SizeAssumption DEF Chunk, WritePut
  <2>2. /\ (pending + n) % PartSize \in Nat /\ (pending + n) % PartSize < PartSize
        /\ (pending + n) \div PartSize \in Nat
    BY <1>0, <2>1, PartCounts
  <2>3. underway' + landed' = (underway + landed) + ((pending + n) \div PartSize)
    BY <1>0, <2>1, <2>2
  <2>4. PartSize * (underway' + landed') + pending' =
          PartSize * (underway + landed) + (pending + n)
    BY <1>0, <2>1, <2>3, CutKeepsBytes
  <2>5. PartSize * (underway + landed) \in Nat
    BY <1>0, OneMorePart
  <2>6. ~broken => total' = PartSize * (underway' + landed') + pending'
    <3>. SUFFICES ASSUME ~broken PROVE total' = PartSize * (underway' + landed') + pending'
      OBVIOUS
    <3>1. total = PartSize * (underway + landed) + pending
      BY <2>1 DEF PartsHoldBody
    <3>2. total' = PartSize * (underway + landed) + pending + n
      BY <2>1, <3>1
    <3>. QED  BY <1>0, <2>1, <2>4, <2>5, <3>2
  <2>. QED  BY <2>1, <2>2, <2>6 DEF PartsHoldBody
<1>2. CASE BodyEnd
  <2>1. /\ pc = "reading" /\ pc' = "parts" /\ UNCHANGED <<total, broken, landed>>
        /\ underway' = underway + (IF pending > 0 THEN 1 ELSE 0)
    BY <1>2 DEF BodyEnd
  <2>2. PartSize * (underway + landed) \in Nat
        /\ PartSize * ((underway + landed) + 1) = PartSize * (underway + landed) + PartSize
    BY <1>0, OneMorePart
  <2>3. ASSUME ~broken
        PROVE  /\ total <= PartSize * (underway' + landed')
               /\ PartSize * (underway' + landed') < total + PartSize
    <3>1. total = PartSize * (underway + landed) + pending /\ pending < PartSize
      BY <2>1, <2>3 DEF PartsHoldBody
    <3>2. CASE pending = 0
      <4>1. underway' + landed' = underway + landed
        BY <1>0, <2>1, <3>2
      <4>. QED  BY <1>0, <2>2, <3>1, <3>2, <4>1
    <3>3. CASE pending > 0
      <4>1. underway' + landed' = (underway + landed) + 1
        BY <1>0, <2>1, <3>3
      <4>. QED  BY <1>0, <2>2, <3>1, <3>3, <4>1
    <3>. QED  BY <1>0, <3>2, <3>3
  <2>. QED  BY <2>1, <2>3 DEF PartsHoldBody
<1>3. CASE PartLands
  <2>1. underway' + landed' = underway + landed
    BY <1>0, <1>3 DEF PartLands
  <2>2. underway > 0 /\ UNCHANGED <<pc, total, pending, broken, commit>>
    BY <1>3 DEF PartLands, local
  <2>. QED  BY <1>0, <2>1, <2>2 DEF PartsHoldBody
<1>4. CASE PartFails
  <2>1. underway > 0 /\ broken' /\ pc' = pc
    BY <1>4 DEF PartFails
  <2>. QED  BY <1>0, <2>1 DEF PartsHoldBody
<1>5. CASE SendComplete
  <2>1. /\ pc = "parts" /\ underway = 0 /\ ~broken /\ pc' = "completing"
        /\ UNCHANGED <<total, underway, landed, broken>>
    BY <1>5 DEF SendComplete, local
  <2>2. commit # "applied"
    BY <1>0, <2>1 DEF Progress
  <2>. QED  BY <2>1, <2>2 DEF PartsHoldBody
<1>6. CASE Apply
  <2>1. commit = "sent" /\ commit' = "applied" /\ UNCHANGED <<pc, underway, broken>>
    BY <1>6 DEF Apply
  <2>. QED  BY <1>0, <2>1 DEF PartsHoldBody, Progress
<1>7. CASE BodyErr \/ FinishOk \/ FinishErr \/ Disconnect
  <2>1. pc' \in {"answered", "gone"}
    BY <1>7 DEF BodyErr, FinishOk, FinishErr, Disconnect, Leave
  <2>. QED  BY <2>1 DEF PartsHoldBody
<1>8. CASE UNCHANGED vars
  BY <1>8 DEF vars, local, upstream, PartsHoldBody
<1>. QED
  BY <1>1, <1>2, <1>3, <1>4, <1>5, <1>6, <1>7, <1>8 DEF Next

\* Neither the upstream nor the cache ever gets a part of a body, wherever the
\* body, the upstream or the client fails, and the parts of a completion are the
\* whole body, for every part size (handler.rs:404-463).
THEOREM WholeBodies == Spec => []OnlyWholeBodies
<1>1. Init => PartsHoldBody
  BY PartAssumption DEF Init, PartsHoldBody
<1>2. IInv /\ PartsHoldBody => OnlyWholeBodies
  <2>. SUFFICES ASSUME IInv, PartsHoldBody PROVE OnlyWholeBodies
    OBVIOUS
  <2>1. pc = "completing" /\ commit = "sent" =>
          total <= PartSize * landed /\ PartSize * landed < total + PartSize
    <3>1. pc = "completing" => underway + landed = landed
      BY DEF IInv, TypeOK, PartsHoldBody
    <3>. QED  BY <3>1 DEF PartsHoldBody
  <2>. QED
    BY <2>1, NoneAssumption, CapAssumption
       DEF IInv, TypeOK, BufferIsBody, Progress, Completion, Acknowledged, OnlyWholeBodies
<1>. QED  BY <1>1, <1>2, InitIInv, NextIInv, NextPartsHoldBody, PTL DEF Spec

\* An acknowledged upload that fits the cap is in the cache, an exact fit that is
\* followed by an empty chunk apart (handler.rs:416-418, 457-463).
THEOREM FittingUploadsCached == Spec => []SkippedOnlyAboveCap
<1>1. IInv => SkippedOnlyAboveCap
  BY NoneAssumption
     DEF IInv, TypeOK, BufferIsBody, CappedIsLong, Acknowledged, SkippedOnlyAboveCap
<1>. QED  BY <1>1, IInvHolds, PTL

\* An acknowledged upload leaves no parts behind (handler.rs:431-437).
THEOREM AckedLeavesNoParts == Spec => []NoPartsAfterAck
<1>1. IInv => NoPartsAfterAck
  BY NoneAssumption DEF IInv, TypeOK, Progress, Completion, Acknowledged, NoPartsAfterAck
<1>. QED  BY <1>1, IInvHolds, PTL

-----------------------------------------------------------------------------
\* A handler that has not read anything maps to an upload nobody has begun.
LEMMA RefinesInit == Init => W!Init
BY NoneAssumption DEF Init, W!Init, verdict

\* Every step of put_object and of the upstream is a step of the abstract
\* write-through or leaves it as it is.
LEMMA RefinesNext == IInv /\ [Next]_vars => [W!Next]_(W!vars)
<1>. SUFFICES ASSUME IInv, [Next]_vars PROVE [W!Next]_(W!vars)
  OBVIOUS
<1>. USE DEF IInv
<1>0. Cap \in Nat /\ MaxBytes \in Nat /\ None \notin Nat
  BY CapAssumption, SizeAssumption, NoneAssumption
<1>1. ASSUME NEW n \in ChunkSizes, Chunk(n) PROVE W!Receive
  <2>1. n \in Nat /\ total + n \in total..MaxBytes
    BY <1>1, <1>0, SizeAssumption DEF Chunk, TypeOK
  <2>. QED
    BY <1>1, <2>1, <1>0 DEF Chunk, WritePut, W!Receive, verdict, TypeOK, Progress
<1>2. CASE BodyErr
  BY <1>2, <1>0 DEF BodyErr, Leave, local, W!Next, W!Reject, verdict, TypeOK, Progress
<1>3. CASE BodyEnd
  BY <1>3, <1>0 DEF BodyEnd, W!Next, W!Close, verdict, TypeOK, Progress
<1>4. CASE PartLands \/ PartFails \/ SendComplete
  BY <1>4, <1>0 DEF PartLands, PartFails, SendComplete, local, W!vars, verdict
<1>5. CASE Apply
  BY <1>5, <1>0 DEF Apply, local, W!Next, W!Commit, verdict, TypeOK, Completion
<1>6. CASE FinishOk
  <2>1. cached' \in W!Cachings(object)
    BY <1>6, <1>0 DEF FinishOk, TypeOK, BufferIsBody, CappedIsLong, Progress,
                      Completion, W!Cachings
  <2>. QED
    BY <1>6, <2>1, <1>0 DEF FinishOk, Leave, local, W!Next, W!Accept, verdict, TypeOK,
                            Progress, Completion
<1>7. CASE FinishErr
  BY <1>7, <1>0 DEF FinishErr, Leave, local, W!Next, W!Reject, verdict, TypeOK, Progress
<1>8. CASE Disconnect
  BY <1>8, <1>0 DEF Disconnect, Leave, local, W!Next, W!Reject, verdict, TypeOK, Progress
<1>9. CASE UNCHANGED vars
  BY <1>9 DEF vars, local, upstream, W!vars, verdict
<1>. QED
  BY <1>1, <1>2, <1>3, <1>4, <1>5, <1>6, <1>7, <1>8, <1>9 DEF Next, W!Next

\* The chunk loop, the multipart upload and the late upstream implement the
\* abstract write-through.
THEOREM Refinement == Spec => ImplementsWriteThrough
BY RefinesInit, RefinesNext, IInvHolds, PTL DEF Spec, ImplementsWriteThrough, W!Spec
=============================================================================

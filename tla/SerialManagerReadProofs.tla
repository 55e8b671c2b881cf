---------------------- MODULE SerialManagerReadProofs ----------------------
(***************************************************************************)
(* Proofs about reading through the serial manager, for a ring of any size *)
(* and requests of any length.                                             *)
(***************************************************************************)
EXTENDS SerialManagerRead, SequenceTheorems, TLAPS

ReadType ==
  /\ TypeOK
  /\ delivered \in Seq(1 .. MaxIn) /\ nIn \in 0 .. MaxIn
  /\ lost \in Nat /\ announced \in Nat /\ owed \in Int

\* A message that is refused leaves the queue as it was.
LEMMA Posting ==
  ASSUME posted \in 0 .. QueueSize, Post
  PROVE  posted' \in 0 .. QueueSize
  BY ReadAssumption DEF Post

-----------------------------------------------------------------------------
(* Taking bytes from the ring *)

LEMMA MinPair ==
  ASSUME NEW a \in Nat, NEW b \in Nat
  PROVE  Min({a, b}) = IF a <= b THEN a ELSE b
  <1> DEFINE m == IF a <= b THEN a ELSE b
  <1>1. m \in {a, b} /\ \A y \in {a, b} : m <= y
    OBVIOUS
  <1>2. \A x \in {a, b} : (\A y \in {a, b} : x <= y) => x = m
    OBVIOUS
  <1> QED BY <1>1, <1>2 DEF Min

LEMMA Taking ==
  ASSUME NEW S, NEW r \in Seq(S), NEW n \in 0 .. Len(r)
  PROVE  /\ Rest(r, n) \in Seq(S) /\ Len(Rest(r, n)) = Len(r) - n
         /\ SubSeq(r, 1, n) \in Seq(S) /\ Len(SubSeq(r, 1, n)) = n
         /\ SubSeq(r, 1, n) \o Rest(r, n) = r
         /\ n = Len(r) => Rest(r, n) = <<>>
  <1>1. Len(r) \in Nat /\ \A i \in 1 .. Len(r) : r[i] \in S
    BY LenProperties, ElementOfSeq
  <1>2. SubSeq(r, 1, n) \in Seq(S) /\ Len(SubSeq(r, 1, n)) = n
    BY <1>1, SubSeqProperties
  <1>3. Rest(r, n) \in Seq(S) /\ Len(Rest(r, n)) = Len(r) - n
    <2>1. n + 1 \in Int /\ Len(r) \in Int /\ \A i \in n + 1 .. Len(r) : r[i] \in S
      BY <1>1
    <2>2. /\ SubSeq(r, n + 1, Len(r)) \in Seq(S)
          /\ Len(SubSeq(r, n + 1, Len(r))) =
               IF n + 1 <= Len(r) THEN Len(r) - (n + 1) + 1 ELSE 0
      BY ONLY <2>1, SubSeqProperties
    <2> QED BY <1>1, <2>2 DEF Rest
  <1>4. SubSeq(r, 1, n) \o Rest(r, n) = r
    <2>1. 1 \in 1 .. Len(r) + 1 /\ n \in 1 - 1 .. Len(r) /\ Len(r) \in n .. Len(r)
      BY <1>1
    <2> QED BY <2>1, ConcatAdjacentSubSeq, SubSeqFull DEF Rest
  <1>5. n = Len(r) => Rest(r, n) = <<>>
    BY <1>1, SubSeqEmpty DEF Rest
  <1> QED BY <1>2, <1>3, <1>4, <1>5

LEMMA TakingBytes ==
  ASSUME NEW r \in Seq(1 .. MaxIn), NEW n \in 0 .. Len(r)
  PROVE  /\ Rest(r, n) \in Seq(1 .. MaxIn) /\ Len(Rest(r, n)) = Len(r) - n
         /\ SubSeq(r, 1, n) \in Seq(1 .. MaxIn)
  <1> DEFINE S == 1 .. MaxIn
  <1>1. r \in Seq(S)
    OBVIOUS
  <1> HIDE DEF S
  <1>2. /\ Rest(r, n) \in Seq(S) /\ Len(Rest(r, n)) = Len(r) - n
        /\ SubSeq(r, 1, n) \in Seq(S)
    BY <1>1, Taking, SMTT(30)
  <1> QED BY <1>2 DEF S

\* The ring takes the new byte, and gives up the oldest one when it is full.
LEMMA Pushing ==
  ASSUME TypeOK, NEW b \in 1 .. MaxIn
  PROVE  /\ Pushed(b) \in Seq(1 .. MaxIn)
         /\ Len(Pushed(b)) < RingSize /\ Len(Pushed(b)) > 0
         /\ Len(Pushed(b)) =
              IF Len(ring) = RingSize - 1 THEN Len(ring) ELSE Len(ring) + 1
  <1>1. ring \in Seq(1 .. MaxIn) /\ Len(ring) \in Nat /\ Len(ring) < RingSize
        /\ RingSize \in Nat \ {0, 1}
    BY ReadAssumption, LenProperties DEF TypeOK
  <1>2. CASE Len(ring) = RingSize - 1
    <2>1. ring # <<>>
      BY <1>1, <1>2, EmptySeq
    <2>2. Tail(ring) \in Seq(1 .. MaxIn) /\ Len(Tail(ring)) = Len(ring) - 1
      BY <1>1, <2>1, HeadTailProperties
    <2>3. Pushed(b) = Append(Tail(ring), b)
      BY <1>2 DEF Pushed, IsFull
    <2> QED BY <1>1, <1>2, <2>2, <2>3, AppendProperties
  <1>3. CASE Len(ring) # RingSize - 1
    <2>1. Pushed(b) = Append(ring, b)
      BY <1>3 DEF Pushed, IsFull
    <2> QED BY <1>1, <1>3, <2>1, AppendProperties
  <1> QED BY <1>2, <1>3

\* What the interrupt does, with the number of bytes it takes from the ring.
RxTaken(r) ==
  IF Requested /\ length > soFar
  THEN IF Len(r) <= length - soFar THEN Len(r) ELSE length - soFar
  ELSE 0

LEMMA RxEffect ==
  ASSUME ReadType, RxCallback
  PROVE  /\ nIn + 1 \in 1 .. MaxIn /\ nIn' = nIn + 1
         /\ Pushed(nIn + 1) \in Seq(1 .. MaxIn)
         /\ Len(Pushed(nIn + 1)) \in 1 .. RingSize - 1
         /\ RxTaken(Pushed(nIn + 1)) \in 0 .. Len(Pushed(nIn + 1))
         /\ ring' = Rest(Pushed(nIn + 1), RxTaken(Pushed(nIn + 1)))
         /\ delivered' = delivered
              \o SubSeq(Pushed(nIn + 1), 1, RxTaken(Pushed(nIn + 1)))
         /\ soFar' = soFar + RxTaken(Pushed(nIn + 1))
         /\ length \in Nat /\ soFar \in Nat /\ soFar' \in Nat
         /\ buffer' = (buffer /\ ~(Requested /\ soFar' >= length
                                   /\ mode = "blocking"))
         /\ posted' \in 0 .. QueueSize
         /\ mode # "nonblocking" => posted' = posted
         /\ lost' = lost + (IF Len(ring) = RingSize - 1 THEN 1 ELSE 0)
         /\ UNCHANGED <<usage, opened, callback, length, mode, pc, taskPc, owed>>
  <1> DEFINE r == Pushed(nIn + 1)
  <1>1. nIn + 1 \in 1 .. MaxIn /\ nIn' = nIn + 1
    BY ReadAssumption DEF ReadType, RxCallback
  <1>2. r \in Seq(1 .. MaxIn) /\ Len(r) \in 1 .. RingSize - 1
        /\ Len(r) = IF Len(ring) = RingSize - 1 THEN Len(ring) ELSE Len(ring) + 1
    <2>1. r \in Seq(1 .. MaxIn) /\ Len(r) \in Nat
      BY <1>1, Pushing, LenProperties DEF ReadType
    <2>2. RingSize \in Nat /\ Len(r) < RingSize /\ Len(r) > 0
          /\ Len(r) = IF Len(ring) = RingSize - 1 THEN Len(ring) ELSE Len(ring) + 1
      BY <1>1, Pushing, ReadAssumption DEF ReadType
    <2> QED BY ONLY <2>1, <2>2
  <1>3. length \in Nat /\ soFar \in Nat
    BY ReadAssumption DEF ReadType, TypeOK
  <1>4. RxTaken(r) \in 0 .. Len(r)
    BY <1>2, <1>3 DEF RxTaken
  <1>5. RxTaken(r) = IF Requested /\ length > soFar
                     THEN Min({Len(r), length - soFar}) ELSE 0
    <2>1. length > soFar =>
            Min({Len(r), length - soFar}) =
              IF Len(r) <= length - soFar THEN Len(r) ELSE length - soFar
      BY <1>2, <1>3, MinPair
    <2> QED BY <2>1 DEF RxTaken
  <1>6. /\ ring' = Rest(r, RxTaken(r))
        /\ delivered' = delivered \o SubSeq(r, 1, RxTaken(r))
        /\ soFar' = soFar + RxTaken(r)
    BY <1>1, <1>5 DEF RxCallback
  <1>7. lost' = lost + (IF Len(ring) = RingSize - 1 THEN 1 ELSE 0)
    <2>1. lost \in Nat /\ Len(ring) \in Nat
      BY LenProperties DEF ReadType, TypeOK
    <2>2. lost' = lost + Len(ring) + 1 - Len(r)
      BY <1>1 DEF RxCallback
    <2> QED BY <1>2, <2>1, <2>2
  <1>8. soFar' \in Nat
    BY <1>2, <1>3, <1>4, <1>6
  <1> HIDE DEF r
  <1>9. /\ buffer' = (buffer /\ ~(Requested /\ soFar' >= length
                                  /\ mode = "blocking"))
        /\ mode # "nonblocking" => posted' = posted
    BY DEF RxCallback, Completes
  <1>10. posted' \in 0 .. QueueSize
    <2>1. posted \in 0 .. QueueSize /\ (Post \/ posted' = posted)
      BY DEF ReadType, TypeOK, RxCallback
    <2> QED BY <2>1, Posting
  <1> QED BY <1>1, <1>2, <1>3, <1>4, <1>6, <1>7, <1>8, <1>9, <1>10
          DEF RxCallback, r

\* What Read and TryRead do to the ring.
TakenBy(len) == IF Len(ring) <= len THEN Len(ring) ELSE len

LEMMA ReadEffect ==
  ASSUME ReadType, NEW len \in Lengths
  PROVE  /\ Len(ring) \in Nat /\ len \in Nat \ {0}
         /\ Min({Len(ring), len}) = TakenBy(len)
         /\ TakenBy(len) \in 0 .. Len(ring)
  <1>1. Len(ring) \in Nat /\ len \in Nat \ {0}
    BY ReadAssumption, LenProperties DEF ReadType, TypeOK
  <1> QED BY <1>1, MinPair DEF TakenBy

-----------------------------------------------------------------------------
(* Types *)

LEMMA ReadTypeInit == Init => ReadType
  <1> SUFFICES ASSUME Init PROVE ReadType
    OBVIOUS
  <1>1. ring \in Seq(1 .. MaxIn) /\ Len(ring) = 0 /\ delivered \in Seq(1 .. MaxIn)
    BY EmptySeq DEF Init
  <1>2. RingSize \in Nat /\ RingSize > 0 /\ 0 \in 0 .. MaxIn
    BY ReadAssumption
  <1>3. Len(ring) < RingSize /\ nIn \in 0 .. MaxIn
    BY <1>1, <1>2 DEF Init
  <1>4. opened \in BOOLEAN /\ buffer \in BOOLEAN /\ callback \in BOOLEAN
    BY DEF Init
  <1>5. mode \in Modes /\ posted \in 0 .. QueueSize
    BY ReadAssumption DEF Init, Modes
  <1> QED BY <1>1, <1>3, <1>4, <1>5 DEF Init, ReadType, TypeOK

LEMMA ReadTypeNext == ReadType /\ [Next]_vars => ReadType'
  <1> SUFFICES ASSUME ReadType, [Next]_vars PROVE ReadType'
    OBVIOUS
  <1>0. RingSize \in Nat /\ MaxIn \in Nat
    BY ReadAssumption
  <1> USE DEF transfer, history
  <1>1. CASE RxCallback
    <2> DEFINE r == Pushed(nIn + 1)
    <2>1. ring' \in Seq(1 .. MaxIn) /\ Len(ring') < RingSize
      <3>1. Len(ring') = Len(r) - RxTaken(r) /\ ring' \in Seq(1 .. MaxIn)
        <4>1. /\ r \in Seq(1 .. MaxIn) /\ RxTaken(r) \in 0 .. Len(r)
              /\ ring' = Rest(r, RxTaken(r))
          BY <1>1, RxEffect
        <4> HIDE DEF r
        <4> QED BY ONLY <4>1, Taking
      <3>2. Len(r) \in 1 .. RingSize - 1 /\ RxTaken(r) \in 0 .. Len(r)
        BY <1>1, RxEffect
      <3> QED BY <1>0, <3>1, <3>2
    <2>2. delivered' \in Seq(1 .. MaxIn)
      <3>1. SubSeq(r, 1, RxTaken(r)) \in Seq(1 .. MaxIn)
        BY <1>1, RxEffect, Taking
      <3> QED BY <1>1, <3>1, RxEffect, ConcatProperties DEF ReadType
    <2>3. lost' \in Nat /\ announced' \in Nat /\ nIn' \in 0 .. MaxIn
      <3>1. lost' \in Nat /\ nIn' \in 0 .. MaxIn
        <4>1. /\ lost' = lost + (IF Len(ring) = RingSize - 1 THEN 1 ELSE 0)
              /\ nIn + 1 \in 1 .. MaxIn /\ nIn' = nIn + 1
          BY <1>1, RxEffect
        <4>2. lost \in Nat
          BY DEF ReadType
        <4> QED BY ONLY <4>1, <4>2
      <3>2. announced' \in {announced, announced + 1}
        BY <1>1 DEF RxCallback
      <3> QED BY <3>1, <3>2 DEF ReadType
    <2>4. buffer' \in BOOLEAN /\ posted' \in 0 .. QueueSize /\ soFar' \in Nat
      BY <1>1, RxEffect
    <2>5. UNCHANGED <<usage, opened, callback, length, mode, pc, taskPc, owed>>
      BY <1>1 DEF RxCallback
    <2> HIDE DEF r
    <2> QED BY <2>1, <2>2, <2>3, <2>4, <2>5 DEF ReadType, TypeOK
  <1>2. ASSUME NEW len \in Lengths, NEW m \in Modes,
               Read(len, m) \/ TryRead(len)
        PROVE  ReadType'
    <2> DEFINE n == TakenBy(len)
    <2>1. /\ ring' = Rest(ring, n) /\ delivered' = delivered \o SubSeq(ring, 1, n)
          /\ soFar' = n /\ n \in 0 .. Len(ring) /\ Len(ring) \in Nat
          /\ length' = len /\ mode' \in Modes
      BY <1>2, ReadEffect DEF Read, TryRead, Modes
    <2>2. ring' \in Seq(1 .. MaxIn) /\ Len(ring') < RingSize
          /\ SubSeq(ring, 1, n) \in Seq(1 .. MaxIn)
      <3>1. Len(ring) < RingSize /\ ring' = Rest(ring, n)
        BY <2>1 DEF ReadType, TypeOK
      <3>0. ring \in Seq(1 .. MaxIn) /\ n \in 0 .. Len(ring)
        BY <2>1 DEF ReadType, TypeOK
      <3> HIDE DEF n
      <3>2. \A k \in 0 .. Len(ring) : /\ Rest(ring, k) \in Seq(1 .. MaxIn)
                                     /\ Len(Rest(ring, k)) = Len(ring) - k
                                     /\ SubSeq(ring, 1, k) \in Seq(1 .. MaxIn)
        BY <3>0, TakingBytes
      <3>3. Len(ring) \in Nat
        BY <2>1
      <3> QED BY ONLY <1>0, <3>0, <3>1, <3>2, <3>3
    <2>3. delivered' \in Seq(1 .. MaxIn)
      BY <2>1, <2>2, ConcatProperties DEF ReadType
    <2>4. buffer' \in BOOLEAN /\ owed' \in Int
          /\ pc' \in {"idle", "callback", "spin", "close_callback", "close"}
      BY <1>2 DEF ReadType, TypeOK, Read, TryRead
    <2>5. UNCHANGED <<usage, opened, callback, posted, taskPc, nIn, lost,
                      announced>>
      BY <1>2 DEF Read, TryRead
    <2>6. soFar' \in Nat
      BY <2>1
    <2> HIDE DEF n
    <2> QED BY <2>1, <2>2, <2>3, <2>4, <2>5, <2>6 DEF ReadType, TypeOK
  <1>3. CASE Task
    <2>1. posted' \in 0 .. QueueSize /\ buffer' \in BOOLEAN /\ owed' \in Int
      <3>1. posted \in 0 .. QueueSize /\ (posted > 0 \/ posted' = posted)
            /\ posted' \in {posted - 1, posted}
        BY <1>3 DEF ReadType, TypeOK, Task, TaskWakes, TaskLooks, TaskTests,
                    TaskCompares, TaskTakes, TaskCalls
      <3>2. buffer' \in {buffer, FALSE} /\ buffer \in BOOLEAN
        BY <1>3 DEF ReadType, TypeOK, Task, TaskWakes, TaskLooks, TaskTests,
                    TaskCompares, TaskTakes, TaskCalls, Released
      <3>3. owed' \in {owed, owed - 1} /\ owed \in Int
        BY <1>3 DEF ReadType, Task, TaskWakes, TaskLooks, TaskTests,
                    TaskCompares, TaskTakes, TaskCalls
      <3>4. posted' \in 0 .. QueueSize
        BY ONLY <3>1, ReadAssumption
      <3>5. owed' \in Int
        BY ONLY <3>3
      <3> QED BY <3>2, <3>4, <3>5
    <2>2. taskPc' \in {"wait", "look", "test", "compare", "take", "call"}
          /\ UNCHANGED <<usage, ring, opened, callback, length, soFar, mode, pc,
                         nIn, delivered, lost, announced>>
      BY <1>3 DEF Task, TaskWakes, TaskLooks, TaskTests, TaskCompares, TaskTakes,
                  TaskCalls
    <2>3. ring' \in Seq(1 .. MaxIn) /\ delivered' \in Seq(1 .. MaxIn)
          /\ nIn' \in 0 .. MaxIn
      BY <2>2 DEF ReadType, TypeOK
    <2> QED BY <2>1, <2>2, <2>3 DEF ReadType, TypeOK
  <1>4. CASE Callback
    BY <1>4 DEF ReadType, TypeOK, Callback
  <1>7. CASE Spin
    BY <1>7 DEF ReadType, TypeOK, Spin
  <1>8. CASE CloseReadHandle \/ OpenReadHandle
    <2>1. /\ opened' \in BOOLEAN /\ callback' \in BOOLEAN /\ buffer' \in BOOLEAN
          /\ length' = 0 /\ soFar' = 0 /\ mode' \in Modes
      BY <1>8 DEF CloseReadHandle, OpenReadHandle, Cleared, Modes
    <2>2. pc' \in {"idle", pc}
      BY <1>8 DEF CloseReadHandle, OpenReadHandle
    <2>3. UNCHANGED <<usage, ring, posted, taskPc, nIn, delivered, lost, announced,
                      owed>>
      BY <1>8 DEF CloseReadHandle, OpenReadHandle
    <2> QED BY <2>1, <2>2, <2>3 DEF ReadType, TypeOK
  <1>9. CASE InstallRxCallback
    BY <1>9 DEF ReadType, TypeOK, InstallRxCallback
  <1>10. CASE WritePosts
    <2>1. posted' \in 0 .. QueueSize
      BY <1>10, Posting DEF ReadType, TypeOK, WritePosts
    <2>2. UNCHANGED <<usage, ring, opened, callback, buffer, length, soFar, mode,
                      pc, taskPc, nIn, delivered, lost, announced, owed>>
      BY <1>10 DEF WritePosts
    <2>3. ring' \in Seq(1 .. MaxIn) /\ delivered' \in Seq(1 .. MaxIn)
          /\ nIn' \in 0 .. MaxIn
      BY <2>2 DEF ReadType, TypeOK
    <2> QED BY <2>1, <2>2, <2>3 DEF ReadType, TypeOK
  <1>5. ASSUME NEW closing \in BOOLEAN, CancelReading(closing) PROVE ReadType'
    BY <1>5 DEF ReadType, TypeOK, CancelReading, Released
  <1>6. CASE UNCHANGED vars
    BY <1>6 DEF ReadType, TypeOK, vars
  <1> QED BY <1>1, <1>2, <1>3, <1>4, <1>5, <1>6, <1>7, <1>8, <1>9, <1>10
          DEF Next, Proceed, Modes

\* Types are kept: the ring holds at most RingSize - 1 bytes, and each was
\* received.
THEOREM ReadTypeCorrect == Spec => []TypeOK
  <1>1. ReadType => TypeOK
    BY DEF ReadType
  <1> QED BY <1>1, ReadTypeInit, ReadTypeNext, PTL DEF Spec

-----------------------------------------------------------------------------
(* Requests and their answers *)

\* What the answers rest on: who cancels leaves the task to finish first, and a
\* blocking read is not looked at by the task, because the application goes
\* first, or because the task does and nothing but reads posts a message.
Rightly ==
  \A u \in Usages :
    /\ u.cancels => u.first = "task"
    /\ "blocking" \in u.modes => u.first = "app" \/ (u.first = "task" /\ ~u.writes)

\* The strengthening: which calls the application is in while the handle has a
\* request, that a request waits only for bytes it lacks, and that the task
\* tests, compares and answers one and the same non-blocking request.
Answers ==
  /\ AnsweredOnce /\ SuccessMeansStored
  /\ callback => opened
  /\ buffer => opened /\ pc \in {"idle", "spin"} /\ soFar <= length
  /\ buffer /\ mode = "blocking" =>
       /\ soFar < length /\ pc = "spin" /\ "blocking" \in usage.modes
       /\ usage.first = "task" => posted = 0 /\ taskPc = "wait"
  /\ buffer /\ mode = "nonblocking" => callback
  /\ pc \in {"close", "close_callback"} => usage.cancels
  /\ taskPc \in {"compare", "take"} => buffer /\ mode = "nonblocking"
  /\ taskPc = "call" => callback

LEMMA AnswersInit == Init => Answers
  BY DEF Init, Answers, AnsweredOnce, SuccessMeansStored, Due

LEMMA AnswersNext ==
  ReadType /\ Rightly /\ Answers /\ [Next]_vars => Answers'
  <1> SUFFICES ASSUME ReadType, Rightly, Answers, [Next]_vars
               PROVE  Answers'
    OBVIOUS
  <1>0. /\ length \in Nat /\ soFar \in Nat /\ owed \in Int
        /\ mode = "blocking" \/ mode = "nonblocking"
        /\ usage.cancels => usage.first = "task"
        /\ "blocking" \in usage.modes =>
             usage.first = "app" \/ (usage.first = "task" /\ ~usage.writes)
    BY ReadAssumption DEF ReadType, TypeOK, Rightly, Modes
  <1> USE DEF transfer, history
  <1>1. CASE RxCallback
    <2> DEFINE r == Pushed(nIn + 1)
               n == RxTaken(r)
    <2>1. /\ soFar' = soFar + n /\ soFar' \in Nat /\ n \in 0 .. Len(r)
          /\ Len(r) \in 1 .. RingSize - 1 /\ r \in Seq(1 .. MaxIn)
          /\ ring' = Rest(r, n)
          /\ buffer' = (buffer /\ ~(Requested /\ soFar' >= length
                                    /\ mode = "blocking"))
          /\ mode # "nonblocking" => posted' = posted
          /\ UNCHANGED <<usage, opened, callback, length, mode, pc, taskPc, owed>>
      BY <1>1, RxEffect
    <2>2. buffer' => buffer
      BY <2>1
    <2>3. buffer => soFar' <= length
      BY <1>0, <2>1 DEF Answers, RxTaken
    <2>4. buffer' /\ mode' = "blocking" => soFar' < length'
      <3>1. buffer' /\ mode = "blocking" => ~(soFar' >= length)
        BY <2>1 DEF Answers, Requested
      <3> QED BY <1>0, <2>1, <3>1
    <2>6. buffer /\ mode = "nonblocking" => buffer'
      BY <2>1
    <2>5. SuccessMeansStored'
      <3>1. SUFFICES ASSUME taskPc = "take" PROVE buffer' /\ soFar' = length
        BY <2>1 DEF SuccessMeansStored
      <3>2. buffer /\ soFar = length /\ mode = "nonblocking"
        BY <3>1 DEF Answers, SuccessMeansStored
      <3>3. n = 0
        BY <1>0, <3>2 DEF RxTaken
      <3>4. soFar' = length
        BY <1>0, <2>1, <3>2, <3>3
      <3> QED BY <2>6, <3>2, <3>4
    <2>7. AnsweredOnce'
      BY <2>1, <2>2, <2>6 DEF Answers, AnsweredOnce, Due
    <2> HIDE DEF n, r
    <2> QED BY <2>1, <2>2, <2>3, <2>4, <2>5, <2>6, <2>7 DEF Answers
  <1>2. ASSUME NEW len \in Lengths, NEW m \in Modes, Read(len, m)
        PROVE  Answers'
    <2> DEFINE n == TakenBy(len)
    <2>1. /\ Len(ring) \in Nat /\ len \in Nat \ {0} /\ n \in 0 .. Len(ring)
          /\ ring' = Rest(ring, n) /\ soFar' = n /\ length' = len /\ mode' = m
          /\ buffer' = (n < len) /\ opened /\ ~buffer /\ pc = "idle"
          /\ n <= len
      BY <1>2, ReadEffect DEF Read, At, TakenBy
    <2>2. pc' = CASE n = len /\ m = "nonblocking" -> "callback"
                  [] n < len /\ m = "blocking" -> "spin"
                  [] OTHER -> "idle"
      BY <1>2, ReadEffect DEF Read
    <2>3. /\ owed' = IF m = "nonblocking" THEN owed + 1 ELSE owed
          /\ UNCHANGED <<usage, opened, callback, posted, taskPc>>
          /\ m \in usage.modes /\ (m = "nonblocking" => callback)
          /\ usage.first = "task" => taskPc = "wait" /\ posted = 0
      BY <1>2 DEF Read, At
    <2>4. taskPc \notin {"compare", "take"}
      BY <2>1 DEF Answers
    <2> HIDE DEF n
    <2>0. m = "blocking" \/ m = "nonblocking"
      BY DEF Modes
    <2>5. AnsweredOnce'
      <3>1. owed = Due(taskPc = "call")
        BY <1>0, <2>1 DEF Answers, AnsweredOnce, Due
      <3>2. owed' = Due(taskPc = "call") + Due(m = "nonblocking")
        BY <1>0, <2>3, <3>1 DEF Due
      <3>3. Due(m = "nonblocking") = Due(pc' \in {"callback", "close_callback"})
                                       + Due(buffer' /\ m = "nonblocking")
        <4>1. CASE n < len
          <5>1. buffer'
            BY <2>1, <4>1, Zenon
          <5>2. pc' \in {"idle", "spin"}
            BY <2>0, <2>1, <2>2, <4>1
          <5> QED BY <5>1, <5>2 DEF Due
        <4>2. CASE n = len
          <5>0. ~(n < len)
            BY <2>1, <4>2
          <5>1. ~buffer'
            BY <2>1, <5>0, Zenon
          <5>2. pc' = IF m = "nonblocking" THEN "callback" ELSE "idle"
            BY <2>1, <2>2, <4>2
          <5> QED BY <5>1, <5>2 DEF Due
        <4> QED BY <2>1, <4>1, <4>2
      <3> QED BY <2>1, <2>3, <3>2, <3>3 DEF AnsweredOnce, Due
    <2>6. buffer' => n < len /\ pc' = IF m = "blocking" THEN "spin" ELSE "idle"
      <3>1. CASE n < len
        BY <2>0, <2>1, <2>2, <3>1
      <3>2. CASE ~(n < len)
        BY <2>1, <3>2
      <3> QED BY <3>1, <3>2
    <2>7. pc' \notin {"close", "close_callback"}
      BY <2>2
    <2>8. callback => opened
      BY DEF Answers
    <2>9. taskPc = "call" => callback
      BY DEF Answers
    <2> QED BY <2>1, <2>3, <2>4, <2>5, <2>6, <2>7, <2>8, <2>9
            DEF Answers, SuccessMeansStored
  <1>3. ASSUME NEW len \in Lengths, TryRead(len) PROVE Answers'
    <2>1. taskPc \notin {"compare", "take"} /\ ~buffer
      BY <1>3 DEF TryRead, Answers
    <2> QED BY <1>3, <2>1 DEF TryRead, Answers, AnsweredOnce,
              SuccessMeansStored, Due
  <1>4. CASE Spin
    <2>1. ~(buffer /\ mode = "blocking") /\ pc = "spin"
      BY <1>0, <1>4 DEF Spin, At, Answers
    <2> QED BY <1>4, <2>1 DEF Spin, Answers, AnsweredOnce, SuccessMeansStored, Due
  <1>5. CASE Callback
    <2>1. ~buffer
      BY <1>5 DEF Callback, At, Answers
    <2> QED BY <1>0, <1>5, <2>1 DEF Callback, At, Answers, AnsweredOnce,
              SuccessMeansStored, Due
  <1>6. ASSUME NEW closing \in BOOLEAN, CancelReading(closing) PROVE Answers'
    <2>1. taskPc = "wait" /\ pc = "idle" /\ usage.cancels
          /\ ~(buffer /\ mode = "blocking")
      BY <1>0, <1>6 DEF CancelReading, At
    <2>2. buffer => mode = "nonblocking"
      BY <1>0, <2>1
    <2>3. AnsweredOnce'
      <3>1. CASE buffer
        BY <1>0, <1>6, <2>1, <2>2, <3>1 DEF CancelReading, Released, Answers,
                                            AnsweredOnce, Due
      <3>2. CASE ~buffer
        BY <1>0, <1>6, <2>1, <3>2 DEF CancelReading, Released, Answers,
                                      AnsweredOnce, Due
      <3> QED BY <3>1, <3>2
    <2>4. /\ buffer' = FALSE /\ taskPc' = "wait" /\ usage'.cancels
          /\ UNCHANGED <<callback, opened>>
      BY <1>6, <2>1 DEF CancelReading, Released
    <2> QED BY <2>3, <2>4 DEF Answers, SuccessMeansStored
  <1>7. CASE CloseReadHandle
    <2>1. taskPc = "wait" /\ pc = "close" /\ ~buffer
      BY <1>0, <1>7 DEF CloseReadHandle, At, Answers
    <2> QED BY <1>7, <2>1 DEF CloseReadHandle, Cleared, Answers, AnsweredOnce,
              SuccessMeansStored, Due
  <1>8. CASE OpenReadHandle
    <2>1. ~buffer /\ ~callback /\ taskPc \notin {"compare", "take", "call"}
          /\ pc = "idle"
      BY <1>8 DEF OpenReadHandle, At, Answers
    <2> QED BY <1>8, <2>1 DEF OpenReadHandle, Cleared, Answers, AnsweredOnce,
              SuccessMeansStored, Due
  <1>9. CASE InstallRxCallback
    BY <1>9 DEF InstallRxCallback, Answers, AnsweredOnce, SuccessMeansStored, Due
  <1>10. CASE WritePosts
    <2>1. usage.writes /\ UNCHANGED <<usage, opened, callback, buffer, length,
                                     soFar, mode, pc, taskPc, owed>>
      BY <1>10 DEF WritePosts
    <2>2. buffer /\ mode = "blocking" => usage.first # "task"
      BY <1>0, <2>1 DEF Answers
    <2> QED BY <2>1, <2>2 DEF Answers, AnsweredOnce, SuccessMeansStored, Due
  <1>11. ASSUME Task PROVE ~(buffer /\ mode = "blocking")
    <2>1. SUFFICES ASSUME buffer, mode = "blocking" PROVE FALSE
      OBVIOUS
    <2>2. /\ pc = "spin"
          /\ usage.first = "app" \/ usage.first = "task"
          /\ usage.first = "task" => posted = 0 /\ taskPc = "wait"
      BY <1>0, <2>1 DEF Answers
    <2>3. \E place \in {"wait", "look", "test", "compare", "take", "call"} :
            TaskAt(place) /\ (place = "wait" => posted > 0)
      BY <1>11 DEF Task, TaskWakes, TaskLooks, TaskTests, TaskCompares,
                   TaskTakes, TaskCalls
    <2> QED BY <2>2, <2>3 DEF TaskAt
  <1>12. CASE TaskWakes \/ TaskLooks \/ TaskTests \/ TaskCompares
    <2>1. ~(buffer /\ mode = "blocking")
      BY <1>11, <1>12 DEF Task
    <2>2. /\ UNCHANGED <<usage, opened, callback, buffer, length, soFar, mode, pc,
                         owed>>
          /\ taskPc \in {"wait", "look", "test", "compare"}
          /\ taskPc' \in {"wait", "look", "test", "compare", "take"}
      BY <1>12 DEF TaskWakes, TaskLooks, TaskTests, TaskCompares, TaskAt
    <2>3. taskPc' \in {"compare", "take"} => buffer /\ mode = "nonblocking"
      BY <1>0, <1>12, <2>1 DEF TaskWakes, TaskLooks, TaskTests, TaskCompares,
                               TaskAt, Answers
    <2>4. taskPc' = "take" => soFar = length
      BY <1>0, <1>12, <2>3 DEF TaskWakes, TaskLooks, TaskTests, TaskCompares,
                               Filled, Answers
    <2> QED BY <2>1, <2>2, <2>3, <2>4
            DEF Answers, AnsweredOnce, SuccessMeansStored, Due
  <1>13. CASE TaskTakes
    <2>1. buffer /\ mode = "nonblocking" /\ callback
      BY <1>13 DEF TaskTakes, TaskAt, Answers
    <2> QED BY <1>0, <1>13, <2>1 DEF TaskTakes, TaskAt, Released, Answers,
              AnsweredOnce, SuccessMeansStored, Due
  <1>14. CASE TaskCalls
    <2>1. callback /\ ~(buffer /\ mode = "blocking")
      BY <1>11, <1>14 DEF TaskCalls, TaskAt, Answers, Task
    <2> QED BY <1>0, <1>14, <2>1 DEF TaskCalls, TaskAt, Answers, AnsweredOnce,
              SuccessMeansStored, Due
  <1>15. CASE UNCHANGED vars
    BY <1>15 DEF vars, Answers, AnsweredOnce, SuccessMeansStored, Due
  <1> QED BY <1>1, <1>2, <1>3, <1>4, <1>5, <1>6, <1>7, <1>8, <1>9, <1>10, <1>12,
             <1>13, <1>14, <1>15 DEF Next, Task, Proceed

LEMMA AnswersKept ==
  ASSUME Rightly PROVE Spec => []Answers
  <1>1. ReadType /\ Answers /\ [Next]_vars => Answers'
    BY AnswersNext
  <1> QED BY <1>1, AnswersInit, ReadTypeInit, ReadTypeNext, PTL DEF Spec

\* However the interrupt, the task and the application interleave between the
\* task's tests, and whatever the message was sent for, each accepted request
\* gets one callback and nothing else gets any.
THEOREM RequestsAnswered ==
  ASSUME Rightly PROVE Spec => []AnsweredOnce
  <1>1. Answers => AnsweredOnce
    BY DEF Answers
  <1> QED BY <1>1, AnswersKept, PTL

\* The task reports success only for the request that it tested, and full: no
\* cancellation, no end of a blocking request and no new request comes between.
THEOREM SuccessIsStored ==
  ASSUME Rightly PROVE Spec => []SuccessMeansStored
  <1>1. Answers => SuccessMeansStored
    BY DEF Answers
  <1> QED BY <1>1, AnswersKept, PTL

-----------------------------------------------------------------------------
(* Bytes in the ring beside a request *)

LEMMA WithheldNext ==
  ReadType /\ NoByteWithheld /\ [Next]_vars => NoByteWithheld'
  <1> SUFFICES ASSUME ReadType, NoByteWithheld, [Next]_vars
               PROVE  NoByteWithheld'
    OBVIOUS
  <1> USE DEF NoByteWithheld, Requested
  <1>1. CASE RxCallback
    <2> DEFINE r == Pushed(nIn + 1)
               n == RxTaken(r)
    <2>1. /\ soFar' = soFar + n /\ length \in Nat /\ soFar \in Nat
          /\ n \in 0 .. Len(r) /\ r \in Seq(1 .. MaxIn) /\ ring' = Rest(r, n)
          /\ Len(r) \in 1 .. RingSize - 1
          /\ buffer' => buffer
          /\ UNCHANGED <<opened, length>>
      BY <1>1, RxEffect
    <2>2. SUFFICES ASSUME opened, buffer, soFar' < length PROVE ring' = <<>>
      BY <2>1
    <2>3. n = Len(r)
      BY <2>1, <2>2 DEF RxTaken
    <2> QED BY <2>1, <2>3, Taking
  <1>2. ASSUME NEW len \in Lengths, NEW m \in Modes,
               Read(len, m)
        PROVE  NoByteWithheld'
    <2> DEFINE n == TakenBy(len)
    <2>1. /\ Len(ring) \in Nat /\ len \in Nat \ {0} /\ n \in 0 .. Len(ring)
          /\ ring' = Rest(ring, n) /\ soFar' = n /\ length' = len
      BY <1>2, ReadEffect DEF Read
    <2>2. SUFFICES ASSUME n < len PROVE ring' = <<>>
      BY <2>1
    <2>3. n = Len(ring)
      BY <2>1, <2>2 DEF TakenBy
    <2> QED BY <2>1, <2>3, Taking DEF ReadType, TypeOK
  <1>3. ASSUME NEW len \in Lengths, TryRead(len) PROVE NoByteWithheld'
    BY <1>3 DEF TryRead
  <1>4. CASE \/ Spin \/ Callback \/ InstallRxCallback \/ WritePosts
             \/ TaskWakes \/ TaskLooks \/ TaskTests \/ TaskCompares \/ TaskCalls
    BY <1>4 DEF Spin, Callback, InstallRxCallback, WritePosts, TaskWakes,
                TaskLooks, TaskTests, TaskCompares, TaskCalls, transfer
  <1>5. ASSUME NEW closing \in BOOLEAN, CancelReading(closing)
        PROVE  NoByteWithheld'
    BY <1>5 DEF CancelReading, Released
  <1>6. CASE CloseReadHandle \/ OpenReadHandle \/ TaskTakes
    BY <1>6 DEF CloseReadHandle, OpenReadHandle, TaskTakes, Released, Cleared
  <1>7. CASE UNCHANGED vars
    BY <1>7 DEF vars, transfer
  <1> QED BY <1>1, <1>2, <1>3, <1>4, <1>5, <1>6, <1>7 DEF Next, Task, Proceed

LEMMA WithheldInit == Init => NoByteWithheld
  BY DEF Init, NoByteWithheld, Requested

\* While a request lacks bytes the ring holds none, whoever goes first, cancels
\* or writes: Read stores what is there before it leaves its request, and the
\* interrupt empties the ring into the request before it returns.
THEOREM RequestsTakeAll == Spec => []NoByteWithheld
  BY WithheldInit, WithheldNext, ReadTypeInit, ReadTypeNext, PTL DEF Spec

-----------------------------------------------------------------------------
(* Losses *)

\* A byte is only overwritten in a full ring, which then no request empties:
\* the rest is announced in the same interrupt.
LEMMA LossStep ==
  ASSUME ReadType, NoByteWithheld, [Next]_vars, lost' > lost, opened,
         callback
  PROVE  announced' > announced
  <1>1. lost \in Nat /\ announced \in Nat
    BY DEF ReadType
  <1>2. RxCallback
    <2>1. lost' # lost
      BY <1>1
    <2> QED
      BY <2>1 DEF Next, Task, TaskWakes, TaskLooks, TaskTests, TaskCompares,
                  TaskTakes, TaskCalls, Proceed, Spin, Callback, CloseReadHandle,
                  OpenReadHandle, InstallRxCallback, WritePosts, TryRead, Read,
                  CancelReading, vars, history
  <1> DEFINE r == Pushed(nIn + 1)
  <1>3. /\ Len(ring) = RingSize - 1 /\ ring' = Rest(r, RxTaken(r))
        /\ r \in Seq(1 .. MaxIn) /\ Len(r) \in 1 .. RingSize - 1
    BY <1>1, <1>2, RxEffect
  <1>4. ring # <<>>
    BY <1>3, ReadAssumption, EmptySeq
  <1>5. RxTaken(r) = 0
    BY <1>4, ReadAssumption DEF ReadType, TypeOK, NoByteWithheld, RxTaken
  <1>6. ring' # <<>>
    <2>1. Len(ring') = Len(r) - 0
      BY <1>3, <1>5, Taking
    <2> QED BY <1>3, <2>1, EmptySeq
  <1>7. announced' = announced + 1
    BY <1>2, <1>6, lost' > lost DEF RxCallback, Announced
  <1> QED BY <1>1, <1>7

\* While a read handle with a callback is open, every overwritten byte is
\* announced, whoever goes first, cancels or writes.
THEOREM EveryLossAnnounced == Spec => LossAnnounced
  <1>1. ReadType /\ NoByteWithheld /\ [Next]_vars
          => [lost' > lost /\ opened /\ callback => announced' > announced]_vars
    BY LossStep
  <1> QED BY <1>1, WithheldInit, WithheldNext, ReadTypeInit, ReadTypeNext, PTL
          DEF Spec, LossAnnounced

-----------------------------------------------------------------------------
(* The order of the bytes *)

Increasing(s) == \A i \in 1 .. Len(s) - 1 : s[i] < s[i + 1]
Below(s, b) == \A i \in 1 .. Len(s) : s[i] < b

LEMMA AppendInOrder ==
  ASSUME NEW d \in Seq(Nat), NEW q \in Seq(Nat), NEW b \in Nat,
         Increasing(d \o q), Below(d \o q, b)
  PROVE  /\ Increasing(d \o Append(q, b)) /\ Below(d \o Append(q, b), b + 1)
         /\ Len(d \o Append(q, b)) = Len(d \o q) + 1
  <1> DEFINE s == d \o q
             t == d \o Append(q, b)
  <1>1. /\ Len(d) \in Nat /\ Len(q) \in Nat /\ s \in Seq(Nat)
        /\ Len(s) = Len(d) + Len(q) /\ Len(s) \in Nat /\ Append(q, b) \in Seq(Nat)
        /\ Len(Append(q, b)) = Len(q) + 1
        /\ \A i \in 1 .. Len(q) : Append(q, b)[i] = q[i]
        /\ Append(q, b)[Len(q) + 1] = b
    BY ConcatProperties, AppendProperties, LenProperties
  <1>2. \A i \in 1 .. Len(s) :
          s[i] = (IF i <= Len(d) THEN d[i] ELSE q[i - Len(d)]) /\ s[i] \in Nat
    BY <1>1, ConcatProperties, ElementOfSeq
  <1>3. /\ Len(t) = Len(s) + 1
        /\ \A i \in 1 .. Len(s) + 1 :
             t[i] = IF i <= Len(d) THEN d[i] ELSE Append(q, b)[i - Len(d)]
    BY <1>1, ConcatProperties
  <1>4. t[Len(s) + 1] = b
    BY <1>1, <1>3
  <1>5. ASSUME NEW i \in 1 .. Len(s) PROVE t[i] = s[i]
    <2>1. i <= Len(d) \/ i - Len(d) \in 1 .. Len(q)
      BY <1>1
    <2> QED BY <1>1, <1>2, <1>3, <2>1
  <1>6. Increasing(s) /\ Below(s, b)
    OBVIOUS
  <1> HIDE DEF s, t
  <1>7. Below(t, b + 1)
    <2>1. SUFFICES ASSUME NEW i \in 1 .. Len(t) PROVE t[i] < b + 1
      BY DEF Below
    <2>2. CASE i \in 1 .. Len(s)
      BY <1>2, <1>5, <1>6, <2>2 DEF Below
    <2>3. CASE i = Len(s) + 1
      BY <1>4, <2>3
    <2>4. Len(s) \in Nat /\ i \in 1 .. Len(s) + 1
      BY <1>1, <1>3
    <2> QED BY <2>2, <2>3, <2>4
  <1>8. Increasing(t)
    <2>1. SUFFICES ASSUME NEW i \in 1 .. Len(t) - 1 PROVE t[i] < t[i + 1]
      BY DEF Increasing
    <2>2. i \in 1 .. Len(s) /\ t[i] = s[i] /\ s[i] \in Nat
      BY <1>1, <1>2, <1>3, <1>5
    <2>3. CASE i = Len(s)
      BY <1>4, <1>6, <2>2, <2>3 DEF Below
    <2>4. CASE i # Len(s)
      <3>1. i \in 1 .. Len(s) - 1 /\ i + 1 \in 1 .. Len(s)
        BY <1>1, <2>2, <2>4
      <3> QED BY <1>5, <1>6, <2>2, <3>1 DEF Increasing
    <2> QED BY <2>3, <2>4
  <1> QED BY <1>3, <1>7, <1>8 DEF s, t

LEMMA DropInOrder ==
  ASSUME NEW d \in Seq(Nat), NEW q \in Seq(Nat), NEW b \in Nat, q # <<>>,
         Increasing(d \o q), Below(d \o q, b)
  PROVE  /\ Tail(q) \in Seq(Nat)
         /\ Increasing(d \o Tail(q)) /\ Below(d \o Tail(q), b)
         /\ Len(d \o Tail(q)) = Len(d \o q) - 1
  <1> DEFINE s == d \o q
             t == d \o Tail(q)
  <1>1. /\ Len(d) \in Nat /\ Len(q) \in Nat \ {0} /\ s \in Seq(Nat)
        /\ Len(s) = Len(d) + Len(q) /\ Len(s) \in Nat /\ Tail(q) \in Seq(Nat)
        /\ Len(Tail(q)) = Len(q) - 1
        /\ \A i \in 1 .. Len(q) - 1 : Tail(q)[i] = q[i + 1]
    BY ConcatProperties, HeadTailProperties, LenProperties, EmptySeq
  <1>2. \A i \in 1 .. Len(s) :
          s[i] = (IF i <= Len(d) THEN d[i] ELSE q[i - Len(d)]) /\ s[i] \in Nat
    BY <1>1, ConcatProperties, ElementOfSeq
  <1>3. /\ Len(t) = Len(s) - 1
        /\ \A i \in 1 .. Len(s) - 1 :
             t[i] = IF i <= Len(d) THEN d[i] ELSE Tail(q)[i - Len(d)]
    BY <1>1, ConcatProperties
  <1>4. ASSUME NEW i \in 1 .. Len(s) - 1
        PROVE  t[i] = IF i <= Len(d) THEN s[i] ELSE s[i + 1]
    <2>1. CASE i <= Len(d)
      BY <1>1, <1>2, <1>3, <2>1
    <2>2. CASE i > Len(d)
      <3>1. i - Len(d) \in 1 .. Len(q) - 1 /\ i + 1 \in 1 .. Len(s)
            /\ (i + 1) - Len(d) = (i - Len(d)) + 1
        BY <1>1, <2>2
      <3> QED BY <1>1, <1>2, <1>3, <2>2, <3>1
    <2> QED BY <1>1, <2>1, <2>2
  <1>5. Increasing(s) /\ Below(s, b)
    OBVIOUS
  <1> HIDE DEF s, t
  <1>6. Below(t, b)
    <2>1. SUFFICES ASSUME NEW i \in 1 .. Len(t) PROVE t[i] < b
      BY DEF Below
    <2>2. i \in 1 .. Len(s) - 1 /\ i \in 1 .. Len(s) /\ i + 1 \in 1 .. Len(s)
      BY <1>1, <1>3
    <2> QED BY <1>4, <1>5, <2>2 DEF Below
  <1>7. Increasing(t)
    <2>1. SUFFICES ASSUME NEW i \in 1 .. Len(t) - 1 PROVE t[i] < t[i + 1]
      BY DEF Increasing
    <2>2. /\ i \in 1 .. Len(s) - 1 /\ i + 1 \in 1 .. Len(s) - 1
          /\ i \in 1 .. Len(s) /\ i + 1 \in 1 .. Len(s) /\ i + 2 \in 1 .. Len(s)
          /\ (i + 1) + 1 = i + 2
      <3>1. Len(s) \in Nat /\ Len(t) = Len(s) - 1
        BY <1>1, <1>3
      <3>2. i \in 1 .. Len(t) - 1
        BY <2>1
      <3> QED BY ONLY <3>1, <3>2
    <2>3. s[i] < s[i + 1] /\ s[i + 1] < s[i + 2]
      BY <1>5, <2>2 DEF Increasing
    <2>4. s[i] \in Nat /\ s[i + 1] \in Nat /\ s[i + 2] \in Nat
      BY <1>2, <2>2
    <2>5. /\ t[i] = IF i <= Len(d) THEN s[i] ELSE s[i + 1]
          /\ t[i + 1] = IF i + 1 <= Len(d) THEN s[i + 1] ELSE s[i + 2]
      BY <1>4, <2>2
    <2>6. Len(d) \in Nat /\ i \in Nat
      BY <1>1, <2>2
    <2> QED BY ONLY <2>3, <2>4, <2>5, <2>6
  <1> QED BY <1>1, <1>3, <1>6, <1>7 DEF s, t

LEMMA TakenInOrder ==
  ASSUME NEW S, NEW d \in Seq(S), NEW r \in Seq(S), NEW n \in 0 .. Len(r)
  PROVE  (d \o SubSeq(r, 1, n)) \o Rest(r, n) = d \o r
  <1> DEFINE x == SubSeq(r, 1, n)
             y == Rest(r, n)
  <1>1. x \in Seq(S) /\ y \in Seq(S)
    BY Taking
  <1>2. x \o y = r
    BY Taking
  <1> HIDE DEF x, y
  <1>3. ASSUME NEW t \in Seq(S), NEW u \in Seq(S)
        PROVE  (d \o t) \o u = d \o (t \o u)
    BY ConcatAssociative, SMTT(30)
  <1>4. (d \o x) \o y = d \o (x \o y)
    BY <1>1, <1>3, Zenon
  <1> QED BY <1>2, <1>4 DEF x, y

\* The strengthening: no byte is newer than the last one that arrived.
InOrder == BytesInOrder /\ Below(delivered \o ring, nIn + 1)

LEMMA OrderInit == Init => InOrder
  <1> SUFFICES ASSUME Init PROVE InOrder
    OBVIOUS
  <1>1. delivered \o ring = <<>>
    BY EmptySeq, ConcatEmptySeq DEF Init
  <1>2. Len(delivered \o ring) = 0
    BY <1>1, EmptySeq
  <1> QED BY <1>2 DEF Init, InOrder, BytesInOrder, Below

LEMMA OrderNext == ReadType /\ InOrder /\ [Next]_vars => InOrder'
  <1> SUFFICES ASSUME ReadType, InOrder, [Next]_vars PROVE InOrder'
    OBVIOUS
  <1> DEFINE d == delivered
             q == ring
  <1>0. /\ d \in Seq(1 .. MaxIn) /\ q \in Seq(1 .. MaxIn)
        /\ d \in Seq(Nat) /\ q \in Seq(Nat) /\ nIn \in Nat /\ nIn + 1 \in Nat
    <2>1. 1 .. MaxIn \subseteq Nat
      OBVIOUS
    <2> QED BY <2>1, SeqMonotonic, ReadAssumption DEF ReadType, TypeOK
  <1>1. CASE RxCallback
    <2> DEFINE r == Pushed(nIn + 1)
               n == RxTaken(r)
    <2>1. /\ nIn' = nIn + 1 /\ r \in Seq(1 .. MaxIn) /\ n \in 0 .. Len(r)
          /\ delivered' = d \o SubSeq(r, 1, n) /\ ring' = Rest(r, n)
          /\ lost' = lost + (IF Len(q) = RingSize - 1 THEN 1 ELSE 0)
      BY <1>1, RxEffect
    <2>2. delivered' \o ring' = d \o r
      BY <1>0, <2>1, TakenInOrder
    <2>3. Increasing(d \o q) /\ Below(d \o q, nIn + 1)
          /\ nIn = Len(d \o q) + lost
      BY DEF InOrder, BytesInOrder, Increasing
    <2>4. Len(d \o q) \in Nat /\ lost \in Nat
      BY <1>0, ConcatProperties, LenProperties DEF ReadType
    <2>5. /\ Increasing(d \o r) /\ Below(d \o r, nIn + 2)
          /\ Len(d \o r) + (IF Len(q) = RingSize - 1 THEN 1 ELSE 0)
               = Len(d \o q) + 1
      <3>1. CASE Len(q) = RingSize - 1
        <4>1. q # <<>>
          BY <3>1, ReadAssumption, EmptySeq
        <4>2. /\ Tail(q) \in Seq(Nat) /\ Increasing(d \o Tail(q))
              /\ Below(d \o Tail(q), nIn + 1)
              /\ Len(d \o Tail(q)) = Len(d \o q) - 1
          BY <1>0, <2>3, <4>1, DropInOrder
        <4>3. r = Append(Tail(q), nIn + 1)
          BY <3>1 DEF Pushed, IsFull
        <4>4. /\ Increasing(d \o r) /\ Below(d \o r, (nIn + 1) + 1)
              /\ Len(d \o r) = Len(d \o Tail(q)) + 1
          <5> HIDE DEF r
          <5>1. /\ Increasing(d \o Append(Tail(q), nIn + 1))
                /\ Below(d \o Append(Tail(q), nIn + 1), (nIn + 1) + 1)
                /\ Len(d \o Append(Tail(q), nIn + 1)) = Len(d \o Tail(q)) + 1
            BY ONLY <1>0, <4>2, AppendInOrder
          <5> QED BY ONLY <4>3, <5>1
        <4>5. (nIn + 1) + 1 = nIn + 2
          BY <1>0
        <4> HIDE DEF r
        <4> QED BY <2>4, <3>1, <4>2, <4>4, <4>5
      <3>2. CASE Len(q) # RingSize - 1
        <4>1. r = Append(q, nIn + 1)
          BY <3>2 DEF Pushed, IsFull
        <4>2. /\ Increasing(d \o r) /\ Below(d \o r, (nIn + 1) + 1)
              /\ Len(d \o r) = Len(d \o q) + 1
          <5> HIDE DEF r
          <5>1. /\ Increasing(d \o Append(q, nIn + 1))
                /\ Below(d \o Append(q, nIn + 1), (nIn + 1) + 1)
                /\ Len(d \o Append(q, nIn + 1)) = Len(d \o q) + 1
            BY ONLY <1>0, <2>3, AppendInOrder
          <5> QED BY ONLY <4>1, <5>1
        <4>3. (nIn + 1) + 1 = nIn + 2
          BY <1>0
        <4> HIDE DEF r
        <4> QED BY <2>4, <3>2, <4>2, <4>3
      <3> QED BY <3>1, <3>2
    <2>6. Len(d \o r) \in Nat
      BY <1>0, <2>1, ConcatProperties, LenProperties
    <2>7. nIn' = Len(d \o r) + lost' /\ nIn' + 1 = nIn + 2
      <3>1. /\ nIn' = nIn + 1 /\ nIn \in Nat /\ lost \in Nat
            /\ nIn = Len(d \o q) + lost
            /\ Len(d \o q) \in Nat /\ Len(d \o r) \in Nat
            /\ lost' = lost + (IF Len(q) = RingSize - 1 THEN 1 ELSE 0)
            /\ Len(d \o r) + (IF Len(q) = RingSize - 1 THEN 1 ELSE 0)
                 = Len(d \o q) + 1
        BY <1>0, <2>1, <2>3, <2>4, <2>5, <2>6
      <3> QED BY ONLY <3>1
    <2> HIDE DEF r, n
    <2> QED BY <2>2, <2>5, <2>7 DEF InOrder, BytesInOrder, Increasing, Below
  <1>2. ASSUME NEW len \in Lengths, NEW m \in Modes,
               Read(len, m) \/ TryRead(len)
        PROVE  InOrder'
    <2> DEFINE n == TakenBy(len)
    <2>1. /\ n \in 0 .. Len(q) /\ ring' = Rest(q, n)
          /\ delivered' = d \o SubSeq(q, 1, n) /\ UNCHANGED <<nIn, lost>>
      BY <1>2, ReadEffect DEF Read, TryRead
    <2>2. delivered' \o ring' = d \o q
      BY <1>0, <2>1, TakenInOrder
    <2> QED BY <2>1, <2>2 DEF InOrder, BytesInOrder, Below
  <1>3. CASE UNCHANGED <<ring, delivered, nIn, lost>>
    BY <1>3 DEF InOrder, BytesInOrder, Below
  <1>4. CASE Task
    BY <1>3, <1>4 DEF Task, TaskWakes, TaskLooks, TaskTests, TaskCompares,
                      TaskTakes, TaskCalls, history
  <1>5. CASE Proceed \/ OpenReadHandle \/ InstallRxCallback \/ WritePosts
    BY <1>3, <1>5 DEF Proceed, Spin, Callback, CloseReadHandle, OpenReadHandle,
                      InstallRxCallback, WritePosts, history
  <1>6. CASE UNCHANGED vars \/ \E closing \in BOOLEAN : CancelReading(closing)
    BY <1>3, <1>6 DEF CancelReading, vars, history
  <1> QED BY <1>1, <1>2, <1>4, <1>5, <1>6 DEF Next, Modes

\* The readers get the bytes in the order of arrival, each once, and the
\* account of the bytes is exact, however the interrupt and Read share the ring.
THEOREM ReadersInOrder == Spec => []BytesInOrder
  <1>1. InOrder => BytesInOrder
    BY DEF InOrder
  <1> QED BY <1>1, OrderInit, OrderNext, ReadTypeInit, ReadTypeNext, PTL DEF Spec
=============================================================================

------------------------- MODULE SerialManagerRead -------------------------
(***************************************************************************)
(* The reading half of serial_manager.c over a UART port: the interrupt    *)
(* puts each byte into a ring, hands the ring to the request of the opened *)
(* read handle, and posts a message to the common task when the request is *)
(* full; the application reads, tries, cancels, closes and opens.  Every   *)
(* message makes the task look at the request, whatever it was sent for.   *)
(*                                                                         *)
(* Bytes are numbered as they arrive, and the ring is the sequence of the  *)
(* bytes in it.  A critical section and the interrupt handler are a step.  *)
(***************************************************************************)
EXTENDS Integers, SequencesExt

CONSTANTS RingSize,   \* bytes of the ring buffer, one of which stays free
          Lengths,    \* lengths of requests
          QueueSize,  \* COMMON_TASK_MAX_MSGQ_COUNT
          Usages,     \* ways to use the module: which of the common task and
                      \* the application goes first, if any; the modes the
                      \* application reads in; whether it cancels and closes;
                      \* whether writes of others post messages too; and
                      \* whether other components fill the task's queue
          MaxIn       \* bound: bytes that arrive

Modes == {"blocking", "nonblocking"}

ASSUME ReadAssumption ==
  /\ RingSize \in Nat \ {0, 1} /\ MaxIn \in Nat /\ Lengths \subseteq Nat \ {0}
  /\ QueueSize \in Nat \ {0}
  /\ Usages \subseteq [first : {"task", "app", "any"}, modes : SUBSET Modes,
                       cancels : BOOLEAN, writes : BOOLEAN, crowded : BOOLEAN]

VARIABLES usage,
          ring,                          \* the bytes from ringTail to ringHead
          opened,                        \* openedReadHandleHead is not NULL
          buffer, length, soFar, mode,   \* transfer of the read handle
          callback,                      \* the read handle's is not NULL
          posted,                        \* messages to the common task
          pc,                            \* the application
          taskPc,                        \* SerialManager_Task
          nIn, delivered, lost,          \* history: bytes that arrived, were
                                         \* stored for readers, overwritten
          announced,                     \* history: overflows reported
          owed                           \* history: callbacks still to come
                                         \* for accepted requests

transfer == <<buffer, length, soFar, mode>>
history == <<nIn, delivered, lost, announced, owed>>
vars == <<usage, ring, opened, callback, transfer, posted, pc, taskPc, history>>

Init ==
  /\ usage \in Usages /\ ring = <<>> /\ opened = FALSE /\ callback = FALSE
  /\ buffer = FALSE /\ length = 0 /\ soFar = 0 /\ mode = "blocking"
  /\ posted = 0 /\ pc = "idle" /\ taskPc = "wait"
  /\ nIn = 0 /\ delivered = <<>> /\ lost = 0 /\ announced = 0 /\ owed = 0

\* Wrong variants of operators below, used by no definition.
NeverFull(r) == FALSE
RestKept(r, n) == r
AnnouncedIfAsked(r) == opened /\ callback /\ buffer /\ r # <<>>
FilledButOne == soFar + 1 >= length
OneTooMany == soFar' > length
NotReleased == buffer

-----------------------------------------------------------------------------
(* The common task's queue *)

\* COMMON_TASK_post_message, whose result nobody looks at: a full queue refuses
\* the message, and other components' messages may have filled it.
Post ==
  \/ posted < QueueSize /\ posted' = posted + 1
  \/ (posted = QueueSize \/ usage.crowded) /\ UNCHANGED posted

\* The message of a write that was sent, or canceled.
WritePosts ==
  /\ usage.writes /\ Post
  /\ UNCHANGED <<usage, ring, opened, callback, transfer, pc, taskPc, history>>

-----------------------------------------------------------------------------
(* SerialManager_RxCallback, from Serial_UartCallback with RxIdle            *)

IsFull(r) == Len(r) = RingSize - 1

\* The ring after the interrupt; the oldest byte gives way.
Pushed(b) == Append(IF IsFull(ring) THEN Tail(ring) ELSE ring, b)

Rest(r, n) == SubSeq(r, n + 1, Len(r))
Requested == opened /\ buffer
Completes == soFar' >= length

\* What is left in the ring is announced, with the overflow if there was one.
Announced(r) == opened /\ callback /\ r # <<>>

RxCallback ==
  /\ nIn < MaxIn /\ nIn' = nIn + 1
  /\ LET r == Pushed(nIn')
         n == IF Requested /\ length > soFar THEN Min({Len(r), length - soFar})
              ELSE 0
         full == Requested /\ Completes
     IN
       /\ ring' = Rest(r, n)
       /\ delivered' = delivered \o SubSeq(r, 1, n) /\ soFar' = soFar + n
       /\ buffer' = (buffer /\ ~(full /\ mode = "blocking"))
       /\ IF full /\ mode = "nonblocking" THEN Post ELSE UNCHANGED posted
  /\ lost' = lost + Len(ring) + 1 - Len(Pushed(nIn'))
  /\ announced' =
       IF lost' > lost /\ Announced(ring') THEN announced + 1 ELSE announced
  /\ UNCHANGED <<usage, opened, callback, length, mode, pc, taskPc, owed>>

-----------------------------------------------------------------------------
(* The application                                                           *)

\* It runs while the common task, if that goes first, has nothing to do.
At(place) ==
  /\ pc = place
  /\ usage.first = "task" => taskPc = "wait" /\ posted = 0

\* SerialManager_Read: a handle with a request returns Busy; the critical
\* section stores what the ring has.
Read(len, m) ==
  LET n == Min({Len(ring), len}) IN
  /\ At("idle") /\ opened /\ ~buffer
  /\ m \in usage.modes /\ (m = "nonblocking" => callback)
  /\ length' = len /\ soFar' = n /\ mode' = m
  /\ delivered' = delivered \o SubSeq(ring, 1, n) /\ ring' = Rest(ring, n)
  /\ buffer' = (n < len)
  /\ pc' = CASE n = len /\ m = "nonblocking" -> "callback"
             [] n < len /\ m = "blocking" -> "spin"
             [] OTHER -> "idle"
  /\ owed' = IF m = "nonblocking" THEN owed + 1 ELSE owed
  /\ UNCHANGED <<usage, opened, callback, posted, taskPc, nIn, lost, announced>>

\* SerialManager_TryRead leaves no request.
TryRead(len) ==
  LET n == Min({Len(ring), len}) IN
  /\ At("idle") /\ opened /\ ~buffer
  /\ length' = len /\ soFar' = n /\ mode' = "blocking"
  /\ delivered' = delivered \o SubSeq(ring, 1, n) /\ ring' = Rest(ring, n)
  /\ UNCHANGED <<usage, opened, callback, buffer, posted, pc, taskPc, nIn, lost,
                 announced, owed>>

\* The end of the waiting loop of a blocking read.
Spin ==
  /\ At("spin") /\ soFar >= length /\ pc' = "idle"
  /\ UNCHANGED <<usage, ring, opened, callback, transfer, posted, taskPc,
                 history>>

\* What CancelReading and the task leave of the request's buffer.
Released == FALSE

\* The callback that Read, or CancelReading, makes itself.
Callback ==
  /\ At("callback") \/ At("close_callback")
  /\ owed' = owed - 1 /\ pc' = (IF pc = "callback" THEN "idle" ELSE "close")
  /\ UNCHANGED <<usage, ring, opened, callback, transfer, posted, taskPc, nIn,
                 delivered, lost, announced>>

\* SerialManager_CancelReading, alone or from SerialManager_CloseReadHandle;
\* it refuses a blocking read.
CancelReading(closing) ==
  /\ At("idle") /\ opened /\ usage.cancels
  /\ ~(buffer /\ mode = "blocking")
  /\ buffer' = Released /\ length' = 0
  /\ pc' = CASE buffer -> IF closing THEN "close_callback" ELSE "callback"
             [] OTHER -> IF closing THEN "close" ELSE "idle"
  /\ UNCHANGED <<usage, ring, opened, callback, soFar, mode, posted, taskPc,
                 history>>

\* SerialManager_OpenReadHandle and the rest of SerialManager_CloseReadHandle
\* clear the handle, outside their critical sections: who looks at a handle that
\* is being opened finds it clear already, and nobody looks at a closed one.
Cleared ==
  /\ buffer' = FALSE /\ length' = 0 /\ soFar' = 0 /\ mode' = "blocking"
  /\ callback' = FALSE

CloseReadHandle ==
  /\ At("close") /\ opened' = FALSE /\ pc' = "idle" /\ Cleared
  /\ UNCHANGED <<usage, ring, posted, taskPc, history>>

OpenReadHandle ==
  /\ At("idle") /\ ~opened /\ opened' = TRUE /\ Cleared
  /\ UNCHANGED <<usage, ring, posted, pc, taskPc, history>>

\* SerialManager_InstallRxCallback: until then losses pass unannounced.
InstallRxCallback ==
  /\ At("idle") /\ opened /\ ~callback /\ callback' = TRUE
  /\ UNCHANGED <<usage, ring, opened, transfer, posted, pc, taskPc, history>>

-----------------------------------------------------------------------------
(* The common task, and the part of SerialManager_Task that answers reads    *)

Filled == soFar >= length

\* It runs while the application, if that goes first, is in no call.
TaskAt(place) ==
  /\ taskPc = place
  /\ usage.first = "app" => pc = "idle"

TaskWakes ==
  /\ TaskAt("wait") /\ posted > 0 /\ posted' = posted - 1 /\ taskPc' = "look"
  /\ UNCHANGED <<usage, ring, opened, callback, transfer, pc, history>>

\* The three tests, with interrupts enabled in between: is a handle open, has it
\* a request, is the request full.  The last one loads soFar and length; an
\* interrupt between the loads only moves soFar, as if before or after them.
TaskLooks ==
  /\ TaskAt("look") /\ taskPc' = (IF opened THEN "test" ELSE "wait")
  /\ UNCHANGED <<usage, ring, opened, callback, transfer, posted, pc, history>>

TaskTests ==
  /\ TaskAt("test") /\ taskPc' = (IF buffer THEN "compare" ELSE "wait")
  /\ UNCHANGED <<usage, ring, opened, callback, transfer, posted, pc, history>>

TaskCompares ==
  /\ TaskAt("compare") /\ taskPc' = (IF Filled THEN "take" ELSE "wait")
  /\ UNCHANGED <<usage, ring, opened, callback, transfer, posted, pc, history>>

TaskTakes ==
  /\ TaskAt("take") /\ buffer' = Released /\ taskPc' = "call"
  /\ UNCHANGED <<usage, ring, opened, callback, length, soFar, mode, posted, pc,
                 history>>

TaskCalls ==
  /\ TaskAt("call") /\ taskPc' = "wait"
  /\ owed' = IF callback THEN owed - 1 ELSE owed
  /\ UNCHANGED <<usage, ring, opened, callback, transfer, posted, pc, nIn,
                 delivered, lost, announced>>

Task ==
  TaskWakes \/ TaskLooks \/ TaskTests \/ TaskCompares \/ TaskTakes \/ TaskCalls
Proceed == Spin \/ Callback \/ CloseReadHandle

Next ==
  \/ RxCallback \/ WritePosts \/ Task \/ Proceed
  \/ OpenReadHandle \/ InstallRxCallback
  \/ \E len \in Lengths : TryRead(len) \/ \E m \in Modes : Read(len, m)
  \/ \E closing \in BOOLEAN : CancelReading(closing)

\* The task runs when it has a message and the application leaves it the
\* processor, and the application proceeds inside a call; no byte need arrive
\* and nobody need read.
Spec == Init /\ [][Next]_vars /\ WF_vars(Task) /\ WF_vars(Proceed)

-----------------------------------------------------------------------------
(* Properties *)

TypeOK ==
  /\ usage \in Usages /\ opened \in BOOLEAN /\ buffer \in BOOLEAN
  /\ callback \in BOOLEAN /\ posted \in 0 .. QueueSize
  /\ ring \in Seq(1 .. MaxIn) /\ Len(ring) < RingSize
  /\ length \in Lengths \cup {0} /\ soFar \in Nat
  /\ mode \in Modes
  /\ pc \in {"idle", "callback", "spin", "close_callback", "close"}
  /\ taskPc \in {"wait", "look", "test", "compare", "take", "call"}

\* Bytes reach the readers in the order of arrival, each once, and those that
\* do not were overwritten: whoever moves them, the interrupt or Read, takes
\* them from the same end.
BytesInOrder ==
  /\ \A i \in 1 .. Len(delivered \o ring) - 1 :
       (delivered \o ring)[i] < (delivered \o ring)[i + 1]
  /\ nIn = Len(delivered \o ring) + lost

\* A request that lacks bytes and bytes in the ring exclude each other.
NoByteWithheld == Requested /\ soFar < length => ring = <<>>

\* While the open read handle has a callback, no byte is overwritten without the
\* callback saying so.
LossAnnounced ==
  [][lost' > lost /\ opened /\ callback => announced' > announced]_vars

Due(holds) == IF holds THEN 1 ELSE 0

\* An accepted request gets one callback: it is owed while the handle holds the
\* request, or while the task or the application is about to make the call.
\* A new request may be accepted between the task's clearing of the buffer and
\* its call.
AnsweredOnce ==
  owed = Due(pc \in {"callback", "close_callback"}) + Due(taskPc = "call")
         + Due(buffer /\ mode = "nonblocking")

\* The task reports success only for a request that still waits for it, and
\* whose bytes are all stored: the interrupt may end a blocking request between
\* the task's tests, and messages come that were not sent for this request.
SuccessMeansStored == taskPc = "take" => buffer /\ soFar = length

\* A full request does not keep its handle, though its message may come when the
\* task is about to wait, and though the queue may be full of older messages of
\* the serial manager; not so if others fill the queue.
FullIsAnswered ==
  Requested /\ mode = "nonblocking" /\ Filled /\ ~usage.crowded ~> ~buffer
=============================================================================

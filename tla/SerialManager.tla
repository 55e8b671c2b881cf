--------------------------- MODULE SerialManager ---------------------------
(***************************************************************************)
(* The writing half of serial_manager.c over a UART port, in non-blocking  *)
(* mode with an operating system: write handles queue in the running list, *)
(* the port sends the first of them, the interrupt that ends a transfer    *)
(* starts the next and moves the handle to the completed list, and a       *)
(* message to the common task, which has a queue of limited length, makes  *)
(* it run SerialManager_Task, which calls the handles in that list back.   *)
(*                                                                         *)
(* A critical section and the whole interrupt handler are one step each;   *)
(* everything else is cut where another context may come in between.  The  *)
(* lists are sequences: that generic_list.c keeps them so, if no element   *)
(* is added to two, is the subject of GenericList.                         *)
(***************************************************************************)
EXTENDS Integers, SequencesExt

CONSTANTS Handles, Callers, None,
          QueueSize, \* COMMON_TASK_MAX_MSGQ_COUNT
          Usages     \* ways to use the module, one of which is chosen:
                     \* the caller that owns each handle, the handles written
                     \* with WriteBlocking, those that may be cancelled and
                     \* closed, whether the common task runs before any
                     \* caller, the callers that run before the others,
                     \* whether messages of read requests come too, and
                     \* whether other components fill the task's queue

ASSUME SerialAssumption ==
  /\ None \notin Handles \cup Callers /\ QueueSize \in Nat \ {0}
  /\ Usages \subseteq [owner : [Handles -> Callers \cup {None}],
                       blocking : SUBSET Handles, cancels : SUBSET Handles,
                       taskFirst : BOOLEAN, high : SUBSET Callers,
                       reads : BOOLEAN, crowded : BOOLEAN]

VARIABLES usage,
          opened,              \* the opened write handles
          running, completed,  \* runningWriteHandleHead, completedWriteHandleHead
          buffer,              \* transfer.buffer of each handle is not NULL
          soFar,               \* transfer.soFar is transfer.length, or 0
          status,              \* transfer.status
          busy,                \* tx.busy of the UART port
          hal,                 \* the handle whose bytes the HAL is sending
          posted,              \* messages to the common task in its queue
          call,                \* the call each caller is in, with its locals
          taskPc, taskHandle,  \* SerialManager_Task
          sent,                \* history: every byte of the request is out
          order                \* history: the non-blocking requests accepted
                               \* and not yet called back, oldest first

handleVars == <<running, completed, buffer, soFar, status>>
portVars == <<busy, hal>>
taskVars == <<taskPc, taskHandle>>
history == <<sent, order>>
vars == <<usage, opened, handleVars, portVars, posted, call, taskVars, history>>

\* The locals of a call; then: what StartWriting returns to.
Call(pc, w, then, closing) ==
  [pc |-> pc, handle |-> w, then |-> then, closing |-> closing,
   start |-> None, victim |-> None, wasBusy |-> FALSE]
NoCall == Call("idle", None, "end", FALSE)

Init ==
  /\ usage \in Usages /\ opened = Handles
  /\ running = <<>> /\ completed = <<>>
  /\ buffer = [w \in Handles |-> FALSE] /\ soFar = [w \in Handles |-> FALSE]
  /\ status = [w \in Handles |-> "success"]
  /\ busy = FALSE /\ hal = None /\ posted = 0
  /\ call = [c \in Callers |-> NoCall]
  /\ taskPc = "wait" /\ taskHandle = None
  /\ sent = [w \in Handles |-> FALSE] /\ order = <<>>

First(list) == IF list = <<>> THEN None ELSE Head(list)

\* Wrong variants of operators below, used by no definition.
Always(x) == TRUE
StartedUnremoved(list) == First(running)
NeverStarted(list) == None
PushedInFront(list, w) == Cons(w, list)
DoneAfterOne == "wait"
EndedReread(list) == First(Tail(list))

\* Priorities are fixed: a caller runs while the common task, if it goes first,
\* has nothing to do, and while the callers above it are in no call, waiting
\* ones included, for the loop of a blocking write never yields.
Above(c) == IF c \in usage.high THEN {} ELSE usage.high
At(c, pc) ==
  /\ call[c].pc = pc
  /\ usage.taskFirst => taskPc = "wait" /\ posted = 0
  /\ \A d \in Above(c) : call[d].pc = "idle"
Goto(c, pc) == call' = [call EXCEPT ![c].pc = pc]
Leave(c) == call' = [call EXCEPT ![c] = NoCall]
OnlyCalls ==
  UNCHANGED <<usage, opened, handleVars, portVars, posted, taskVars, history>>

\* COMMON_TASK_post_message, whose result nobody looks at: a full queue refuses
\* the message, and other components' messages may have filled it.
Post ==
  \/ posted < QueueSize /\ posted' = posted + 1
  \/ (posted = QueueSize \/ usage.crowded) /\ UNCHANGED posted

-----------------------------------------------------------------------------
(* SerialManager_StartWriting and Serial_UartWrite, called by a caller       *)

\* StartWriting returns: to the end of TxCallback, to the end of a cancel, or
\* to Write, which waits only for a blocking write that was started.
Continue(c, started) ==
  CASE call[c].then = "callback" -> Goto(c, "callback_end")
    [] call[c].then = "end" /\ call[c].closing -> Goto(c, "close")
    [] call[c].then = "write" /\ started /\ call[c].handle \in usage.blocking ->
         Goto(c, "spin")
    [] OTHER -> Leave(c)

StartGet(c) ==
  /\ At(c, "get") /\ OnlyCalls
  /\ IF running = <<>> THEN Continue(c, FALSE)
     ELSE call' = [call EXCEPT ![c].pc = "test", ![c].start = Head(running)]

StartTest(c) ==
  /\ At(c, "test") /\ OnlyCalls
  /\ IF busy THEN Continue(c, FALSE) ELSE Goto(c, "set")

StartSet(c) ==
  /\ At(c, "set") /\ busy' = TRUE /\ Goto(c, "send")
  /\ UNCHANGED <<usage, opened, handleVars, hal, posted, taskVars, history>>

\* The HAL refuses a second transfer; the port is then marked idle.
StartSend(c) ==
  /\ At(c, "send")
  /\ IF hal = None THEN hal' = call[c].start /\ UNCHANGED busy
                   ELSE busy' = FALSE /\ UNCHANGED hal
  /\ Continue(c, hal = None)
  /\ UNCHANGED <<usage, opened, handleVars, posted, taskVars, history>>

-----------------------------------------------------------------------------
(* The end of a transfer *)

Counted(w) == [soFar EXCEPT ![w] = TRUE]
Completed(list, w) == Append(list, w)
NextStarted(list) == First(list)
Ended(list) == Head(list)

\* The end of SerialManager_TxCallback, for the handle it took from the list.
Complete(w, result) ==
  /\ soFar' = Counted(w)
  /\ status' = [status EXCEPT ![w] = result]
  /\ IF w \in usage.blocking
     THEN /\ buffer' = [buffer EXCEPT ![w] = FALSE]
          /\ UNCHANGED <<completed, posted>>
     ELSE /\ completed' = Completed(completed, w) /\ Post
          /\ UNCHANGED buffer

\* The interrupt: Serial_UartCallback with TxIdle calls TxCallback, which
\* takes the first handle and starts the next.
TxIdle ==
  /\ hal # None /\ sent' = [sent EXCEPT ![hal] = TRUE]
  /\ IF busy /\ running # <<>>
     THEN /\ running' = Tail(running)
          /\ hal' = NextStarted(Tail(running)) /\ busy' = (hal' # None)
          /\ Complete(Ended(running), "success")
     ELSE /\ busy' = FALSE /\ hal' = None /\ UNCHANGED <<handleVars, posted>>
  /\ UNCHANGED <<usage, opened, call, taskVars, order>>

-----------------------------------------------------------------------------
(* SerialManager_Write *)

Unused(w) == ~buffer[w]
IsEmpty(list) == list = <<>>

\* The critical section; a handle in use returns Busy and changes nothing.
Write(c, w) ==
  /\ At(c, "idle") /\ usage.owner[w] = c /\ w \in opened /\ Unused(w)
  /\ buffer' = [buffer EXCEPT ![w] = TRUE]
  /\ soFar' = [soFar EXCEPT ![w] = FALSE]
  /\ running' = Append(running, w)
  /\ call' = [call EXCEPT ![c] =
                CASE IsEmpty(running) -> Call("get", w, "write", FALSE)
                  [] ~IsEmpty(running) /\ w \in usage.blocking ->
                       Call("spin", w, "write", FALSE)
                  [] OTHER -> @]
  /\ sent' = [sent EXCEPT ![w] = FALSE]
  /\ order' = IF w \in usage.blocking THEN order ELSE Append(order, w)
  /\ UNCHANGED <<usage, opened, completed, status, portVars, posted, taskVars>>

\* The end of the waiting loop.
Spin(c) ==
  /\ At(c, "spin") /\ soFar[call[c].handle] /\ Leave(c) /\ OnlyCalls

-----------------------------------------------------------------------------
(* SerialManager_CancelWriting, and CloseWriteHandle, which begins with it   *)

\* The test before the critical section: no blocking write is cancelled.
Cancel(c, w, closing) ==
  /\ At(c, "idle") /\ usage.owner[w] = c /\ w \in opened \cap usage.cancels
  /\ ~(buffer[w] /\ w \in usage.blocking)
  /\ call' = [call EXCEPT ![c] = Call("cancel", w, "end", closing)]
  /\ OnlyCalls

Restart(c) == call' = [call EXCEPT ![c].pc = "get", ![c].then = "end"]

\* The critical section takes the handle out of the list it is in, if any,
\* unless it is the first of the running list.
CancelQueued(c) ==
  LET w == call[c].handle IN
  /\ At(c, "cancel") /\ w # First(running)
  /\ running' = RemoveFirst(running, w)
  /\ completed' = RemoveFirst(completed, w)
  /\ Goto(c, "canceled")
  /\ UNCHANGED <<usage, opened, buffer, soFar, status, portVars, posted,
                 taskVars, history>>

\* After it.
CancelComplete(c) ==
  LET w == call[c].handle IN
  /\ At(c, "canceled")
  /\ soFar' = [soFar EXCEPT ![w] = FALSE]
  /\ status' = [status EXCEPT ![w] = "canceled"]
  /\ completed' = Append(completed, w) /\ Post /\ Restart(c)
  /\ UNCHANGED <<usage, opened, running, buffer, portVars, taskVars, history>>

CancelFirst(c) ==
  /\ At(c, "cancel") /\ call[c].handle = First(running)
  /\ Goto(c, "port_cancel") /\ OnlyCalls

\* Serial_UartCancelWrite: the critical section, HAL_UartAbortSend, TxCallback.
PortCancel(c) ==
  /\ At(c, "port_cancel") /\ busy' = FALSE
  /\ call' = [call EXCEPT ![c].pc = "abort", ![c].wasBusy = busy]
  /\ UNCHANGED <<usage, opened, handleVars, hal, posted, taskVars, history>>

PortAbort(c) ==
  /\ At(c, "abort") /\ hal' = None
  /\ IF call[c].wasBusy THEN Goto(c, "callback") ELSE Restart(c)
  /\ UNCHANGED <<usage, opened, handleVars, busy, posted, taskVars, history>>

\* TxCallback takes the first handle, whichever it is by now: LIST_GetHead, and
\* SerialManager_RemoveHead in another step.
PortCallback(c) ==
  /\ At(c, "callback") /\ OnlyCalls
  /\ IF running = <<>> THEN Restart(c)
     ELSE call' = [call EXCEPT ![c].pc = "unlink", ![c].victim = Head(running)]

PortUnlink(c) ==
  /\ At(c, "unlink")
  /\ running' = (IF running = <<>> THEN <<>> ELSE Tail(running))
  /\ call' = [call EXCEPT ![c].pc = "get", ![c].then = "callback"]
  /\ UNCHANGED <<usage, opened, completed, buffer, soFar, status, portVars,
                 posted, taskVars, history>>

CallbackEnd(c) ==
  /\ At(c, "callback_end") /\ Complete(call[c].victim, "canceled") /\ Restart(c)
  /\ UNCHANGED <<usage, opened, running, portVars, taskVars, history>>

\* The rest of SerialManager_CloseWriteHandle clears the handle.
Close(c) ==
  LET w == call[c].handle IN
  /\ At(c, "close") /\ opened' = opened \ {w} /\ Leave(c)
  /\ buffer' = [buffer EXCEPT ![w] = FALSE]
  /\ soFar' = [soFar EXCEPT ![w] = FALSE]
  /\ status' = [status EXCEPT ![w] = "success"]
  /\ UNCHANGED <<usage, running, completed, portVars, posted, taskVars, history>>

\* SerialManager_OpenWriteHandle; the callback is installed with it.
Open(c, w) ==
  /\ At(c, "idle") /\ usage.owner[w] = c /\ w \notin opened
  /\ opened' = opened \cup {w}
  /\ UNCHANGED <<usage, handleVars, portVars, posted, call, taskVars, history>>

-----------------------------------------------------------------------------
(* The common task, and SerialManager_Task, which looks at the completed     *)
(* list whatever the message was sent for                                    *)

TaskWakes ==
  /\ taskPc = "wait" /\ posted > 0 /\ posted' = posted - 1 /\ taskPc' = "drain"
  /\ UNCHANGED <<usage, opened, handleVars, portVars, call, taskHandle, history>>

\* LIST_GetHead, and LIST_RemoveHead in another step.
TaskGet ==
  /\ taskPc = "drain"
  /\ taskPc' = (IF completed = <<>> THEN "wait" ELSE "remove")
  /\ taskHandle' = First(completed)
  /\ UNCHANGED <<usage, opened, handleVars, portVars, posted, call, history>>

TaskRemove ==
  /\ taskPc = "remove" /\ taskPc' = "free"
  /\ completed' = (IF completed = <<>> THEN <<>> ELSE Tail(completed))
  /\ UNCHANGED <<usage, opened, running, buffer, soFar, status, portVars, posted,
                 call, taskHandle, history>>

TaskFree ==
  /\ taskPc = "free" /\ taskPc' = "call"
  /\ buffer' = [buffer EXCEPT ![taskHandle] = FALSE]
  /\ UNCHANGED <<usage, opened, running, completed, soFar, status, portVars,
                 posted, call, taskHandle, history>>

AfterCallback == "drain"

\* The callback of the handle.
TaskCall ==
  /\ taskPc = "call" /\ taskPc' = AfterCallback
  /\ order' = RemoveFirst(order, taskHandle)
  /\ UNCHANGED <<usage, opened, handleVars, portVars, posted, call, taskHandle,
                 sent>>

Task == TaskWakes \/ TaskGet \/ TaskRemove \/ TaskFree \/ TaskCall

\* The message of a read request: the task looks at the completed list as well.
ReadPosts ==
  /\ usage.reads /\ Post
  /\ UNCHANGED <<usage, opened, handleVars, portVars, call, taskVars, history>>

-----------------------------------------------------------------------------
Proceed(c) ==
  \/ StartGet(c) \/ StartTest(c) \/ StartSet(c) \/ StartSend(c) \/ Spin(c)
  \/ CancelQueued(c) \/ CancelComplete(c) \/ CancelFirst(c)
  \/ PortCancel(c) \/ PortAbort(c) \/ PortCallback(c) \/ PortUnlink(c)
  \/ CallbackEnd(c) \/ Close(c)

Begin(c, w) ==
  \/ Write(c, w) \/ Open(c, w)
  \/ \E closing \in BOOLEAN : Cancel(c, w, closing)

Next ==
  \/ TxIdle \/ ReadPosts \/ Task
  \/ \E c \in Callers : Proceed(c) \/ \E w \in Handles : Begin(c, w)

\* Interrupts come, and the common task, which is not below a caller, runs.  A
\* caller inside a call proceeds if those above it leave it the processor again
\* and again; nobody need call.
Spec ==
  /\ Init /\ [][Next]_vars
  /\ WF_vars(TxIdle) /\ WF_vars(Task)
  /\ \A c \in Callers : SF_vars(Proceed(c))

-----------------------------------------------------------------------------
(* Properties *)

Pcs == {"idle", "get", "test", "set", "send", "spin", "cancel", "canceled",
        "port_cancel", "abort", "callback", "unlink", "callback_end", "close"}

TypeOK ==
  /\ usage \in Usages /\ opened \subseteq Handles
  /\ running \in Seq(Handles) /\ completed \in Seq(Handles)
  /\ buffer \in [Handles -> BOOLEAN] /\ soFar \in [Handles -> BOOLEAN]
  /\ status \in [Handles -> {"success", "canceled"}]
  /\ busy \in BOOLEAN /\ hal \in Handles \cup {None} /\ posted \in 0 .. QueueSize
  /\ call \in [Callers ->
                [pc : Pcs, handle : Handles \cup {None},
                 then : {"write", "callback", "end"}, closing : BOOLEAN,
                 start : Handles \cup {None}, victim : Handles \cup {None},
                 wasBusy : BOOLEAN]]
  /\ taskPc \in {"wait", "drain", "remove", "free", "call"}
  /\ taskHandle \in Handles \cup {None}
  /\ sent \in [Handles -> BOOLEAN] /\ order \in Seq(Handles)

\* No handle is twice in the lists: LIST_AddTail finds an element only in the
\* list it adds to.  A closed handle, whose memory is zero, is in none, and the
\* task is not about to call it.
HandlesInOneList ==
  /\ \A w \in Handles :
       Cardinality({i \in DOMAIN (running \o completed) :
                      (running \o completed)[i] = w}) <= 1
  /\ \A w \in Handles \ opened :
       /\ ~Contains(running \o completed, w)
       /\ ~(taskPc \in {"remove", "free", "call"} /\ taskHandle = w)

\* When no caller is about to start or to cancel a transfer, the port is busy
\* exactly when a handle waits, and sends the first: no queue stands still.
PortServesFirst ==
  (\A c \in Callers : call[c].pc \in {"idle", "spin"}) =>
    /\ busy <=> running # <<>>
    /\ hal = First(running)

\* A request is reported as sent, through the callback or by WriteBlocking's
\* return, only when all its bytes are out.
SuccessMeansSent ==
  /\ taskPc = "free" /\ status[taskHandle] = "success" => sent[taskHandle]
  /\ \A c \in Callers :
       call[c].pc = "spin" /\ soFar[call[c].handle] => sent[call[c].handle]

\* The bytes of a request go out once, and it is reported as sent once, in the
\* order of the writes.
OnceInOrder ==
  /\ hal # None => ~sent[hal]
  /\ taskPc = "free" /\ status[taskHandle] = "success" =>
       taskHandle = First(order)

\* Every accepted write is called back, unless others fill the common task's
\* queue, and every call returns.
WritesEnd ==
  /\ \A w \in Handles :
       Contains(order, w) /\ ~usage.crowded ~> taskPc = "call" /\ taskHandle = w
  /\ \A c \in Callers : call[c].pc # "idle" ~> call[c].pc = "idle"
=============================================================================

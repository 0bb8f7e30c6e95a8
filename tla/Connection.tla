----------------------------- MODULE Connection ------------------------------
(***************************************************************************)
(* IPC::Connection of WebKit2: processes that send each other messages,     *)
(* some of which are synchronous, and dispatch them on their main threads.  *)
(*                                                                         *)
(* A process has a main thread, whose call stack is a sequence of frames,   *)
(* and a work queue for each end of a connection it owns.  While the main   *)
(* thread waits for a synchronous reply it dispatches the messages marked   *)
(* for that; their handlers may send again, so the waits nest.  All ends of *)
(* a process share one SyncMessageState and its semaphore.                  *)
(*                                                                         *)
(* A section under one of the connection's locks is a step.  A handler may  *)
(* send, invalidate a connection, or return.                                *)
(***************************************************************************)
EXTENDS Integers, SequencesExt

CONSTANTS
    Processes, Ends,
    ProcessOf,              \* the process that owns an end
    Peer,                   \* the other end of its connection
    OnlyWhenProcessing,     \* ends with m_onlySendMessagesAsDispatchWhenWaiting...
    ExitsOnFailure,         \* ends with m_shouldExitOnSyncMessageSendFailure
    MayCrash, MayInvalidate, MayTimeOut,   \* processes that do
    WithSecondary,          \* processes with a secondary thread that sends
    MayWait,                \* processes that call waitForMessage()
    AsyncKinds,             \* "async", and "awaited" for what waitForMessage() is called for
    MaxSends,               \* bound on the calls that clients make, replies aside
    Null

ASSUME ConnectionAssumption ==
    /\ ProcessOf \in [Ends -> Processes] /\ Peer \in [Ends -> Ends]
    /\ \A e \in Ends : Peer[e] # e /\ Peer[Peer[e]] = e
    /\ MaxSends \in Nat
    /\ AsyncKinds \subseteq {"async", "awaited"}
    /\ Null \notin Ends

VARIABLES
    alive, sends,
    stack,          \* the main thread's frames, the innermost last
    runLoop,        \* functions dispatched to the main run loop
    toDispatch,     \* m_messagesToDispatchWhileWaitingForSyncReply
    scheduled,      \* m_didScheduleDispatchMessagesWorkSet
    semaphore,      \* m_waitForSyncReplySemaphore
    valid,          \* m_client is set
    connected,      \* m_isConnected
    invalidating,   \* platformInvalidate() is queued
    shouldWait,     \* m_shouldWaitForSyncReplies
    pending,        \* m_pendingSyncReplies
    incoming,       \* m_incomingMessages
    wire,           \* what has been sent to this end and it has not read yet
    nextId,         \* m_syncRequestID; other messages are numbered too
    secondary,      \* the secondary thread's entry in m_secondaryThreadPendingSyncReplyMap
    waiting,        \* m_waitingForMessage
    lastPlain       \* history: the last plain message dispatched here

processVars == <<alive, sends, stack, runLoop, toDispatch, scheduled, semaphore>>
syncVars    == <<shouldWait, pending, secondary>>
queueVars   == <<incoming, wire, nextId>>
linkVars    == <<valid, connected, invalidating>>
vars == <<processVars, syncVars, queueVars, linkVars, waiting, lastPlain>>

EndsOf(p) == {e \in Ends : ProcessOf[e] = p}
NoSend    == [at |-> "none", id |-> 0, signalled |-> FALSE]
NoWait    == [on |-> FALSE, interrupted |-> FALSE, found |-> FALSE, notified |-> FALSE]

Init ==
    /\ alive = [p \in Processes |-> TRUE] /\ sends = 0
    /\ stack = [p \in Processes |-> <<>>] /\ runLoop = [p \in Processes |-> <<>>]
    /\ toDispatch = [p \in Processes |-> <<>>] /\ scheduled = [p \in Processes |-> {}]
    /\ semaphore = [p \in Processes |-> FALSE]
    /\ valid = [e \in Ends |-> TRUE] /\ connected = [e \in Ends |-> TRUE]
    /\ invalidating = [e \in Ends |-> FALSE] /\ shouldWait = [e \in Ends |-> TRUE]
    /\ pending = [e \in Ends |-> <<>>] /\ incoming = [e \in Ends |-> <<>>]
    /\ wire = [e \in Ends |-> <<>>]
    /\ nextId = [e \in Ends |-> 1] /\ secondary = [e \in Ends |-> NoSend]
    /\ waiting = [e \in Ends |-> NoWait] /\ lastPlain = [e \in Ends |-> 0]

-----------------------------------------------------------------------------
(* Messages and frames.                                                     *)

\* marked is shouldDispatchMessageWhenWaitingForSyncReply; plain is a history field.
Message(kind, id, marked, plain) == [kind |-> kind, id |-> id, marked |-> marked, plain |-> plain]

HandlerFrame(e, m)   == [at |-> "handler", end |-> e, msg |-> m]
SyncFrame(at, e, id) == [at |-> at, end |-> e, id |-> id]
SwapFrame(allowed)   == [at |-> "swap", end |-> allowed]
BatchFrame(allowed, batch, back) == [at |-> "batch", end |-> allowed, batch |-> batch, back |-> back]
WaitFrame(at, e)     == [at |-> at, end |-> e]

IsTop(p, at)   == alive[p] /\ stack[p] # <<>> /\ Last(stack[p]).at = at
SetTop(p, f)   == stack' = [stack EXCEPT ![p] = Append(Front(@), f)]
Push(p, fs)    == stack' = [stack EXCEPT ![p] = @ \o fs]
Pop(p)         == stack' = [stack EXCEPT ![p] = Front(@)]

\* Code of a client runs on the main thread: in a handler, or from another event.
ClientRuns(p) == alive[p] /\ (stack[p] = <<>> \/ IsTop(p, "handler"))

\* m_inDispatchMessageMarkedDispatchWhenWaitingForSyncReplyCount > 0
ProcessingMarked(e) ==
    \E i \in DOMAIN stack[ProcessOf[e]] :
        LET f == stack[ProcessOf[e]][i] IN f.at = "handler" /\ f.end = e /\ f.msg.marked

\* Mutant of Marks: the connection's option is ignored.
MarksAlways(e, wanted) == wanted

\* Mutant of Marks: the option has no exception for what is sent during such a dispatch.
MarksNever(e, wanted) == wanted /\ e \notin OnlyWhenProcessing

\* sendMessage() marks the message.
Marks(e, wanted) ==
    wanted /\ (e \notin OnlyWhenProcessing \/ ProcessingMarked(e))

\* sendOutgoingMessages(): what is sent to a closed socket is lost.
CanSendOutgoing(e) == connected[e] /\ connected[Peer[e]]

\* sendMessage(): nothing is sent once the connection is invalid.  The message goes
\* through m_outgoingMessages, which the work queue empties in order; it is put on the
\* wire at once here, since what is on the wire may be read late or never.
SendMessage(e, m) ==
    wire' = [wire EXCEPT ![Peer[e]] = IF valid[e] /\ CanSendOutgoing(e) THEN Append(@, m) ELSE @]

\* f, with what belongs to process p reset
Reset(f, p, value) == [e \in Ends |-> IF ProcessOf[e] = p THEN value ELSE f[e]]

\* The process ends: its memory is gone and its sockets are closed.
Exit(p) ==
    /\ alive' = [alive EXCEPT ![p] = FALSE]
    /\ stack' = [stack EXCEPT ![p] = <<>>]
    /\ runLoop' = [runLoop EXCEPT ![p] = <<>>]
    /\ toDispatch' = [toDispatch EXCEPT ![p] = <<>>]
    /\ scheduled' = [scheduled EXCEPT ![p] = {}]
    /\ semaphore' = [semaphore EXCEPT ![p] = FALSE]
    /\ connected' = Reset(connected, p, FALSE) /\ pending' = Reset(pending, p, <<>>)
    /\ incoming' = Reset(incoming, p, <<>>) /\ wire' = Reset(wire, p, <<>>)
    /\ secondary' = Reset(secondary, p, NoSend) /\ waiting' = Reset(waiting, p, NoWait)

-----------------------------------------------------------------------------
(* Calls a client makes on the main thread.                                 *)

MaySend(p) == ClientRuns(p) /\ sends < MaxSends
CountSend(e) ==
    /\ sends' = sends + 1
    /\ nextId' = [nextId EXCEPT ![e] = @ + 1]

\* send(), with or without DispatchMessageEvenWhenWaitingForSyncReply
SendAsync(e, kind, wanted) ==
    /\ MaySend(ProcessOf[e]) /\ valid[e]
    /\ CountSend(e)
    /\ SendMessage(e, Message(kind, nextId[e], Marks(e, wanted), ~ProcessingMarked(e)))
    /\ UNCHANGED <<alive, stack, runLoop, toDispatch, scheduled, semaphore, syncVars,
                   incoming, linkVars, waiting, lastPlain>>

\* sendSyncMessage() up to its first call of dispatchMessages()
SendSync(e) ==
    /\ MaySend(ProcessOf[e]) /\ valid[e] /\ shouldWait[e]
    /\ CountSend(e)
    /\ pending' = [pending EXCEPT ![e] = Append(@, [id |-> nextId[e], reply |-> FALSE])]
    /\ SendMessage(e, Message("sync", nextId[e], Marks(e, TRUE), ~ProcessingMarked(e)))
    /\ Push(ProcessOf[e], <<SyncFrame("check", e, nextId[e]), SwapFrame(Null)>>)
    /\ UNCHANGED <<alive, runLoop, toDispatch, scheduled, semaphore, shouldWait, secondary,
                   incoming, linkVars, waiting, lastPlain>>

\* didFailToSendSyncMessage() of a send that cannot be tried
FailToSendSync(e) ==
    /\ MaySend(ProcessOf[e]) /\ ~(valid[e] /\ shouldWait[e])
    /\ e \in ExitsOnFailure
    /\ Exit(ProcessOf[e])
    /\ UNCHANGED <<sends, shouldWait, nextId, valid, invalidating, lastPlain>>

\* invalidate()
Invalidate(e) ==
    /\ ProcessOf[e] \in MayInvalidate /\ ClientRuns(ProcessOf[e]) /\ valid[e]
    /\ valid' = [valid EXCEPT ![e] = FALSE]
    /\ invalidating' = [invalidating EXCEPT ![e] = TRUE]
    /\ UNCHANGED <<processVars, syncVars, queueVars, connected, waiting, lastPlain>>

-----------------------------------------------------------------------------
(* The main thread.                                                         *)

\* The end of dispatchMessage(): a sync message is answered, unless the connection
\* has been invalidated.
ReturnFromHandler(p) ==
    LET f == Last(stack[p]) IN
    /\ IsTop(p, "handler")
    /\ Pop(p)
    /\ IF f.msg.kind = "sync"
          THEN SendMessage(f.end, Message("reply", f.msg.id, FALSE, FALSE))
          ELSE UNCHANGED wire
    /\ UNCHANGED <<alive, sends, runLoop, toDispatch, scheduled, semaphore, syncVars,
                   incoming, nextId, linkVars, waiting, lastPlain>>

\* dispatchMessage(): its handler starts.
Dispatch(e, m) ==
    lastPlain' = IF m.plain THEN [lastPlain EXCEPT ![e] = m.id] ELSE lastPlain

\* SyncMessageState::dispatchMessages(): the swap
Swap(p) ==
    /\ IsTop(p, "swap")
    /\ SetTop(p, BatchFrame(Last(stack[p]).end, toDispatch[p], <<>>))
    /\ toDispatch' = [toDispatch EXCEPT ![p] = <<>>]
    /\ UNCHANGED <<alive, sends, runLoop, scheduled, semaphore, syncVars, queueVars, linkVars,
                   waiting, lastPlain>>

\* Messages of another connection are kept back.
Allowed(f, entry) == f.end = Null \/ f.end = entry.end

\* The loop of dispatchMessages(), one message
DispatchFromBatch(p) ==
    LET f     == Last(stack[p])
        entry == Head(f.batch)
        rest  == Tail(f.batch)
    IN /\ IsTop(p, "batch") /\ f.batch # <<>>
       /\ \/ /\ ~Allowed(f, entry)
             /\ SetTop(p, BatchFrame(f.end, rest, Append(f.back, entry)))
             /\ UNCHANGED lastPlain
          \/ /\ Allowed(f, entry) /\ ~valid[entry.end]
             /\ SetTop(p, BatchFrame(f.end, rest, f.back))
             /\ UNCHANGED lastPlain
          \/ /\ Allowed(f, entry) /\ valid[entry.end]
             /\ stack' = [stack EXCEPT ![p] = Front(@) \o
                  <<BatchFrame(f.end, rest, f.back), HandlerFrame(entry.end, entry.msg)>>]
             /\ Dispatch(entry.end, entry.msg)
       /\ UNCHANGED <<alive, sends, runLoop, toDispatch, scheduled, semaphore, syncVars, queueVars,
                      linkVars, waiting>>

\* The end of dispatchMessages(): what was kept back returns to the queue.
FinishBatch(p) ==
    /\ IsTop(p, "batch") /\ Last(stack[p]).batch = <<>>
    /\ Pop(p)
    /\ toDispatch' = [toDispatch EXCEPT ![p] = @ \o Last(stack[p]).back]
    /\ UNCHANGED <<alive, sends, runLoop, scheduled, semaphore, syncVars, queueVars,
                   linkVars, waiting, lastPlain>>

\* Mutant of PopPending: the oldest request is taken.
PopOldest(e) == pending' = [pending EXCEPT ![e] = Tail(@)]

\* The pending reply is popped.
PopPending(e) == pending' = [pending EXCEPT ![e] = Front(@)]

\* sendSyncMessage() ends; without a reply some processes exit.
EndSync(p, e, gotReply) ==
    IF gotReply \/ e \notin ExitsOnFailure
       THEN /\ PopPending(e)
            /\ Pop(p)
            /\ UNCHANGED <<alive, runLoop, toDispatch, scheduled, semaphore, connected, incoming,
                           wire, secondary, waiting>>
       ELSE Exit(p)

\* The reply is there, or the connection is closed, or a handler has invalidated it.
StopsWaiting(e) == Last(pending[e]).reply \/ ~shouldWait[e] \/ ~valid[e]

\* waitForSyncReply(), after dispatchMessages(): return or wait.
CheckSyncReply(p) ==
    LET e == Last(stack[p]).end IN
    /\ IsTop(p, "check")
    /\ IF StopsWaiting(e)
          THEN EndSync(p, e, Last(pending[e]).reply)
          ELSE /\ SetTop(p, SyncFrame("wait", e, Last(stack[p]).id))
               /\ UNCHANGED <<alive, runLoop, toDispatch, scheduled, semaphore, connected, pending,
                              incoming, wire, secondary, waiting>>
    /\ UNCHANGED <<sends, shouldWait, nextId, valid, invalidating, lastPlain>>

\* SyncMessageState::wait() returns true, and the loop goes round.
WakeUp(p) ==
    /\ IsTop(p, "wait") /\ semaphore[p]
    /\ semaphore' = [semaphore EXCEPT ![p] = FALSE]
    /\ LET f == Last(stack[p]) IN
          stack' = [stack EXCEPT ![p] = Front(@) \o <<SyncFrame("check", f.end, f.id), SwapFrame(Null)>>]
    /\ UNCHANGED <<alive, sends, runLoop, toDispatch, scheduled, syncVars, queueVars, linkVars,
                   waiting, lastPlain>>

\* It returns false.
TimeOut(p) ==
    /\ IsTop(p, "wait") /\ ~semaphore[p] /\ p \in MayTimeOut
    /\ EndSync(p, Last(stack[p]).end, FALSE)
    /\ UNCHANGED <<sends, shouldWait, nextId, valid, invalidating, lastPlain>>

-----------------------------------------------------------------------------
(* The run loop.                                                            *)

NextTask(p, what, e) ==
    /\ alive[p] /\ stack[p] = <<>> /\ runLoop[p] # <<>>
    /\ Head(runLoop[p]) = [what |-> what, end |-> e]
    /\ runLoop' = [runLoop EXCEPT ![p] = Tail(@)]

\* dispatchOneMessage()
DispatchOneMessage(p, e) ==
    /\ NextTask(p, "one", e)
    /\ IF incoming[e] = <<>>
          THEN UNCHANGED <<incoming, stack, lastPlain>>
          ELSE /\ incoming' = [incoming EXCEPT ![e] = Tail(@)]
               /\ IF valid[e]
                     THEN Push(p, <<HandlerFrame(e, Head(incoming[e]))>>) /\ Dispatch(e, Head(incoming[e]))
                     ELSE UNCHANGED <<stack, lastPlain>>
    /\ UNCHANGED <<alive, sends, toDispatch, scheduled, semaphore, syncVars, wire, nextId,
                   linkVars, waiting>>

\* dispatchMessageAndResetDidScheduleDispatchMessagesForConnection()
DispatchMarked(p, e) ==
    /\ NextTask(p, "marked", e)
    /\ scheduled' = [scheduled EXCEPT ![p] = @ \ {e}]
    /\ Push(p, <<SwapFrame(e)>>)
    /\ UNCHANGED <<alive, sends, toDispatch, semaphore, syncVars, queueVars, linkVars, waiting, lastPlain>>

\* The function posted by connectionDidClose(): the client learns of it.
DidClose(p, e) ==
    /\ NextTask(p, "close", e)
    /\ valid' = [valid EXCEPT ![e] = FALSE]
    /\ UNCHANGED <<alive, sends, stack, toDispatch, scheduled, semaphore, syncVars, queueVars,
                   connected, invalidating, waiting, lastPlain>>

-----------------------------------------------------------------------------
(* The work queue of an end.                                                *)

QueueRuns(e) == alive[ProcessOf[e]] /\ connected[e]

Receive(e) == QueueRuns(e) /\ wire[e] # <<>> /\ wire' = [wire EXCEPT ![e] = Tail(@)]

\* processIncomingSyncReply(): a reply is for a request on the stack, for the secondary
\* thread, or too late.  One to the last request wakes the main thread.
ProcessIncomingSyncReply(e) ==
    LET m     == Head(wire[e])
        match == {i \in DOMAIN pending[e] : pending[e][i].id = m.id}
    IN /\ Receive(e) /\ m.kind = "reply"
       /\ pending' = [pending EXCEPT ![e] =
             [i \in DOMAIN @ |-> IF i \in match THEN [@[i] EXCEPT !.reply = TRUE] ELSE @[i]]]
       /\ semaphore' = [semaphore EXCEPT ![ProcessOf[e]] = @ \/ Len(pending[e]) \in match]
       /\ secondary' = [secondary EXCEPT ![e] =
             IF match = {} /\ @.at # "none" /\ @.id = m.id THEN [@ EXCEPT !.signalled = TRUE] ELSE @]
       /\ UNCHANGED <<alive, sends, stack, runLoop, toDispatch, scheduled, shouldWait,
                      incoming, nextId, linkVars, waiting, lastPlain>>

\* Mutant of NeedsDispatch: a call is scheduled for the first message in the queue only.
NeedsDispatchIfFirst(p, e) == toDispatch[p] = <<>>

\* No call of dispatchMessages(&connection) is scheduled.
NeedsDispatch(p, e) == e \notin scheduled[p]

\* SyncMessageState::processIncomingMessage()
ProcessMarkedMessage(e) ==
    LET p == ProcessOf[e] IN
    /\ Receive(e) /\ Head(wire[e]).marked
    /\ scheduled' = [scheduled EXCEPT ![p] = @ \cup {e}]
    /\ runLoop' = [runLoop EXCEPT ![p] =
          IF NeedsDispatch(p, e) THEN Append(@, [what |-> "marked", end |-> e]) ELSE @]
    /\ toDispatch' = [toDispatch EXCEPT ![p] = Append(@, [end |-> e, msg |-> Head(wire[e])])]
    /\ semaphore' = [semaphore EXCEPT ![p] = TRUE]
    /\ UNCHANGED <<alive, sends, stack, syncVars, incoming, nextId, linkVars, waiting, lastPlain>>

\* notifyOne() and notifyAll() reach the main thread only if it sleeps already.
Notified(e, w) == [w EXCEPT !.notified = @ \/ IsTop(ProcessOf[e], "sleep")]

\* The rest of processIncomingMessage(): for the thread that waits, or the queue
ProcessOtherMessage(e) ==
    LET p == ProcessOf[e]
        m == Head(wire[e])
        w == waiting[e]
    IN /\ Receive(e) /\ ~m.marked /\ m.kind # "reply"
       /\ IF w.on /\ ~w.found /\ m.kind = "awaited"
             THEN /\ waiting' = [waiting EXCEPT ![e] = Notified(e, [w EXCEPT !.found = TRUE])]
                  /\ UNCHANGED <<incoming, runLoop>>
             ELSE /\ waiting' = [waiting EXCEPT ![e] =
                       IF w.on /\ ~w.found /\ m.kind = "sync"
                          THEN Notified(e, [w EXCEPT !.interrupted = TRUE]) ELSE w]
                  /\ incoming' = [incoming EXCEPT ![e] = Append(@, m)]
                  /\ runLoop' = [runLoop EXCEPT ![p] = Append(@, [what |-> "one", end |-> e])]
       /\ UNCHANGED <<alive, sends, stack, toDispatch, scheduled, semaphore, syncVars,
                      nextId, linkVars, lastPlain>>

\* platformInvalidate(): the socket is closed, and what it holds is never read.
Close(e) ==
    /\ connected' = [connected EXCEPT ![e] = FALSE]
    /\ wire' = [wire EXCEPT ![e] = <<>>]

\* The function posted by invalidate()
PlatformInvalidate(e) ==
    /\ QueueRuns(e) /\ invalidating[e]
    /\ Close(e)
    /\ UNCHANGED <<processVars, syncVars, incoming, nextId, valid, invalidating, waiting, lastPlain>>

\* Mutant of WakeMain: the main thread is left to wait.
WakeMainNot(e) == semaphore' = semaphore

\* connectionDidClose() wakes the threads that wait for a reply.
WakeMain(e) ==
    semaphore' = [semaphore EXCEPT ![ProcessOf[e]] = @ \/ pending[e] # <<>>]

\* Mutant of WakeSecondary: a secondary thread is left to wait.
WakeSecondaryNot(e) == secondary' = secondary

WakeSecondary(e) ==
    secondary' = [secondary EXCEPT ![e] = IF @.at # "none" THEN [@ EXCEPT !.signalled = TRUE] ELSE @]

\* Mutant of PostDidClose: told only if there is a request to fail.
PostDidCloseIfPending(e) ==
    runLoop' = [runLoop EXCEPT ![ProcessOf[e]] =
        IF pending[e] # <<>> THEN Append(@, [what |-> "close", end |-> e]) ELSE @]

\* It tells the client on the main thread.
PostDidClose(e) ==
    runLoop' = [runLoop EXCEPT ![ProcessOf[e]] = Append(@, [what |-> "close", end |-> e])]

\* connectionDidClose(): the other end is closed.  Data not read yet may be lost.
ConnectionDidClose(e) ==
    /\ QueueRuns(e) /\ ~connected[Peer[e]]
    /\ Close(e)
    /\ shouldWait' = [shouldWait EXCEPT ![e] = FALSE]
    /\ WakeMain(e) /\ WakeSecondary(e) /\ PostDidClose(e)
    /\ waiting' = [waiting EXCEPT ![e] = IF @.on THEN Notified(e, [@ EXCEPT !.interrupted = TRUE]) ELSE @]
    /\ UNCHANGED <<alive, sends, stack, toDispatch, scheduled, pending, incoming, nextId, valid,
                   invalidating, lastPlain>>

-----------------------------------------------------------------------------
(* sendSyncMessageFromSecondaryThread().  m_client is read without a lock.  *)

SecondaryRegister(e) ==
    LET p == ProcessOf[e] IN
    /\ p \in WithSecondary /\ alive[p] /\ sends < MaxSends
    /\ secondary[e].at = "none" /\ valid[e] /\ shouldWait[e]
    /\ CountSend(e)
    /\ secondary' = [secondary EXCEPT ![e] = [at |-> "registered", id |-> nextId[e], signalled |-> FALSE]]
    /\ UNCHANGED <<alive, stack, runLoop, toDispatch, scheduled, semaphore, shouldWait, pending,
                   incoming, wire, linkVars, waiting, lastPlain>>

SecondarySend(e) ==
    /\ alive[ProcessOf[e]] /\ secondary[e].at = "registered"
    /\ SendMessage(e, Message("sync", secondary[e].id, FALSE, FALSE))
    /\ secondary' = [secondary EXCEPT ![e].at = "waiting"]
    /\ UNCHANGED <<processVars, shouldWait, pending, incoming, nextId, linkVars, waiting, lastPlain>>

SecondaryReturn(e) ==
    /\ alive[ProcessOf[e]] /\ secondary[e].at = "waiting"
    /\ secondary[e].signalled \/ ProcessOf[e] \in MayTimeOut
    /\ secondary' = [secondary EXCEPT ![e] = NoSend]
    /\ UNCHANGED <<processVars, shouldWait, pending, queueVars, linkVars, waiting, lastPlain>>

-----------------------------------------------------------------------------
(* waitForAndDispatchImmediately() with InterruptWaitingIfSyncMessageArrives. *)

IsAwaited(m) == m.kind = "awaited"
HasSync(e)   == \E i \in DOMAIN incoming[e] : incoming[e][i].kind = "sync"

\* The message is in the queue already, or the thread has to wait for it.  With a sync
\* message in the queue it does not even start.
StartWait(e) ==
    LET p == ProcessOf[e]
        i == SelectInSeq(incoming[e], IsAwaited)
    IN /\ p \in MayWait /\ MaySend(p) /\ valid[e]
       /\ sends' = sends + 1
       /\ \/ /\ i # 0
             /\ incoming' = [incoming EXCEPT ![e] = RemoveAt(@, i)]
             /\ Push(p, <<HandlerFrame(e, incoming[e][i])>>)
          \/ /\ i = 0 /\ ~HasSync(e)
             /\ Push(p, <<WaitFrame("register", e)>>)
             /\ UNCHANGED incoming
       /\ UNCHANGED <<alive, runLoop, toDispatch, scheduled, semaphore, syncVars, wire,
                      nextId, linkVars, waiting, lastPlain>>

RegisterWait(p) ==
    /\ IsTop(p, "register")
    /\ waiting' = [waiting EXCEPT ![Last(stack[p]).end] = [NoWait EXCEPT !.on = TRUE]]
    /\ SetTop(p, WaitFrame("test", Last(stack[p]).end))
    /\ UNCHANGED <<alive, sends, runLoop, toDispatch, scheduled, semaphore, syncVars, queueVars, linkVars, lastPlain>>

\* Only the message is tested for before the thread sleeps.
TestWait(p) ==
    LET e == Last(stack[p]).end IN
    /\ IsTop(p, "test")
    /\ IF waiting[e].found
          THEN /\ waiting' = [waiting EXCEPT ![e] = NoWait]
               /\ SetTop(p, HandlerFrame(e, Message("awaited", 0, FALSE, FALSE)))
          ELSE SetTop(p, WaitFrame("sleep", e)) /\ UNCHANGED waiting
    /\ UNCHANGED <<alive, sends, runLoop, toDispatch, scheduled, semaphore, syncVars, queueVars, linkVars, lastPlain>>

\* waitUntil() returns, notified: a wait that was interrupted ends without a message.
WakeFromWait(p) ==
    LET e == Last(stack[p]).end IN
    /\ IsTop(p, "sleep") /\ waiting[e].notified
    /\ IF waiting[e].interrupted
          THEN waiting' = [waiting EXCEPT ![e] = NoWait] /\ Pop(p)
          ELSE /\ waiting' = [waiting EXCEPT ![e].notified = FALSE]
               /\ SetTop(p, WaitFrame("test", e))
    /\ UNCHANGED <<alive, sends, runLoop, toDispatch, scheduled, semaphore, syncVars, queueVars, linkVars, lastPlain>>

\* It returns at the timeout.
WaitTimesOut(p) ==
    LET e == Last(stack[p]).end IN
    /\ IsTop(p, "sleep") /\ ~waiting[e].notified /\ p \in MayTimeOut
    /\ waiting' = [waiting EXCEPT ![e] = NoWait]
    /\ Pop(p)
    /\ UNCHANGED <<alive, sends, runLoop, toDispatch, scheduled, semaphore, syncVars, queueVars, linkVars, lastPlain>>

-----------------------------------------------------------------------------

Crash(p) ==
    /\ p \in MayCrash /\ alive[p]
    /\ Exit(p)
    /\ UNCHANGED <<sends, shouldWait, nextId, valid, invalidating, lastPlain>>

\* What a main thread does by itself.  Handlers return.
MainStep(p) ==
    \/ ReturnFromHandler(p) \/ Swap(p) \/ DispatchFromBatch(p) \/ FinishBatch(p)
    \/ CheckSyncReply(p) \/ WakeUp(p) \/ RegisterWait(p) \/ TestWait(p) \/ WakeFromWait(p)
    \/ \E e \in EndsOf(p) : DispatchOneMessage(p, e) \/ DispatchMarked(p, e) \/ DidClose(p, e)

\* A timeout of the main thread's call is over.
Deadline(p) == TimeOut(p) \/ WaitTimesOut(p)

QueueStep(e) ==
    \/ ProcessIncomingSyncReply(e) \/ ProcessMarkedMessage(e)
    \/ ProcessOtherMessage(e) \/ PlatformInvalidate(e) \/ ConnectionDidClose(e)

SecondaryStep(e) == SecondarySend(e) \/ SecondaryReturn(e)

ClientCall(e) ==
    \/ \E kind \in AsyncKinds, wanted \in BOOLEAN : SendAsync(e, kind, wanted)
    \/ SendSync(e) \/ FailToSendSync(e) \/ Invalidate(e) \/ SecondaryRegister(e) \/ StartWait(e)

Next ==
    \/ \E p \in Processes : MainStep(p) \/ Deadline(p) \/ Crash(p)
    \/ \E e \in Ends : QueueStep(e) \/ SecondaryStep(e) \/ ClientCall(e)

Spec == Init /\ [][Next]_vars

\* Main threads, work queues and secondary threads are scheduled.  No timeout is ever
\* certain to fire: the callers may have passed std::chrono::milliseconds::max().
FairSpec ==
    /\ Spec
    /\ \A p \in Processes : WF_vars(MainStep(p))
    /\ \A e \in Ends :
          /\ WF_vars(QueueStep(e))
          /\ WF_vars(SecondarySend(e) \/ (secondary[e].signalled /\ SecondaryReturn(e)))

\* The timeouts passed to waitForMessage() are finite.
WaitsHaveDeadlines == \A p \in MayWait : WF_vars(WaitTimesOut(p))

-----------------------------------------------------------------------------
(* Properties *)

MessageType == [kind : {"async", "awaited", "sync", "reply"}, id : Nat, marked : BOOLEAN, plain : BOOLEAN]

TypeOK ==
    /\ sends \in 0..MaxSends
    /\ alive \in [Processes -> BOOLEAN] /\ semaphore \in [Processes -> BOOLEAN]
    /\ \A p \in Processes :
          /\ scheduled[p] \subseteq EndsOf(p)
          /\ \A i \in DOMAIN runLoop[p] : runLoop[p][i] \in [what : {"one", "marked", "close"}, end : EndsOf(p)]
          /\ \A i \in DOMAIN toDispatch[p] : toDispatch[p][i] \in [end : EndsOf(p), msg : MessageType]
    /\ valid \in [Ends -> BOOLEAN] /\ connected \in [Ends -> BOOLEAN]
    /\ \A e \in Ends : \A q \in {incoming[e], wire[e]} :
          \A i \in DOMAIN q : q[i] \in MessageType

\* The places in p's stack of the frames that wait for a reply on e, and how many of them
\* are not above place i.
WaitsOn(p, e) == {i \in DOMAIN stack[p] : stack[p][i].at \in {"check", "wait"} /\ stack[p][i].end = e}
Depth(p, e, i) == Cardinality({j \in WaitsOn(p, e) : j <= i})

\* The assertions of sendSyncMessage() and waitForSyncReply(): however the waits of
\* several connections nest, the pending replies of each mirror the call stack, so
\* that each wait finds its own request on top.
PendingIsStack ==
    \A e \in Ends : LET p == ProcessOf[e] IN
        alive[p] => /\ Len(pending[e]) = Cardinality(WaitsOn(p, e))
                    /\ \A i \in WaitsOn(p, e) : pending[e][Depth(p, e, i)].id = stack[p][i].id

\* A message set aside for a waiting thread is not forgotten when there is no such
\* thread: a call that will dispatch it is queued, also if it had to be put back.
NothingStranded ==
    \A p \in Processes : \A i \in DOMAIN toDispatch[p] :
        LET e == toDispatch[p][i].end IN
        alive[p] => \/ [what |-> "marked", end |-> e] \in ToSet(runLoop[p])
                    \/ SwapFrame(e) \in ToSet(stack[p])

\* A synchronous send that waits with no time limit returns, and so do the handlers
\* it was called from: though both sides may be waiting for each other, waits on several
\* connections share a semaphore, the peer may crash, and a handler may invalidate the
\* connection.  The peer may be asleep in waitForMessage(), where a sync message that
\* comes at the wrong moment does not wake it (WaitIsInterrupted); all callers that ask
\* to be interrupted by sync messages pass finite timeouts.
SyncSendReturns ==
    WaitsHaveDeadlines =>
        ((\E p \in Processes : \E i \in DOMAIN stack[p] : stack[p][i].at = "wait")
             ~> (\A p \in Processes : stack[p] = <<>>))

\* So does one on a secondary thread, unless its own process invalidates the connection.
SecondaryStuck(e) == secondary[e].at = "waiting" /\ ~invalidating[e]
SecondarySendReturns ==
    WaitsHaveDeadlines =>
        ((\E e \in Ends : SecondaryStuck(e)) ~> ~(\E e \in Ends : SecondaryStuck(e)))

\* "asynchronous messages [...] are always delivered before the synchronous" ones that
\* follow: messages that a process with the option sends while it is not processing a
\* marked message are dispatched in the order they were sent.
PlainMessagesInOrder ==
    [][\A e \in Ends : Peer[e] \in OnlyWhenProcessing => lastPlain'[e] >= lastPlain[e]]_vars

\* The main thread is asleep in waitForMessage() on e.
SleepsOn(e) == IsTop(ProcessOf[e], "sleep") /\ Last(stack[ProcessOf[e]]).end = e

\* Nothing but a timeout is certain to wake e's main thread: it went to sleep on e when
\* the close of e had been handled, or it waits for a message of another connection.
Oversleeps(e) ==
    \E w \in EndsOf(ProcessOf[e]) :
        SleepsOn(w) /\ ~waiting[w].notified /\ (w = e => ~connected[e])

\* A process learns that its peer is gone, whatever its main thread is doing then, with no
\* help from timeouts: it is not kept from it but by a waitForMessage() that fell asleep too
\* late to be told; and one that sleeps when the close is handled is woken ("lost our
\* connection [...] so stop waiting").
Unaware(e) == valid[e] /\ alive[ProcessOf[e]] /\ ~alive[ProcessOf[Peer[e]]]
PeerLossNoticed ==
    /\ (\E e \in Ends : Unaware(e)) ~> (\A e \in Ends : Unaware(e) => Oversleeps(e))
    /\ \A e \in UNION {EndsOf(p) : p \in MayWait} :
          (Unaware(e) /\ connected[e] /\ SleepsOn(e)) ~> ~SleepsOn(e)

\* "be interrupted immediately by any incoming sync messages": the main thread does not
\* sleep in waitForMessage() while a sync message is in its queue.
WaitIsInterrupted ==
    \A p \in Processes : IsTop(p, "sleep") =>
        LET e == Last(stack[p]).end IN HasSync(e) => waiting[e].notified
=============================================================================

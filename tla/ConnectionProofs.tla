--------------------------- MODULE ConnectionProofs ---------------------------
(***************************************************************************)
(* Proofs about IPC::Connection, for any processes and connections between  *)
(* them, any number of calls, and whatever crashes, invalidations, timeouts *)
(* and secondary threads there are.                                         *)
(***************************************************************************)
EXTENDS Connection, FiniteSetTheorems, SequenceTheorems, TLAPS

-----------------------------------------------------------------------------
(* Types, with the frames of the main thread's stack.                       *)

Entries(p)  == [end : EndsOf(p), msg : MessageType]
Tasks(p)    == [what : {"one", "marked", "close"}, end : EndsOf(p)]
Requests    == [id : Nat, reply : BOOLEAN]

HandlerFrames(p) == [at : {"handler"}, end : EndsOf(p), msg : MessageType]
SyncFrames(p)    == [at : {"check", "wait"}, end : EndsOf(p), id : Nat]
SwapFrames(p)    == [at : {"swap"}, end : EndsOf(p) \cup {Null}]
BatchFrames(p)   == [at : {"batch"}, end : EndsOf(p) \cup {Null},
                     batch : Seq(Entries(p)), back : Seq(Entries(p))]
WaitFrames(p)    == [at : {"register", "test", "sleep"}, end : EndsOf(p)]
Frames(p) == HandlerFrames(p) \cup SyncFrames(p) \cup SwapFrames(p) \cup BatchFrames(p) \cup WaitFrames(p)

StackType == stack = [p \in Processes |-> stack[p]] /\ \A p \in Processes : stack[p] \in Seq(Frames(p))
RunLoopType == runLoop = [p \in Processes |-> runLoop[p]] /\ \A p \in Processes : runLoop[p] \in Seq(Tasks(p))
ToDispatchType ==
    /\ toDispatch = [p \in Processes |-> toDispatch[p]]
    /\ \A p \in Processes : toDispatch[p] \in Seq(Entries(p))
ScheduledType ==
    /\ scheduled = [p \in Processes |-> scheduled[p]]
    /\ \A p \in Processes : scheduled[p] \subseteq EndsOf(p)
FlagTypes ==
    /\ alive \in [Processes -> BOOLEAN] /\ semaphore \in [Processes -> BOOLEAN]
    /\ valid \in [Ends -> BOOLEAN] /\ connected \in [Ends -> BOOLEAN]
CounterTypes == sends \in 0..MaxSends /\ nextId \in [Ends -> Nat]
PendingType == pending \in [Ends -> Seq(Requests)]
MessageTypes == incoming \in [Ends -> Seq(MessageType)] /\ wire \in [Ends -> Seq(MessageType)]
SecondaryType == secondary \in [Ends -> [at : {"none", "registered", "waiting"}, id : Nat, signalled : BOOLEAN]]

TypeInv ==
    /\ StackType /\ RunLoopType /\ ToDispatchType /\ ScheduledType
    /\ FlagTypes /\ CounterTypes /\ PendingType /\ MessageTypes /\ SecondaryType

-----------------------------------------------------------------------------
USE ConnectionAssumption

LEMMA FrontAndLast ==
    ASSUME NEW S, NEW s \in Seq(S), s # <<>>
    PROVE  /\ Len(s) \in Nat /\ Len(s) >= 1
           /\ Front(s) \in Seq(S) /\ Len(Front(s)) = Len(s) - 1
           /\ \A i \in 1..(Len(s) - 1) : Front(s)[i] = s[i]
           /\ Last(s) \in S /\ Last(s) = s[Len(s)]
<1>1. Len(s) \in Nat /\ Len(s) >= 1
  OBVIOUS
<1>2. /\ Len(Front(s)) = Len(s) - 1
      /\ \A i \in 1..(Len(s) - 1) : Front(s)[i] = s[i]
  <2>1. PICK n \in Nat : n = Len(s)
    BY <1>1
  <2>2. Len(SubSeq(s, 1, n - 1)) = n - 1
    BY <1>1, <2>1
  <2>3. \A i \in 1..(n - 1) : SubSeq(s, 1, n - 1)[i] = s[i]
    BY <1>1, <2>1
  <2>4. QED
    BY <2>1, <2>2, <2>3 DEF Front
<1>3. Front(s) \in Seq(S)
  BY <1>1 DEF Front
<1>4. QED
  BY <1>1, <1>2, <1>3 DEF Last

LEMMA LenOfFront ==
    ASSUME NEW S, NEW s \in Seq(S), s # <<>>
    PROVE  \E n \in Nat : n = Len(s) - 1 /\ Len(s) = n + 1
<1>1. Len(s) \in Nat /\ Len(s) >= 1
  BY FrontAndLast
<1>2. \A k \in Nat : k >= 1 => k - 1 \in Nat /\ k = (k - 1) + 1
  OBVIOUS
<1>3. QED
  BY <1>1, <1>2

LEMMA RemoveAtType ==
    ASSUME NEW S, NEW s \in Seq(S), NEW i \in 1..Len(s)
    PROVE  RemoveAt(s, i) \in Seq(S)
<1>1. Len(s) \in Nat /\ i \in Nat /\ i >= 1 /\ i <= Len(s)
  OBVIOUS
<1>2. SubSeq(s, 1, i - 1) \in Seq(S)
  BY <1>1
<1>3. SubSeq(s, i + 1, Len(s)) \in Seq(S)
  BY <1>1
<1>4. QED
  BY <1>2, <1>3 DEF RemoveAt

(* waitForMessage() takes a message that is there.                          *)
LEMMA SelectInSeqIndex ==
    ASSUME NEW S, NEW s \in Seq(S), SelectInSeq(s, IsAwaited) # 0
    PROVE  SelectInSeq(s, IsAwaited) \in 1..Len(s)
<1> DEFINE B == {i \in 1..Len(s) : IsAwaited(s[i])}
<1>1. B \subseteq Nat /\ B # {}
  BY DEF SelectInSeq
<1>2. PICK b \in B : \A c \in B : ~(<<c, b>> \in OpToRel(<, Nat))
  <2> HIDE DEF B
  <2>1. QED
    BY <1>1, WFMin, NatLessThanWellFounded
<1>3. \A c \in B : b <= c
  <2>1. ASSUME NEW c \in Nat, NEW d \in Nat, c < d PROVE <<c, d>> \in OpToRel(<, Nat)
    <3>1. <<c, d>> \in Nat \X Nat /\ <<c, d>>[1] < <<c, d>>[2]
      BY <2>1
    <3>2. QED
      BY <3>1 DEF OpToRel
  <2>2. \A c \in B : ~(c < b)
    BY <1>1, <1>2, <2>1, Zenon
  <2>3. b \in Nat /\ \A c \in B : c \in Nat
    BY <1>1
  <2> HIDE DEF B
  <2>4. QED
    BY <2>2, <2>3
<1>4. Min(B) \in B
  <2> HIDE DEF B
  <2>1. QED
    BY <1>2, <1>3 DEF Min
<1>5. QED
  BY <1>1, <1>4 DEF SelectInSeq

LEMMA ShortSequences ==
    ASSUME NEW S
    PROVE  /\ \E s \in Seq(S) : s = <<>>
           /\ \A x \in S : \E s \in Seq(S) : s = <<x>>
           /\ \A x, y \in S : \E s \in Seq(S) : s = <<x, y>>
<1>1. <<>> \in Seq(S) /\ (\A x \in S : <<x>> \in Seq(S)) /\ \A x, y \in S : <<x, y>> \in Seq(S)
  OBVIOUS
<1>2. QED
  BY <1>1, Zenon

LEMMA TopFrame ==
    ASSUME StackType, NEW p \in Processes, stack[p] # <<>>
    PROVE  Front(stack[p]) \in Seq(Frames(p)) /\ Last(stack[p]) \in Frames(p)
BY FrontAndLast DEF StackType

LEMMA StackEdit ==
    ASSUME StackType, NEW p \in Processes, NEW s \in Seq(Frames(p)), stack' = [stack EXCEPT ![p] = s]
    PROVE  StackType' /\ stack'[p] = s /\ \A q \in Processes \ {p} : stack'[q] = stack[q]
BY DEF StackType

LEMMA SetTopType ==
    ASSUME StackType, NEW p \in Processes, stack[p] # <<>>, NEW f \in Frames(p), SetTop(p, f)
    PROVE  StackType'
<1>1. Append(Front(stack[p]), f) \in Seq(Frames(p))
  BY TopFrame
<1>2. stack' = [stack EXCEPT ![p] = Append(Front(stack[p]), f)]
  BY DEF SetTop, StackType
<1>3. QED
  BY <1>1, <1>2, StackEdit

LEMMA PopType ==
    ASSUME StackType, NEW p \in Processes, stack[p] # <<>>, Pop(p)
    PROVE  StackType'
<1>1. stack' = [stack EXCEPT ![p] = Front(stack[p])]
  BY DEF Pop, StackType
<1>2. QED
  BY <1>1, TopFrame, StackEdit

LEMMA PushType ==
    ASSUME StackType, NEW p \in Processes, NEW fs \in Seq(Frames(p)), Push(p, fs)
    PROVE  StackType'
<1>1. stack' = [stack EXCEPT ![p] = stack[p] \o fs] /\ stack[p] \o fs \in Seq(Frames(p))
  BY DEF Push, StackType
<1>2. QED
  BY <1>1, StackEdit

LEMMA TaskPosted ==
    ASSUME RunLoopType, NEW p \in Processes, NEW task \in Tasks(p),
           runLoop' = [runLoop EXCEPT ![p] = Append(@, task)]
    PROVE  RunLoopType'
<1>1. Append(runLoop[p], task) \in Seq(Tasks(p))
  BY DEF RunLoopType
<1>2. runLoop' = [runLoop EXCEPT ![p] = Append(runLoop[p], task)]
  BY DEF RunLoopType
<1> HIDE DEF Tasks
<1>3. QED
  BY <1>1, <1>2 DEF RunLoopType

(* A request that is answered, and a secondary thread that is woken.        *)
LEMMA AnsweredTypes ==
    /\ \A x \in Requests : [x EXCEPT !.reply = TRUE] \in Requests
    /\ \A x \in [at : {"none", "registered", "waiting"}, id : Nat, signalled : BOOLEAN] :
          [x EXCEPT !.signalled = TRUE] \in [at : {"none", "registered", "waiting"}, id : Nat, signalled : BOOLEAN]
BY DEF Requests

LEMMA SendMessageType ==
    ASSUME MessageTypes, NEW e \in Ends, NEW m \in MessageType, SendMessage(e, m)
    PROVE  wire' \in [Ends -> Seq(MessageType)]
BY DEF MessageTypes, SendMessage

LEMMA ExitType ==
    ASSUME TypeInv, NEW p \in Processes, Exit(p), UNCHANGED <<sends, shouldWait, nextId, valid, invalidating, lastPlain>>
    PROVE  TypeInv'
<1>1. <<>> \in Seq(Frames(p)) /\ <<>> \in Seq(Tasks(p)) /\ <<>> \in Seq(Entries(p))
      /\ <<>> \in Seq(Requests) /\ <<>> \in Seq(MessageType)
  OBVIOUS
<1>2. StackType'
  BY <1>1, StackEdit DEF TypeInv, Exit
<1>3. RunLoopType' /\ ToDispatchType' /\ ScheduledType'
  BY <1>1 DEF TypeInv, Exit, RunLoopType, ToDispatchType, ScheduledType
<1>4. FlagTypes' /\ CounterTypes'
  BY DEF TypeInv, Exit, FlagTypes, CounterTypes, Reset
<1>5. PendingType' /\ MessageTypes'
  BY <1>1 DEF TypeInv, Exit, PendingType, MessageTypes, Reset
<1>6. SecondaryType'
  BY DEF TypeInv, Exit, SecondaryType, Reset, NoSend
<1>7. QED
  BY <1>2, <1>3, <1>4, <1>5, <1>6 DEF TypeInv

LEMMA InitType == Init => TypeInv
<1> SUFFICES ASSUME Init PROVE TypeInv
  OBVIOUS
<1>1. /\ <<>> \in Seq(Requests) /\ <<>> \in Seq(MessageType)
      /\ \A p \in Processes : <<>> \in Seq(Frames(p)) /\ <<>> \in Seq(Tasks(p)) /\ <<>> \in Seq(Entries(p))
  OBVIOUS
<1>2. StackType /\ RunLoopType /\ ToDispatchType /\ ScheduledType
  BY <1>1 DEF Init, StackType, RunLoopType, ToDispatchType, ScheduledType
<1>3. FlagTypes /\ CounterTypes /\ SecondaryType
  BY DEF Init, FlagTypes, CounterTypes, SecondaryType, NoSend
<1>4. PendingType /\ MessageTypes
  BY <1>1 DEF Init, PendingType, MessageTypes
<1>5. QED
  BY <1>2, <1>3, <1>4 DEF TypeInv

LEMMA FramesMade ==
    ASSUME NEW p \in Processes, NEW e \in EndsOf(p)
    PROVE  /\ \A m \in MessageType : HandlerFrame(e, m) \in Frames(p)
           /\ \A n \in Nat, at \in {"check", "wait"} : SyncFrame(at, e, n) \in Frames(p)
           /\ SwapFrame(Null) \in Frames(p) /\ SwapFrame(e) \in Frames(p)
           /\ \A at \in {"register", "test", "sleep"} : WaitFrame(at, e) \in Frames(p)
BY DEF Frames, HandlerFrames, SyncFrames, SwapFrames, WaitFrames, HandlerFrame, SyncFrame, SwapFrame, WaitFrame

LEMMA ClientCallType ==
    ASSUME TypeInv, NEW e \in Ends, ClientCall(e)
    PROVE  TypeInv'
<1> DEFINE p == ProcessOf[e]
<1>1. p \in Processes /\ e \in EndsOf(p) /\ nextId[e] \in Nat
  BY DEF TypeInv, CounterTypes, EndsOf
<1>2. ASSUME MaySend(p), CountSend(e) PROVE CounterTypes'
  BY <1>2 DEF TypeInv, CounterTypes, MaySend, CountSend
<1>3. \A k \in {"async", "awaited", "sync", "reply"}, n \in Nat, b, c \in BOOLEAN : Message(k, n, b, c) \in MessageType
  BY DEF Message, MessageType
<1>4. (\A w \in BOOLEAN : Marks(e, w) \in BOOLEAN) /\ ProcessingMarked(e) \in BOOLEAN
  BY DEF Marks, ProcessingMarked
<1>5. ASSUME NEW kind \in AsyncKinds, NEW wanted \in BOOLEAN, SendAsync(e, kind, wanted) PROVE TypeInv'
  <2>1. PICK m : m = Message(kind, nextId[e], Marks(e, wanted), ~ProcessingMarked(e))
    OBVIOUS
  <2>2. m \in MessageType
    BY <1>1, <1>3, <1>4, <2>1
  <2>3. wire' \in [Ends -> Seq(MessageType)]
    BY <1>5, <2>1, <2>2, SendMessageType DEF SendAsync, TypeInv
  <2>4. CounterTypes'
    BY <1>2, <1>5 DEF SendAsync
  <2>5. QED
    BY <1>5, <2>3, <2>4 DEF SendAsync, TypeInv, StackType, RunLoopType, ToDispatchType, ScheduledType,
       FlagTypes, PendingType, MessageTypes, SecondaryType, syncVars, linkVars
<1>6. ASSUME SendSync(e) PROVE TypeInv'
  <2>1. PICK m : m = Message("sync", nextId[e], Marks(e, TRUE), ~ProcessingMarked(e))
    OBVIOUS
  <2>2. m \in MessageType
    BY <1>1, <1>3, <1>4, <2>1
  <2>3. wire' \in [Ends -> Seq(MessageType)]
    BY <1>6, <2>1, <2>2, SendMessageType DEF SendSync, TypeInv
  <2>4. CounterTypes'
    BY <1>2, <1>6 DEF SendSync
  <2>5. PendingType'
    BY <1>1, <1>6 DEF SendSync, TypeInv, PendingType, Requests
  <2>6. <<SyncFrame("check", e, nextId[e]), SwapFrame(Null)>> \in Seq(Frames(p))
    BY <1>1, FramesMade
  <2>7. StackType'
    BY <1>1, <1>6, <2>6, PushType DEF SendSync, TypeInv
  <2>8. QED
    BY <1>6, <2>3, <2>4, <2>5, <2>7 DEF SendSync, TypeInv, RunLoopType, ToDispatchType, ScheduledType,
       FlagTypes, MessageTypes, SecondaryType, linkVars
<1>7. ASSUME FailToSendSync(e) PROVE TypeInv'
  BY <1>1, <1>7, ExitType DEF FailToSendSync
<1>8. ASSUME Invalidate(e) PROVE TypeInv'
  BY <1>8 DEF Invalidate, TypeInv, StackType, RunLoopType, ToDispatchType, ScheduledType, FlagTypes,
     CounterTypes, PendingType, MessageTypes, SecondaryType, processVars, syncVars, queueVars
<1>9. ASSUME SecondaryRegister(e) PROVE TypeInv'
  <2>1. CounterTypes'
    BY <1>9 DEF SecondaryRegister, CountSend, TypeInv, CounterTypes
  <2>2. SecondaryType'
    BY <1>1, <1>9 DEF SecondaryRegister, TypeInv, SecondaryType
  <2>3. QED
    BY <1>9, <2>1, <2>2 DEF SecondaryRegister, TypeInv, StackType, RunLoopType, ToDispatchType, ScheduledType,
       FlagTypes, PendingType, MessageTypes, linkVars
<1>10. ASSUME StartWait(e) PROVE TypeInv'
  <2>1. PICK i : i = SelectInSeq(incoming[e], IsAwaited)
    OBVIOUS
  <2>2. incoming[e] \in Seq(MessageType)
    BY DEF TypeInv, MessageTypes
  <2>3. StackType' /\ incoming' \in [Ends -> Seq(MessageType)]
    <3>1. CASE /\ i # 0 /\ incoming' = [incoming EXCEPT ![e] = RemoveAt(@, i)]
               /\ Push(p, <<HandlerFrame(e, incoming[e][i])>>)
      <4>1. i \in 1..Len(incoming[e])
        BY <2>1, <2>2, <3>1, SelectInSeqIndex
      <4>2. RemoveAt(incoming[e], i) \in Seq(MessageType) /\ incoming[e][i] \in MessageType
        BY <2>2, <4>1, RemoveAtType
      <4>3. <<HandlerFrame(e, incoming[e][i])>> \in Seq(Frames(p))
        BY <1>1, <4>2, FramesMade
      <4>4. StackType'
        BY <1>1, <3>1, <4>3, PushType DEF TypeInv
      <4>5. QED
        BY <3>1, <4>2, <4>4 DEF TypeInv, MessageTypes
    <3>2. CASE Push(p, <<WaitFrame("register", e)>>) /\ UNCHANGED incoming
      <4>1. <<WaitFrame("register", e)>> \in Seq(Frames(p))
        BY <1>1, FramesMade
      <4>2. StackType'
        BY <1>1, <3>2, <4>1, PushType DEF TypeInv
      <4>3. QED
        BY <3>2, <4>2 DEF TypeInv, MessageTypes
    <3>3. QED
      BY <1>10, <2>1, <3>1, <3>2 DEF StartWait
  <2>4. CounterTypes'
    BY <1>10 DEF StartWait, MaySend, TypeInv, CounterTypes
  <2>5. QED
    BY <1>10, <2>3, <2>4 DEF StartWait, TypeInv, RunLoopType, ToDispatchType, ScheduledType,
       FlagTypes, PendingType, MessageTypes, SecondaryType, linkVars, syncVars
<1>11. QED
  BY <1>5, <1>6, <1>7, <1>8, <1>9, <1>10 DEF ClientCall

LEMMA QueueStepType ==
    ASSUME TypeInv, NEW e \in Ends, QueueStep(e)
    PROVE  TypeInv'
<1> DEFINE p == ProcessOf[e]
<1>1. p \in Processes /\ e \in EndsOf(p)
  BY DEF EndsOf
<1>2. ASSUME Receive(e)
      PROVE  wire' \in [Ends -> Seq(MessageType)] /\ Head(wire[e]) \in MessageType /\ wire[e] # <<>>
  BY <1>2 DEF Receive, TypeInv, MessageTypes
<1>3. ASSUME ProcessIncomingSyncReply(e) PROVE TypeInv'
  <2>1. PICK m : m = Head(wire[e])
    OBVIOUS
  <2>2. PICK match : match = {i \in DOMAIN pending[e] : pending[e][i].id = m.id}
    OBVIOUS
  <2>3. /\ pending' = [pending EXCEPT ![e] =
             [i \in DOMAIN pending[e] |-> IF i \in match THEN [pending[e][i] EXCEPT !.reply = TRUE] ELSE pending[e][i]]]
        /\ semaphore' = [semaphore EXCEPT ![p] = semaphore[p] \/ Len(pending[e]) \in match]
        /\ secondary' = [secondary EXCEPT ![e] =
             IF match = {} /\ secondary[e].at # "none" /\ secondary[e].id = m.id
             THEN [secondary[e] EXCEPT !.signalled = TRUE] ELSE secondary[e]]
    BY <1>1, <1>3, <2>1, <2>2 DEF ProcessIncomingSyncReply, TypeInv, PendingType, FlagTypes, SecondaryType
  <2>4. PendingType'
    <3>1. pending[e] \in Seq(Requests)
      BY DEF TypeInv, PendingType
    <3>2. PICK s : s = [i \in DOMAIN pending[e] |->
                          IF i \in match THEN [pending[e][i] EXCEPT !.reply = TRUE] ELSE pending[e][i]]
      OBVIOUS
    <3>3. \A i \in DOMAIN pending[e] : s[i] \in Requests
      <4>1. \A i \in DOMAIN pending[e] : pending[e][i] \in Requests
        BY <3>1
      <4>2. QED
        BY <3>2, <4>1, AnsweredTypes
    <3>4. s \in Seq(Requests)
      <4>1. DOMAIN pending[e] = 1..Len(pending[e]) /\ Len(pending[e]) \in Nat
        BY <3>1
      <4>2. s \in [1..Len(pending[e]) -> Requests]
        BY <3>2, <3>3, <4>1
      <4>3. QED
        BY <4>1, <4>2
    <3>5. QED
      BY <2>3, <3>2, <3>4 DEF TypeInv, PendingType
  <2>5. SecondaryType'
    BY <2>3, AnsweredTypes DEF TypeInv, SecondaryType
  <2>6. FlagTypes'
    BY <1>1, <1>3, <2>3 DEF TypeInv, FlagTypes, ProcessIncomingSyncReply, linkVars
  <2>7. QED
    BY <1>2, <1>3, <2>4, <2>5, <2>6 DEF ProcessIncomingSyncReply, TypeInv, StackType, RunLoopType, ToDispatchType,
       ScheduledType, CounterTypes, MessageTypes
<1>4. ASSUME ProcessMarkedMessage(e) PROVE TypeInv'
  <2>1. ScheduledType'
    BY <1>1, <1>4 DEF ProcessMarkedMessage, TypeInv, ScheduledType
  <2>2. RunLoopType'
    <3>1. [what |-> "marked", end |-> e] \in Tasks(p)
      BY <1>1 DEF Tasks
    <3>2. QED
      <4>1. CASE NeedsDispatch(p, e)
        BY <1>1, <1>4, <3>1, <4>1, TaskPosted DEF ProcessMarkedMessage, TypeInv
      <4>2. CASE ~NeedsDispatch(p, e)
        BY <1>1, <1>4, <4>2 DEF ProcessMarkedMessage, TypeInv, RunLoopType
      <4>3. QED
        BY <4>1, <4>2
  <2>3. ToDispatchType'
    <3>1. [end |-> e, msg |-> Head(wire[e])] \in Entries(p)
      BY <1>1, <1>2, <1>4 DEF ProcessMarkedMessage, Entries
    <3>2. QED
      <4>1. PICK entry \in Entries(p) : entry = [end |-> e, msg |-> Head(wire[e])]
        BY <3>1
      <4>2. Append(toDispatch[p], entry) \in Seq(Entries(p))
        BY <1>1 DEF TypeInv, ToDispatchType
      <4>3. toDispatch' = [toDispatch EXCEPT ![p] = Append(toDispatch[p], entry)]
        BY <1>1, <1>4, <4>1 DEF ProcessMarkedMessage, TypeInv, ToDispatchType
      <4>4. QED
        BY <1>1, <4>2, <4>3 DEF TypeInv, ToDispatchType
  <2>4. FlagTypes'
    BY <1>1, <1>4 DEF ProcessMarkedMessage, TypeInv, FlagTypes, linkVars
  <2>5. QED
    BY <1>2, <1>4, <2>1, <2>2, <2>3, <2>4 DEF ProcessMarkedMessage, TypeInv, StackType, CounterTypes, PendingType,
       MessageTypes, SecondaryType, syncVars
<1>5. ASSUME ProcessOtherMessage(e) PROVE TypeInv'
  <2>1. RunLoopType' /\ incoming' \in [Ends -> Seq(MessageType)]
    <3>1. CASE UNCHANGED <<incoming, runLoop>>
      BY <3>1 DEF TypeInv, RunLoopType, MessageTypes
    <3>2. CASE /\ incoming' = [incoming EXCEPT ![e] = Append(@, Head(wire[e]))]
               /\ runLoop' = [runLoop EXCEPT ![p] = Append(@, [what |-> "one", end |-> e])]
      <4>1. [what |-> "one", end |-> e] \in Tasks(p)
        BY <1>1 DEF Tasks
      <4>2. Head(wire[e]) \in MessageType
        BY <1>2, <1>5 DEF ProcessOtherMessage
      <4>3. RunLoopType'
        BY <1>1, <3>2, <4>1, TaskPosted DEF TypeInv
      <4>4. Append(incoming[e], Head(wire[e])) \in Seq(MessageType)
        BY <4>2 DEF TypeInv, MessageTypes
      <4>5. QED
        BY <3>2, <4>3, <4>4 DEF TypeInv, MessageTypes
    <3>3. QED
      BY <1>5, <3>1, <3>2 DEF ProcessOtherMessage
  <2>2. QED
    BY <1>2, <1>5, <2>1 DEF ProcessOtherMessage, TypeInv, StackType, ToDispatchType, ScheduledType, FlagTypes,
       CounterTypes, PendingType, MessageTypes, SecondaryType, syncVars, linkVars
<1>6. ASSUME PlatformInvalidate(e) PROVE TypeInv'
  <2>1. FlagTypes' /\ MessageTypes'
    BY <1>6 DEF PlatformInvalidate, Close, TypeInv, FlagTypes, MessageTypes, processVars
  <2>2. QED
    BY <1>6, <2>1 DEF PlatformInvalidate, TypeInv, StackType, RunLoopType, ToDispatchType, ScheduledType,
       CounterTypes, PendingType, SecondaryType, syncVars, processVars
<1>7. ASSUME ConnectionDidClose(e) PROVE TypeInv'
  <2>1. FlagTypes' /\ MessageTypes'
    BY <1>1, <1>7 DEF ConnectionDidClose, Close, WakeMain, TypeInv, FlagTypes, MessageTypes
  <2>2. SecondaryType'
    BY <1>7, AnsweredTypes DEF ConnectionDidClose, WakeSecondary, TypeInv, SecondaryType
  <2>3. RunLoopType'
    <3>1. [what |-> "close", end |-> e] \in Tasks(p)
      BY <1>1 DEF Tasks
    <3>2. QED
      BY <1>1, <1>7, <3>1, TaskPosted DEF ConnectionDidClose, PostDidClose, TypeInv
  <2>4. QED
    BY <1>7, <2>1, <2>2, <2>3 DEF ConnectionDidClose, TypeInv, StackType, ToDispatchType, ScheduledType,
       CounterTypes, PendingType
<1>8. QED
  BY <1>3, <1>4, <1>5, <1>6, <1>7 DEF QueueStep

LEMMA SecondaryStepType ==
    ASSUME TypeInv, NEW e \in Ends, SecondaryStep(e)
    PROVE  TypeInv'
<1>1. ASSUME SecondarySend(e) PROVE TypeInv'
  <2>1. Message("sync", secondary[e].id, FALSE, FALSE) \in MessageType
    BY DEF TypeInv, SecondaryType, Message, MessageType
  <2>2. wire' \in [Ends -> Seq(MessageType)]
    BY <1>1, <2>1, SendMessageType DEF SecondarySend, TypeInv
  <2>3. SecondaryType'
    BY <1>1 DEF SecondarySend, TypeInv, SecondaryType
  <2>4. QED
    BY <1>1, <2>2, <2>3 DEF SecondarySend, TypeInv, StackType, RunLoopType, ToDispatchType, ScheduledType,
       FlagTypes, CounterTypes, PendingType, MessageTypes, processVars, linkVars
<1>2. ASSUME SecondaryReturn(e) PROVE TypeInv'
  <2>1. SecondaryType'
    BY <1>2 DEF SecondaryReturn, TypeInv, SecondaryType, NoSend
  <2>2. QED
    BY <1>2, <2>1 DEF SecondaryReturn, TypeInv, StackType, RunLoopType, ToDispatchType, ScheduledType,
       FlagTypes, CounterTypes, PendingType, MessageTypes, processVars, linkVars, queueVars
<1>3. QED
  BY <1>1, <1>2 DEF SecondaryStep

(* What a frame holds, by the place it is at.                               *)
LEMMA FrameFields ==
    ASSUME NEW p \in Processes, NEW f \in Frames(p)
    PROVE  /\ f.at = "handler" => f.end \in EndsOf(p) /\ f.msg \in MessageType
           /\ f.at \in {"check", "wait"} => f.end \in EndsOf(p) /\ f.id \in Nat
           /\ f.at \in {"swap", "batch"} => f.end \in EndsOf(p) \cup {Null}
           /\ f.at = "batch" => f.batch \in Seq(Entries(p)) /\ f.back \in Seq(Entries(p))
           /\ f.at \in {"register", "test", "sleep"} => f.end \in EndsOf(p)
BY DEF Frames, HandlerFrames, SyncFrames, SwapFrames, BatchFrames, WaitFrames

LEMMA BatchMade ==
    ASSUME NEW p \in Processes, NEW a \in EndsOf(p) \cup {Null},
           NEW batch \in Seq(Entries(p)), NEW back \in Seq(Entries(p))
    PROVE  BatchFrame(a, batch, back) \in Frames(p)
BY DEF Frames, BatchFrames, BatchFrame

LEMMA EndSyncType ==
    ASSUME TypeInv, NEW p \in Processes, NEW e \in Ends, NEW b, EndSync(p, e, b),
           stack[p] # <<>>, pending[e] # <<>>,
           UNCHANGED <<sends, shouldWait, nextId, valid, invalidating, lastPlain>>
    PROVE  TypeInv'
<1>1. CASE Exit(p)
  BY <1>1, ExitType
<1>2. CASE /\ PopPending(e) /\ Pop(p)
           /\ UNCHANGED <<alive, runLoop, toDispatch, scheduled, semaphore, connected, incoming,
                          wire, secondary, waiting>>
  <2>1. StackType'
    BY <1>2, PopType DEF TypeInv
  <2>2. PendingType'
    <3>1. Front(pending[e]) \in Seq(Requests)
      BY FrontAndLast DEF TypeInv, PendingType
    <3>2. QED
      BY <1>2, <3>1 DEF PopPending, TypeInv, PendingType
  <2>3. QED
    BY <1>2, <2>1, <2>2 DEF TypeInv, RunLoopType, ToDispatchType, ScheduledType, FlagTypes, CounterTypes,
       MessageTypes, SecondaryType
<1>3. QED
  BY <1>1, <1>2 DEF EndSync

LEMMA MainStepType ==
    ASSUME TypeInv, NEW p \in Processes, MainStep(p) \/ Deadline(p),
           \A e \in EndsOf(p) : IsTop(p, "check") \/ IsTop(p, "wait") =>
                (Last(stack[p]).end = e => pending[e] # <<>>)
    PROVE  TypeInv'
<1> DEFINE f == Last(stack[p])
<1>1. ASSUME NEW at, IsTop(p, at)
      PROVE  stack[p] # <<>> /\ f \in Frames(p) /\ f.at = at /\ Front(stack[p]) \in Seq(Frames(p))
  BY <1>1, TopFrame DEF IsTop, TypeInv
<1>2. \A e \in EndsOf(p) : e \in Ends
  BY DEF EndsOf
<1>3. ASSUME ReturnFromHandler(p) PROVE TypeInv'
  <2>1. stack[p] # <<>> /\ f.end \in Ends /\ f.msg \in MessageType
    BY <1>1, <1>2, <1>3, FrameFields DEF ReturnFromHandler
  <2>2. StackType'
    BY <1>3, <2>1, PopType DEF ReturnFromHandler, TypeInv
  <2>3. wire' \in [Ends -> Seq(MessageType)]
    <3>1. CASE f.msg.kind = "sync"
      <4>1. Message("reply", f.msg.id, FALSE, FALSE) \in MessageType
        BY <2>1 DEF Message, MessageType
      <4>2. SendMessage(f.end, Message("reply", f.msg.id, FALSE, FALSE))
        BY <1>3, <3>1 DEF ReturnFromHandler
      <4>3. QED
        BY <2>1, <4>1, <4>2, SendMessageType DEF TypeInv
    <3>2. CASE f.msg.kind # "sync"
      BY <1>3, <3>2 DEF ReturnFromHandler, TypeInv, MessageTypes
    <3>3. QED
      BY <3>1, <3>2
  <2>4. QED
    BY <1>3, <2>2, <2>3 DEF ReturnFromHandler, TypeInv, RunLoopType, ToDispatchType, ScheduledType,
       FlagTypes, CounterTypes, PendingType, MessageTypes, SecondaryType, syncVars, linkVars
<1>4. ASSUME Swap(p) PROVE TypeInv'
  <2>1. stack[p] # <<>> /\ f.end \in EndsOf(p) \cup {Null}
    BY <1>1, <1>4, FrameFields DEF Swap
  <2>2. toDispatch[p] \in Seq(Entries(p)) /\ <<>> \in Seq(Entries(p))
    BY DEF TypeInv, ToDispatchType
  <2>3. BatchFrame(f.end, toDispatch[p], <<>>) \in Frames(p)
    BY <2>1, <2>2, BatchMade
  <2>4. StackType'
    BY <1>4, <2>1, <2>3, SetTopType DEF Swap, TypeInv
  <2>5. ToDispatchType'
    BY <1>4, <2>2 DEF Swap, TypeInv, ToDispatchType
  <2>6. QED
    BY <1>4, <2>4, <2>5 DEF Swap, TypeInv, RunLoopType, ScheduledType,
       FlagTypes, CounterTypes, PendingType, MessageTypes, SecondaryType, syncVars, linkVars, queueVars
<1>5. ASSUME DispatchFromBatch(p) PROVE TypeInv'
  <2>1. /\ stack[p] # <<>> /\ f.end \in EndsOf(p) \cup {Null} /\ Front(stack[p]) \in Seq(Frames(p))
        /\ f.batch \in Seq(Entries(p)) /\ f.back \in Seq(Entries(p)) /\ f.batch # <<>>
    BY <1>1, <1>5, FrameFields DEF DispatchFromBatch
  <2>2. PICK entry : entry = Head(f.batch)
    OBVIOUS
  <2>3. PICK rest : rest = Tail(f.batch)
    OBVIOUS
  <2>4. entry \in Entries(p) /\ rest \in Seq(Entries(p)) /\ Append(f.back, entry) \in Seq(Entries(p))
    BY <2>1, <2>2, <2>3
  <2>5. entry.end \in EndsOf(p) /\ entry.msg \in MessageType
    BY <2>4 DEF Entries
  <2>6. /\ BatchFrame(f.end, rest, Append(f.back, entry)) \in Frames(p)
        /\ BatchFrame(f.end, rest, f.back) \in Frames(p)
        /\ HandlerFrame(entry.end, entry.msg) \in Frames(p)
    BY <2>1, <2>4, <2>5, BatchMade, FramesMade
  <2>7. \/ SetTop(p, BatchFrame(f.end, rest, Append(f.back, entry)))
        \/ SetTop(p, BatchFrame(f.end, rest, f.back))
        \/ stack' = [stack EXCEPT ![p] = Front(@) \o
                  <<BatchFrame(f.end, rest, f.back), HandlerFrame(entry.end, entry.msg)>>]
    BY <1>5, <2>2, <2>3 DEF DispatchFromBatch
  <2>8. StackType'
    <3>1. CASE stack' = [stack EXCEPT ![p] = Front(@) \o
                  <<BatchFrame(f.end, rest, f.back), HandlerFrame(entry.end, entry.msg)>>]
      <4>1. PICK s : s = Front(stack[p]) \o <<BatchFrame(f.end, rest, f.back), HandlerFrame(entry.end, entry.msg)>>
        OBVIOUS
      <4>2. s \in Seq(Frames(p))
        BY <2>1, <2>6, <4>1
      <4>3. stack' = [stack EXCEPT ![p] = s]
        BY <3>1, <4>1 DEF TypeInv, StackType
      <4>4. QED
        BY <4>2, <4>3, StackEdit DEF TypeInv
    <3>2. QED
      BY <2>1, <2>6, <2>7, <3>1, SetTopType DEF TypeInv
  <2>9. QED
    BY <1>5, <2>8 DEF DispatchFromBatch, TypeInv, RunLoopType, ToDispatchType, ScheduledType,
       FlagTypes, CounterTypes, PendingType, MessageTypes, SecondaryType, syncVars, linkVars, queueVars
<1>6. ASSUME FinishBatch(p) PROVE TypeInv'
  <2>1. stack[p] # <<>> /\ f.back \in Seq(Entries(p))
    BY <1>1, <1>6, FrameFields DEF FinishBatch
  <2>2. StackType'
    BY <1>6, <2>1, PopType DEF FinishBatch, TypeInv
  <2>3. ToDispatchType'
    <3>1. toDispatch' = [toDispatch EXCEPT ![p] = toDispatch[p] \o f.back]
      BY <1>6 DEF FinishBatch, TypeInv, ToDispatchType
    <3>2. toDispatch[p] \o f.back \in Seq(Entries(p))
      BY <2>1 DEF TypeInv, ToDispatchType
    <3>3. QED
      BY <3>1, <3>2 DEF TypeInv, ToDispatchType
  <2>4. QED
    BY <1>6, <2>2, <2>3 DEF FinishBatch, TypeInv, RunLoopType, ScheduledType,
       FlagTypes, CounterTypes, PendingType, MessageTypes, SecondaryType, syncVars, linkVars, queueVars
<1>7. ASSUME CheckSyncReply(p) PROVE TypeInv'
  <2>1. stack[p] # <<>> /\ f.end \in EndsOf(p) /\ f.id \in Nat /\ pending[f.end] # <<>>
    BY <1>1, <1>7, FrameFields DEF CheckSyncReply
  <2>2. CASE EndSync(p, f.end, Last(pending[f.end]).reply)
    BY <1>2, <1>7, <2>1, <2>2, EndSyncType DEF CheckSyncReply
  <2>3. CASE /\ SetTop(p, SyncFrame("wait", f.end, f.id))
             /\ UNCHANGED <<alive, runLoop, toDispatch, scheduled, semaphore, connected, pending,
                            incoming, wire, secondary, waiting>>
    <3>1. SyncFrame("wait", f.end, f.id) \in Frames(p)
      BY <2>1, FramesMade
    <3>2. StackType'
      BY <2>1, <2>3, <3>1, SetTopType DEF TypeInv
    <3>3. QED
      BY <1>7, <2>3, <3>2 DEF CheckSyncReply, TypeInv, RunLoopType, ToDispatchType, ScheduledType,
         FlagTypes, CounterTypes, PendingType, MessageTypes, SecondaryType
  <2>4. QED
    BY <1>7, <2>2, <2>3 DEF CheckSyncReply
<1>8. ASSUME TimeOut(p) PROVE TypeInv'
  <2>1. stack[p] # <<>> /\ f.end \in EndsOf(p) /\ pending[f.end] # <<>>
    BY <1>1, <1>8, FrameFields DEF TimeOut
  <2>2. QED
    BY <1>2, <1>8, <2>1, EndSyncType DEF TimeOut
<1>9. ASSUME WakeUp(p) PROVE TypeInv'
  <2>1. stack[p] # <<>> /\ f.end \in EndsOf(p) /\ f.id \in Nat /\ Front(stack[p]) \in Seq(Frames(p))
    BY <1>1, <1>9, FrameFields DEF WakeUp
  <2>2. PICK s : s = Front(stack[p]) \o <<SyncFrame("check", f.end, f.id), SwapFrame(Null)>>
    OBVIOUS
  <2>3. SyncFrame("check", f.end, f.id) \in Frames(p) /\ SwapFrame(Null) \in Frames(p)
    BY <2>1, FramesMade
  <2>4. s \in Seq(Frames(p))
    BY <2>1, <2>2, <2>3
  <2>5. stack' = [stack EXCEPT ![p] = s]
    BY <1>9, <2>2 DEF WakeUp, TypeInv, StackType
  <2>6. StackType'
    BY <2>4, <2>5, StackEdit DEF TypeInv
  <2>7. QED
    BY <1>9, <2>6 DEF WakeUp, TypeInv, RunLoopType, ToDispatchType, ScheduledType,
       FlagTypes, CounterTypes, PendingType, MessageTypes, SecondaryType, syncVars, linkVars, queueVars
<1>10. ASSUME RegisterWait(p) \/ TestWait(p) \/ WakeFromWait(p) \/ WaitTimesOut(p) PROVE TypeInv'
  <2>1. stack[p] # <<>> /\ f.end \in EndsOf(p)
    <3>1. IsTop(p, "register") \/ IsTop(p, "test") \/ IsTop(p, "sleep")
      BY <1>10 DEF RegisterWait, TestWait, WakeFromWait, WaitTimesOut
    <3>2. QED
      BY <1>1, <3>1, FrameFields
  <2>2. Message("awaited", 0, FALSE, FALSE) \in MessageType
    BY DEF Message, MessageType
  <2>3. \/ \E g \in Frames(p) : SetTop(p, g)
        \/ Pop(p)
    BY <1>10, <2>1, <2>2, FramesMade DEF RegisterWait, TestWait, WakeFromWait, WaitTimesOut
  <2>4. StackType'
    BY <2>1, <2>3, SetTopType, PopType DEF TypeInv
  <2>5. UNCHANGED <<alive, sends, runLoop, toDispatch, scheduled, semaphore, syncVars, queueVars, linkVars>>
    BY <1>10 DEF RegisterWait, TestWait, WakeFromWait, WaitTimesOut
  <2>6. QED
    BY <2>4, <2>5 DEF TypeInv, RunLoopType, ToDispatchType, ScheduledType,
       FlagTypes, CounterTypes, PendingType, MessageTypes, SecondaryType, syncVars, linkVars, queueVars
<1>11. ASSUME NEW e \in EndsOf(p), NEW what, NextTask(p, what, e) PROVE RunLoopType'
  <2>1. runLoop' = [runLoop EXCEPT ![p] = Tail(runLoop[p])] /\ runLoop[p] # <<>>
    BY <1>11 DEF NextTask, TypeInv, RunLoopType
  <2>2. Tail(runLoop[p]) \in Seq(Tasks(p))
    BY <2>1 DEF TypeInv, RunLoopType
  <2>3. QED
    BY <2>1, <2>2 DEF TypeInv, RunLoopType
<1>12. ASSUME NEW e \in EndsOf(p), DispatchOneMessage(p, e) PROVE TypeInv'
  <2>1. RunLoopType'
    BY <1>11, <1>12 DEF DispatchOneMessage
  <2>2. incoming[e] \in Seq(MessageType)
    BY <1>2 DEF TypeInv, MessageTypes
  <2>3. StackType' /\ incoming' \in [Ends -> Seq(MessageType)]
    <3>1. CASE UNCHANGED <<incoming, stack>>
      BY <3>1 DEF TypeInv, StackType, MessageTypes
    <3>2. CASE incoming[e] # <<>> /\ incoming' = [incoming EXCEPT ![e] = Tail(@)]
      <4>1. Tail(incoming[e]) \in Seq(MessageType) /\ Head(incoming[e]) \in MessageType
        BY <2>2, <3>2
      <4>2. incoming' \in [Ends -> Seq(MessageType)]
        BY <1>2, <3>2, <4>1 DEF TypeInv, MessageTypes
      <4>3. <<HandlerFrame(e, Head(incoming[e]))>> \in Seq(Frames(p))
        BY <4>1, FramesMade
      <4>4. Push(p, <<HandlerFrame(e, Head(incoming[e]))>>) \/ UNCHANGED stack
        BY <1>12, <3>2 DEF DispatchOneMessage
      <4>5. StackType'
        BY <4>3, <4>4, PushType DEF TypeInv, StackType
      <4>6. QED
        BY <4>2, <4>5
    <3>3. QED
      BY <1>12, <3>1, <3>2 DEF DispatchOneMessage
  <2>4. QED
    BY <1>12, <2>1, <2>3 DEF DispatchOneMessage, TypeInv, ToDispatchType, ScheduledType,
       FlagTypes, CounterTypes, PendingType, MessageTypes, SecondaryType, syncVars, linkVars
<1>13. ASSUME NEW e \in EndsOf(p), DispatchMarked(p, e) PROVE TypeInv'
  <2>1. RunLoopType'
    BY <1>11, <1>13 DEF DispatchMarked
  <2>2. <<SwapFrame(e)>> \in Seq(Frames(p))
    BY FramesMade
  <2>3. StackType'
    BY <1>13, <2>2, PushType DEF DispatchMarked, TypeInv
  <2>4. ScheduledType'
    BY <1>13 DEF DispatchMarked, TypeInv, ScheduledType
  <2>5. QED
    BY <1>13, <2>1, <2>3, <2>4 DEF DispatchMarked, TypeInv, ToDispatchType,
       FlagTypes, CounterTypes, PendingType, MessageTypes, SecondaryType, syncVars, linkVars, queueVars
<1>14. ASSUME NEW e \in EndsOf(p), DidClose(p, e) PROVE TypeInv'
  <2>1. RunLoopType'
    BY <1>11, <1>14 DEF DidClose
  <2>2. FlagTypes'
    BY <1>2, <1>14 DEF DidClose, TypeInv, FlagTypes
  <2>3. QED
    BY <1>14, <2>1, <2>2 DEF DidClose, TypeInv, StackType, ToDispatchType, ScheduledType,
       CounterTypes, PendingType, MessageTypes, SecondaryType, syncVars, queueVars
<1>15. QED
  BY <1>3, <1>4, <1>5, <1>6, <1>7, <1>8, <1>9, <1>10, <1>12, <1>13, <1>14 DEF MainStep, Deadline

-----------------------------------------------------------------------------
(* What a step does to a stack: it keeps the first n frames and has fs      *)
(* above them.                                                              *)

Edited(s, r, n, fs) ==
    /\ Len(r) = n + Len(fs)
    /\ \A i \in 1..n : r[i] = s[i]
    /\ \A i \in 1..Len(fs) : r[n + i] = fs[i]

LEMMA FrontEdited ==
    ASSUME NEW S, NEW s \in Seq(S), s # <<>>, NEW fs \in Seq(S)
    PROVE  Edited(s, Front(s) \o fs, Len(s) - 1, fs)
<1>1. PICK g \in Seq(S) : g = Front(s)
  BY FrontAndLast
<1>2. Len(g) = Len(s) - 1 /\ \A i \in 1..(Len(s) - 1) : g[i] = s[i]
  BY <1>1, FrontAndLast
<1>3. PICK n \in Nat : n = Len(s) - 1
  <2>1. Len(s) \in Nat /\ Len(s) >= 1
    BY FrontAndLast
  <2>2. Len(s) - 1 \in Nat
    BY <2>1
  <2>3. QED
    BY <2>2
<1>4. PICK r : r = g \o fs
  OBVIOUS
<1>5. /\ Len(r) = n + Len(fs) /\ Len(fs) \in Nat
      /\ \A i \in 1..n : r[i] = s[i]
      /\ \A i \in 1..Len(fs) : r[n + i] = fs[i]
  <2>1. Len(g) = n /\ Len(fs) \in Nat
    BY <1>2, <1>3
  <2>2. /\ Len(r) = n + Len(fs)
        /\ \A i \in 1..(n + Len(fs)) : r[i] = IF i <= n THEN g[i] ELSE fs[i - n]
    <3>1. /\ Len(g \o fs) = Len(g) + Len(fs)
          /\ \A i \in 1..(Len(g) + Len(fs)) : (g \o fs)[i] = IF i <= Len(g) THEN g[i] ELSE fs[i - Len(g)]
      BY ConcatProperties
    <3>2. QED
      BY <1>4, <2>1, <3>1, Zenon
  <2>3. ASSUME NEW i \in 1..n PROVE r[i] = s[i]
    <3>1. i \in 1..(n + Len(fs)) /\ i <= n
      BY <2>1
    <3>2. QED
      BY <1>2, <1>3, <2>2, <3>1
  <2>4. ASSUME NEW i \in 1..Len(fs) PROVE r[n + i] = fs[i]
    <3>1. n + i \in 1..(n + Len(fs)) /\ ~(n + i <= n) /\ (n + i) - n = i
      BY <2>1
    <3>2. QED
      BY <2>2, <3>1
  <2>5. QED
    BY <2>1, <2>2, <2>3, <2>4
<1>6. QED
  BY <1>1, <1>3, <1>4, <1>5 DEF Edited

LEMMA StackOps ==
    ASSUME StackType, NEW p \in Processes
    PROVE  /\ stack[p] # <<>> /\ Pop(p) =>
                Edited(stack[p], stack'[p], Len(stack[p]) - 1, <<>>)
           /\ \A f \in Frames(p) : stack[p] # <<>> /\ SetTop(p, f) =>
                Edited(stack[p], stack'[p], Len(stack[p]) - 1, <<f>>)
           /\ \A fs \in Seq(Frames(p)) : Push(p, fs) =>
                Edited(stack[p], stack'[p], Len(stack[p]), fs)
           /\ \A fs \in Seq(Frames(p)) : stack[p] # <<>> /\ stack' = [stack EXCEPT ![p] = Front(@) \o fs] =>
                Edited(stack[p], stack'[p], Len(stack[p]) - 1, fs)
<1>1. stack[p] \in Seq(Frames(p)) /\ Len(stack[p]) \in Nat
  BY DEF StackType
<1>2. ASSUME stack[p] # <<>>, Pop(p) PROVE Edited(stack[p], stack'[p], Len(stack[p]) - 1, <<>>)
  <2>1. stack'[p] = Front(stack[p]) /\ Front(stack[p]) \in Seq(Frames(p))
    BY <1>2, TopFrame DEF Pop, StackType
  <2>2. Front(stack[p]) = Front(stack[p]) \o <<>> /\ <<>> \in Seq(Frames(p))
    BY <2>1
  <2>3. Edited(stack[p], Front(stack[p]) \o <<>>, Len(stack[p]) - 1, <<>>)
    BY <1>1, <1>2, <2>2, FrontEdited
  <2>4. QED
    BY <2>1, <2>2, <2>3
<1>3. ASSUME NEW f \in Frames(p), stack[p] # <<>>, SetTop(p, f)
      PROVE  Edited(stack[p], stack'[p], Len(stack[p]) - 1, <<f>>)
  <2>1. stack'[p] = Append(Front(stack[p]), f) /\ Front(stack[p]) \in Seq(Frames(p))
    BY <1>3, TopFrame DEF SetTop, StackType
  <2>2. Append(Front(stack[p]), f) = Front(stack[p]) \o <<f>> /\ <<f>> \in Seq(Frames(p))
    BY <2>1
  <2>3. Edited(stack[p], Front(stack[p]) \o <<f>>, Len(stack[p]) - 1, <<f>>)
    BY <1>1, <1>3, <2>2, FrontEdited
  <2>4. QED
    BY <2>1, <2>2, <2>3
<1>4. ASSUME NEW fs \in Seq(Frames(p)), Push(p, fs) PROVE Edited(stack[p], stack'[p], Len(stack[p]), fs)
  <2>1. stack'[p] = stack[p] \o fs
    BY <1>4 DEF Push, StackType
  <2>2. /\ Len(stack'[p]) = Len(stack[p]) + Len(fs)
        /\ \A i \in 1..Len(stack[p]) : stack'[p][i] = stack[p][i]
        /\ \A i \in 1..Len(fs) : stack'[p][Len(stack[p]) + i] = fs[i]
    BY <1>1, <2>1
  <2>3. QED
    BY <2>2 DEF Edited
<1>5. ASSUME NEW fs \in Seq(Frames(p)), stack[p] # <<>>, stack' = [stack EXCEPT ![p] = Front(@) \o fs]
      PROVE  Edited(stack[p], stack'[p], Len(stack[p]) - 1, fs)
  <2>1. stack'[p] = Front(stack[p]) \o fs
    BY <1>5 DEF StackType
  <2>2. Edited(stack[p], Front(stack[p]) \o fs, Len(stack[p]) - 1, fs)
    BY <1>1, <1>5, FrontEdited
  <2>3. QED
    BY <2>1, <2>2
<1>6. QED
  BY <1>2, <1>3, <1>4, <1>5

-----------------------------------------------------------------------------
(* Pending replies.                                                         *)

Waits(f, e) == f.at \in {"check", "wait"} /\ f.end = e
WaitAt(s, e, i) == i \in 1..Len(s) /\ Waits(s[i], e)

\* The frames that wait for replies on e are the same in s and r.
SameWaits(s, r, e) ==
    \A i \in Nat : /\ WaitAt(r, e, i) <=> WaitAt(s, e, i)
                   /\ WaitAt(s, e, i) => r[i].id = s[i].id

LEMMA EditKeepsWaits ==
    ASSUME NEW S, NEW s \in Seq(S), NEW r, NEW e, NEW fs \in Seq(S), NEW n \in Nat, Edited(s, r, n, fs),
           \/ n = Len(s)
           \/ n = Len(s) - 1 /\ ~Waits(s[Len(s)], e),
           \A i \in 1..Len(fs) : ~Waits(fs[i], e)
    PROVE  SameWaits(s, r, e)
<1>1. Len(s) \in Nat /\ Len(fs) \in Nat
  OBVIOUS
<1>2. SUFFICES ASSUME NEW i \in Nat
               PROVE  /\ WaitAt(r, e, i) <=> WaitAt(s, e, i)
                      /\ WaitAt(s, e, i) => r[i].id = s[i].id
  BY DEF SameWaits
<1>3. CASE i \in 1..n
  <2>1. r[i] = s[i] /\ i \in 1..Len(s) /\ i \in 1..Len(r)
    BY <1>1, <1>3 DEF Edited
  <2>2. QED
    BY <2>1 DEF WaitAt
<1>4. CASE i \notin 1..n
  <2>1. ~WaitAt(s, e, i)
    <3>1. i \in 1..Len(s) => i = Len(s) /\ n = Len(s) - 1
      BY <1>1, <1>4
    <3>2. QED
      BY <3>1 DEF WaitAt
  <2>2. ~WaitAt(r, e, i)
    <3>1. ASSUME i \in 1..Len(r) PROVE ~Waits(r[i], e)
      <4>1. i - n \in 1..Len(fs) /\ n + (i - n) = i
        BY <1>1, <1>4, <3>1 DEF Edited
      <4>2. r[n + (i - n)] = fs[i - n]
        BY <4>1 DEF Edited
      <4>3. QED
        BY <4>1, <4>2
    <3>2. QED
      BY <3>1 DEF WaitAt
  <2>3. QED
    BY <2>1, <2>2
<1>5. QED
  BY <1>3, <1>4

(* A wait that goes round its loop stays where it is.                       *)
LEMMA LoopKeepsWaits ==
    ASSUME NEW S, NEW s \in Seq(S), s # <<>>, NEW r, NEW e, NEW f, NEW fs \in Seq(S),
           Edited(s, r, Len(s) - 1, fs), Len(fs) >= 1,
           fs[1] = f, Waits(s[Len(s)], e) <=> Waits(f, e), f.id = s[Len(s)].id,
           \A i \in 2..Len(fs) : ~Waits(fs[i], e)
    PROVE  SameWaits(s, r, e)
<1>1. PICK n \in Nat : n = Len(s) - 1 /\ Len(s) = n + 1
  BY LenOfFront
<1>2. Len(fs) \in Nat /\ Len(r) = n + Len(fs) /\ 1 \in 1..Len(fs)
  BY <1>1 DEF Edited
<1>3. r[n + 1] = f
  BY <1>1, <1>2 DEF Edited
<1>4. SUFFICES ASSUME NEW i \in Nat
               PROVE  /\ WaitAt(r, e, i) <=> WaitAt(s, e, i)
                      /\ WaitAt(s, e, i) => r[i].id = s[i].id
  BY DEF SameWaits
<1>5. CASE i \in 1..n
  <2>1. r[i] = s[i] /\ i \in 1..Len(s) /\ i \in 1..Len(r)
    BY <1>1, <1>2, <1>5 DEF Edited
  <2>2. QED
    BY <2>1 DEF WaitAt
<1>6. CASE i = n + 1
  <2>1. i \in 1..Len(s) /\ i \in 1..Len(r)
    BY <1>1, <1>2, <1>6
  <2>2. QED
    BY <1>1, <1>3, <1>6, <2>1 DEF WaitAt
<1>7. CASE i \notin 1..(n + 1)
  <2>1. ~WaitAt(s, e, i)
    BY <1>1, <1>7 DEF WaitAt
  <2>2. ASSUME i \in 1..Len(r) PROVE ~Waits(r[i], e)
    <3>1. i - n \in 2..Len(fs) /\ i - n \in 1..Len(fs) /\ n + (i - n) = i
      BY <1>1, <1>2, <1>7, <2>2
    <3>2. r[n + (i - n)] = fs[i - n]
      BY <1>1, <3>1 DEF Edited
    <3>3. QED
      BY <3>1, <3>2
  <2>3. QED
    BY <2>1, <2>2 DEF WaitAt
<1>8. QED
  <2>1. i \in 1..n \/ i = n + 1 \/ i \notin 1..(n + 1)
    BY <1>1
  <2>2. QED
    BY <1>5, <1>6, <1>7, <2>1

PendingOK(p, e) ==
    alive[p] => /\ Len(pending[e]) = Cardinality(WaitsOn(p, e))
                /\ \A i \in WaitsOn(p, e) : pending[e][Depth(p, e, i)].id = stack[p][i].id

LEMMA WaitsAreFinite ==
    ASSUME StackType, NEW p \in Processes, NEW e
    PROVE  /\ IsFiniteSet(WaitsOn(p, e)) /\ WaitsOn(p, e) \subseteq 1..Len(stack[p])
           /\ Cardinality(WaitsOn(p, e)) \in Nat
           /\ \A i \in WaitsOn(p, e) : Depth(p, e, i) \in 1..Cardinality(WaitsOn(p, e))
<1>1. Len(stack[p]) \in Nat /\ DOMAIN stack[p] = 1..Len(stack[p])
  BY DEF StackType
<1>2. WaitsOn(p, e) \subseteq 1..Len(stack[p])
  BY <1>1 DEF WaitsOn
<1>3. IsFiniteSet(1..Len(stack[p]))
  BY <1>1, FS_Interval
<1>4. IsFiniteSet(WaitsOn(p, e)) /\ Cardinality(WaitsOn(p, e)) \in Nat
  BY <1>2, <1>3, FS_Subset, FS_CardinalityType
<1>5. ASSUME NEW i \in WaitsOn(p, e) PROVE Depth(p, e, i) \in 1..Cardinality(WaitsOn(p, e))
  <2>1. PICK D : D = {j \in WaitsOn(p, e) : j <= i}
    OBVIOUS
  <2>2. D \subseteq WaitsOn(p, e) /\ i \in D
    BY <1>2, <2>1
  <2>3. IsFiniteSet(D) /\ Cardinality(D) <= Cardinality(WaitsOn(p, e))
    BY <1>4, <2>2, FS_Subset
  <2>4. Cardinality(D) \in Nat /\ Cardinality(D) # 0
    BY <2>2, <2>3, FS_CardinalityType, FS_EmptySet
  <2>5. Depth(p, e, i) = Cardinality(D)
    BY <2>1 DEF Depth
  <2>6. QED
    BY <1>4, <2>3, <2>4, <2>5
<1>6. QED
  BY <1>2, <1>4, <1>5

LEMMA SameWaitsKeep ==
    ASSUME StackType, StackType', NEW p \in Processes, NEW e, PendingOK(p, e),
           SameWaits(stack[p], stack'[p], e), alive'[p] => alive[p],
           Len(pending'[e]) = Len(pending[e]),
           \A i \in 1..Len(pending[e]) : pending'[e][i].id = pending[e][i].id
    PROVE  PendingOK(p, e)'
<1>1. WaitsOn(p, e)' = WaitsOn(p, e) /\ \A i \in WaitsOn(p, e) : stack'[p][i].id = stack[p][i].id
  <2>1. \A i : i \in WaitsOn(p, e) <=> i \in Nat /\ WaitAt(stack[p], e, i)
    BY DEF StackType, WaitsOn, WaitAt, Waits
  <2>2. \A i : i \in WaitsOn(p, e)' <=> i \in Nat /\ WaitAt(stack'[p], e, i)
    BY DEF StackType, WaitsOn, WaitAt, Waits
  <2>3. QED
    BY <2>1, <2>2 DEF SameWaits
<1>2. \A i : Depth(p, e, i)' = Depth(p, e, i)
  BY <1>1 DEF Depth
<1>3. QED
  BY <1>1, <1>2, WaitsAreFinite DEF PendingOK

(* sendSyncMessage() puts its request and its frame on top of both.         *)
LEMMA SendKeeps ==
    ASSUME StackType, StackType', PendingType, NEW p \in Processes, NEW e \in EndsOf(p), PendingOK(p, e), alive[p],
           NEW fs \in Seq(Frames(p)), Len(fs) = 2, Waits(fs[1], e), ~Waits(fs[2], e),
           Edited(stack[p], stack'[p], Len(stack[p]), fs),
           NEW x \in Requests, x.id = fs[1].id, pending'[e] = Append(pending[e], x)
    PROVE  PendingOK(p, e)'
<1>1. PICK n \in Nat : n = Len(stack[p])
  <2>1. stack[p] \in Seq(Frames(p))
    BY DEF StackType
  <2>2. Len(stack[p]) \in Nat
    BY <2>1
  <2>3. QED
    BY <2>2
<1>2. PICK W : W = WaitsOn(p, e)
  OBVIOUS
<1>3. /\ IsFiniteSet(W) /\ W \subseteq 1..n /\ Cardinality(W) \in Nat
      /\ \A i \in W : Depth(p, e, i) \in 1..Cardinality(W)
  BY <1>1, <1>2, WaitsAreFinite
<1>4. /\ Len(stack'[p]) = n + 2 /\ stack'[p][n + 1] = fs[1] /\ stack'[p][n + 2] = fs[2]
      /\ \A i \in 1..n : stack'[p][i] = stack[p][i]
  BY <1>1 DEF Edited
<1>5. WaitsOn(p, e)' = W \cup {n + 1}
  <2>1. DOMAIN stack'[p] = 1..(n + 2) /\ DOMAIN stack[p] = 1..n
    BY <1>1, <1>4 DEF StackType
  <2>2. 1..(n + 2) = (1..n) \cup {n + 1, n + 2}
    <3>1. \A i \in Int : i \in 1..(n + 2) <=> i \in 1..n \/ i = n + 1 \/ i = n + 2
      BY <1>1
    <3>2. n + 1 \in Int /\ n + 2 \in Int
      BY <1>1
    <3>3. (\A i \in 1..(n + 2) : i \in Int) /\ (\A i \in 1..n : i \in Int)
      BY <1>1
    <3>4. QED
      BY <3>1, <3>2, <3>3
  <2>3. QED
    BY <1>2, <1>4, <2>1, <2>2, SMTT(30) DEF WaitsOn, Waits
<1>6. n + 1 \notin W /\ Cardinality(W \cup {n + 1}) = Cardinality(W) + 1
  <2>1. n + 1 \notin W
    BY <1>1, <1>3
  <2>2. QED
    BY <1>3, <2>1, FS_AddElement
<1>7. Depth(p, e, n + 1)' = Cardinality(W) + 1
  <2>1. {j \in W \cup {n + 1} : j <= n + 1} = W \cup {n + 1}
    BY <1>1, <1>3
  <2>2. QED
    BY <1>5, <1>6, <2>1 DEF Depth
<1>8. \A i \in W : Depth(p, e, i)' = Depth(p, e, i)
  <2>1. ASSUME NEW i \in W PROVE {j \in W \cup {n + 1} : j <= i} = {j \in W : j <= i}
    BY <1>1, <1>3
  <2>2. QED
    BY <1>2, <1>5, <2>1 DEF Depth
<1>9. /\ pending[e] \in Seq(Requests) /\ Len(pending[e]) = Cardinality(W)
      /\ \A i \in W : pending[e][Depth(p, e, i)].id = stack[p][i].id
  BY <1>2 DEF PendingOK, PendingType, EndsOf
<1>10. /\ Len(pending'[e]) = Cardinality(W) + 1 /\ pending'[e][Cardinality(W) + 1] = x
       /\ \A k \in 1..Cardinality(W) : pending'[e][k] = pending[e][k]
  BY <1>9
<1>11. ASSUME NEW i \in WaitsOn(p, e)' PROVE pending'[e][Depth(p, e, i)'].id = stack'[p][i].id
  <2>1. CASE i = n + 1
    BY <1>4, <1>7, <1>10, <2>1
  <2>2. CASE i \in W
    <3>1. Depth(p, e, i)' = Depth(p, e, i) /\ Depth(p, e, i) \in 1..Cardinality(W) /\ i \in 1..n
      BY <1>3, <1>8, <2>2
    <3>2. pending'[e][Depth(p, e, i)] = pending[e][Depth(p, e, i)] /\ stack'[p][i] = stack[p][i]
      BY <1>4, <1>10, <3>1
    <3>3. pending[e][Depth(p, e, i)].id = stack[p][i].id
      BY <1>9, <2>2
    <3>4. QED
      BY <3>1, <3>2, <3>3
  <2>3. QED
    BY <1>5, <1>11, <2>1, <2>2
<1>12. QED
  BY <1>5, <1>6, <1>10, <1>11 DEF PendingOK

(* Its end takes both off: the frame on top is of the last request.         *)
LEMMA EndKeeps ==
    ASSUME StackType, StackType', PendingType, NEW p \in Processes, NEW e \in EndsOf(p), PendingOK(p, e), alive[p],
           stack[p] # <<>>, Waits(Last(stack[p]), e),
           Edited(stack[p], stack'[p], Len(stack[p]) - 1, <<>>),
           pending'[e] = Front(pending[e])
    PROVE  PendingOK(p, e)'
<1>1. stack[p] \in Seq(Frames(p))
  BY DEF StackType
<1>2. PICK n \in Nat : Len(stack[p]) = n + 1 /\ Len(stack[p]) - 1 = n
  BY <1>1, LenOfFront
<1>3. PICK W : W = WaitsOn(p, e)
  OBVIOUS
<1>4. /\ IsFiniteSet(W) /\ W \subseteq 1..(n + 1) /\ Cardinality(W) \in Nat
      /\ \A i \in W : Depth(p, e, i) \in 1..Cardinality(W)
  BY <1>2, <1>3, WaitsAreFinite
<1>5. Len(stack'[p]) = n /\ \A i \in 1..n : stack'[p][i] = stack[p][i]
  BY <1>2 DEF Edited
<1>6. DOMAIN stack'[p] = 1..n /\ DOMAIN stack[p] = 1..(n + 1) /\ 1..(n + 1) = (1..n) \cup {n + 1} /\ n + 1 \notin 1..n
  BY <1>1, <1>2, <1>5 DEF StackType
<1>7. n + 1 \in W
  BY <1>1, <1>2, <1>3, <1>6 DEF WaitsOn, Waits, Last
<1>8. WaitsOn(p, e)' = W \ {n + 1}
  BY <1>3, <1>5, <1>6 DEF WaitsOn
<1>9. IsFiniteSet(W \ {n + 1}) /\ Cardinality(W \ {n + 1}) = Cardinality(W) - 1
  BY <1>4, <1>7, FS_RemoveElement
<1>10. \A i \in W \ {n + 1} : Depth(p, e, i)' = Depth(p, e, i)
  <2>1. ASSUME NEW i \in W \ {n + 1} PROVE {j \in W \ {n + 1} : j <= i} = {j \in W : j <= i}
    <3>1. i \in Nat /\ i <= n
      BY <1>2, <1>4
    <3>2. ~(n + 1 <= i)
      BY <3>1
    <3>3. QED
      BY <3>2
  <2>2. QED
    BY <1>3, <1>8, <2>1 DEF Depth
<1>11. ASSUME NEW i \in W \ {n + 1} PROVE Depth(p, e, i)' \in 1..(Cardinality(W) - 1)
  <2>1. PICK D : D = {j \in W \ {n + 1} : j <= i}
    OBVIOUS
  <2>2. D \subseteq W \ {n + 1} /\ i \in D
    <3>1. i \in Nat
      BY <1>2, <1>4
    <3>2. i <= i
      BY <3>1
    <3>3. QED
      BY <2>1, <3>2
  <2>3. IsFiniteSet(D) /\ Cardinality(D) <= Cardinality(W \ {n + 1})
    BY <1>9, <2>2, FS_Subset
  <2>4. Cardinality(D) \in Nat /\ Cardinality(D) # 0
    BY <2>2, <2>3, FS_CardinalityType, FS_EmptySet
  <2>5. Depth(p, e, i)' = Cardinality(D)
    BY <1>8, <2>1 DEF Depth
  <2>6. QED
    BY <1>4, <1>9, <2>3, <2>4, <2>5
<1>12. /\ pending[e] \in Seq(Requests) /\ Len(pending[e]) = Cardinality(W)
       /\ \A i \in W : pending[e][Depth(p, e, i)].id = stack[p][i].id
  BY <1>3 DEF PendingOK, PendingType, EndsOf
<1>13. Cardinality(W) # 0
  BY <1>4, <1>7, FS_EmptySet
<1>14. /\ Len(pending'[e]) = Cardinality(W) - 1
       /\ \A k \in 1..(Cardinality(W) - 1) : pending'[e][k] = pending[e][k]
  <2>1. pending[e] # <<>>
    BY <1>12, <1>13
  <2>2. /\ Len(Front(pending[e])) = Len(pending[e]) - 1
        /\ \A k \in 1..(Len(pending[e]) - 1) : Front(pending[e])[k] = pending[e][k]
    BY <1>12, <2>1, FrontAndLast
  <2>3. QED
    BY <1>12, <2>2
<1>15. ASSUME NEW i \in W \ {n + 1} PROVE pending'[e][Depth(p, e, i)'].id = stack'[p][i].id
  <2>1. i \in 1..n
    BY <1>4, <1>6
  <2>2. Depth(p, e, i)' = Depth(p, e, i) /\ Depth(p, e, i)' \in 1..(Cardinality(W) - 1)
    BY <1>10, <1>11
  <2>3. pending'[e][Depth(p, e, i)] = pending[e][Depth(p, e, i)] /\ stack'[p][i] = stack[p][i]
    BY <1>5, <1>14, <2>1, <2>2
  <2>4. pending[e][Depth(p, e, i)].id = stack[p][i].id
    BY <1>12
  <2>5. QED
    BY <2>2, <2>3, <2>4
<1>16. QED
  BY <1>8, <1>9, <1>14, <1>15 DEF PendingOK

(* A thread that waits for a reply finds a request.                         *)
LEMMA WaiterHasRequest ==
    ASSUME StackType, NEW p \in Processes, NEW e \in EndsOf(p), PendingOK(p, e), alive[p],
           stack[p] # <<>>, Waits(Last(stack[p]), e)
    PROVE  pending[e] # <<>>
<1>1. stack[p] \in Seq(Frames(p)) /\ Len(stack[p]) \in Nat /\ Len(stack[p]) >= 1
  BY FrontAndLast DEF StackType
<1>2. Len(stack[p]) \in WaitsOn(p, e)
  BY <1>1 DEF WaitsOn, Waits, Last
<1>3. Cardinality(WaitsOn(p, e)) # 0
  BY <1>2, WaitsAreFinite, FS_EmptySet
<1>4. QED
  BY <1>3 DEF PendingOK
-----------------------------------------------------------------------------
(* Messages set aside.  A call of dispatchMessages() is coming for each of  *)
(* them; a call for one connection is never nested in another call, so what *)
(* it keeps back is still scheduled when it is put back.                    *)

HasTask(p, e) == \E i \in 1..Len(runLoop[p]) : runLoop[p][i] = [what |-> "marked", end |-> e]

FrameOK(sch, f, i) ==
    /\ f.at \in {"swap", "batch"} /\ f.end # Null => i = 1
    /\ f.at = "batch" =>
          /\ \A k \in 1..Len(f.back) : f.back[k].end \in sch
          /\ \A k \in 1..Len(f.batch) : f.end = Null \/ f.batch[k].end = f.end \/ f.batch[k].end \in sch

TasksComing(p) == \A e \in scheduled[p] : HasTask(p, e)
FramesOK(p)    == \A i \in 1..Len(stack[p]) : FrameOK(scheduled[p], stack[p][i], i)
EntriesOK(p)   == \A k \in 1..Len(toDispatch[p]) :
                     \/ toDispatch[p][k].end \in scheduled[p]
                     \/ stack[p] # <<>> /\ stack[p][1] = SwapFrame(toDispatch[p][k].end)

StrandInv(p) == alive[p] => TasksComing(p) /\ FramesOK(p) /\ EntriesOK(p)

ProcessInv(p) == StrandInv(p) /\ \A e \in EndsOf(p) : PendingOK(p, e)

LEMMA FramesKept ==
    ASSUME NEW p \in Processes, FramesOK(p), NEW n \in Nat, n <= Len(stack[p]), Len(stack[p]) \in Nat,
           NEW fs \in Seq(Frames(p)), Edited(stack[p], stack'[p], n, fs), scheduled[p] \subseteq scheduled'[p],
           \A i \in 1..Len(fs) : FrameOK(scheduled'[p], fs[i], n + i)
    PROVE  FramesOK(p)'
<1>1. Len(fs) \in Nat
  OBVIOUS
<1>2. SUFFICES ASSUME NEW i \in 1..Len(stack'[p]) PROVE FrameOK(scheduled'[p], stack'[p][i], i)
  BY DEF FramesOK
<1>3. CASE i \in 1..n
  <2>1. stack'[p][i] = stack[p][i] /\ i \in 1..Len(stack[p])
    BY <1>3 DEF Edited
  <2>2. FrameOK(scheduled[p], stack[p][i], i)
    BY <2>1 DEF FramesOK
  <2>3. QED
    BY <2>1, <2>2 DEF FrameOK
<1>4. CASE i \notin 1..n
  <2>1. i - n \in 1..Len(fs) /\ n + (i - n) = i
    BY <1>1, <1>4 DEF Edited
  <2>2. stack'[p][n + (i - n)] = fs[i - n] /\ FrameOK(scheduled'[p], fs[i - n], n + (i - n))
    BY <2>1 DEF Edited
  <2>3. QED
    BY <2>1, <2>2
<1>5. QED
  BY <1>3, <1>4

LEMMA EntriesKept ==
    ASSUME StackType, NEW p \in Processes, EntriesOK(p), NEW n \in Nat,
           NEW fs \in Seq(Frames(p)), Edited(stack[p], stack'[p], n, fs),
           \/ n = Len(stack[p])
           \/ n = Len(stack[p]) - 1 /\ Last(stack[p]).at # "swap",
           scheduled[p] \subseteq scheduled'[p],
           \A k \in 1..Len(toDispatch'[p]) :
              \/ toDispatch'[p][k].end \in scheduled'[p]
              \/ \E j \in 1..Len(toDispatch[p]) : toDispatch[p][j] = toDispatch'[p][k]
    PROVE  EntriesOK(p)'
<1>1. Len(fs) \in Nat /\ Len(stack[p]) \in Nat /\ Len(stack'[p]) = n + Len(fs)
  BY DEF StackType, Edited
<1>2. SUFFICES ASSUME NEW k \in 1..Len(toDispatch'[p]), toDispatch'[p][k].end \notin scheduled'[p]
               PROVE  stack'[p] # <<>> /\ stack'[p][1] = SwapFrame(toDispatch'[p][k].end)
  BY DEF EntriesOK
<1>3. PICK j \in 1..Len(toDispatch[p]) : toDispatch[p][j] = toDispatch'[p][k]
  BY <1>2
<1>4. stack[p] # <<>> /\ stack[p][1] = SwapFrame(toDispatch'[p][k].end)
  BY <1>2, <1>3 DEF EntriesOK
<1>5. stack[p][1].at = "swap" /\ Len(stack[p]) >= 1
  BY <1>1, <1>4, FrontAndLast DEF SwapFrame, StackType
<1>6. n >= 1
  BY <1>1, <1>5 DEF Last
<1>7. stack'[p][1] = stack[p][1] /\ Len(stack'[p]) >= 1
  BY <1>1, <1>6 DEF Edited
<1>8. stack'[p] # <<>>
  BY <1>7
<1>9. QED
  BY <1>4, <1>7, <1>8

(* Frames without messages that are dispatched for one connection only.     *)
PlainFrame(f) == f.at \notin {"swap", "batch"} \/ f = SwapFrame(Null)

LEMMA PlainFrameOK ==
    ASSUME NEW f, PlainFrame(f), NEW sch, NEW i
    PROVE  FrameOK(sch, f, i)
BY DEF PlainFrame, FrameOK, SwapFrame

(* A step that sets nothing aside and takes nothing from what is.           *)
LEMMA QuietStrand ==
    ASSUME TypeInv, NEW p \in Processes, StrandInv(p), alive'[p] => alive[p],
           NEW n \in Nat, NEW fs \in Seq(Frames(p)), Edited(stack[p], stack'[p], n, fs),
           \/ n = Len(stack[p])
           \/ n = Len(stack[p]) - 1 /\ Last(stack[p]).at # "swap",
           \A i \in 1..Len(fs) : PlainFrame(fs[i]),
           toDispatch'[p] = toDispatch[p], scheduled'[p] = scheduled[p],
           \A e : HasTask(p, e) => HasTask(p, e)'
    PROVE  StrandInv(p)'
<1> SUFFICES ASSUME alive'[p] PROVE TasksComing(p)' /\ FramesOK(p)' /\ EntriesOK(p)'
  BY DEF StrandInv
<1>1. TasksComing(p) /\ FramesOK(p) /\ EntriesOK(p)
  BY DEF StrandInv
<1>2. TasksComing(p)'
  BY <1>1 DEF TasksComing
<1>3. Len(stack[p]) \in Nat /\ n <= Len(stack[p])
  BY DEF TypeInv, StackType
<1>4. FramesOK(p)'
  BY <1>1, <1>3, FramesKept, PlainFrameOK
<1>5. EntriesOK(p)'
  BY <1>1, EntriesKept DEF TypeInv
<1>6. QED
  BY <1>2, <1>4, <1>5

(* The run loop keeps a task that is not the next.                          *)
LEMMA PopKeepsTasks ==
    ASSUME TypeInv, NEW p \in Processes, NEW what, NEW e, NextTask(p, what, e), NEW d, HasTask(p, d),
           what # "marked" \/ d # e
    PROVE  HasTask(p, d)'
<1>1. runLoop[p] \in Seq(Tasks(p)) /\ runLoop[p] # <<>> /\ runLoop'[p] = Tail(runLoop[p])
  BY DEF NextTask, TypeInv, RunLoopType
<1>2. PICK i \in 1..Len(runLoop[p]) : runLoop[p][i] = [what |-> "marked", end |-> d]
  BY DEF HasTask
<1>3. runLoop[p][1] = [what |-> what, end |-> e]
  BY <1>1 DEF NextTask
<1>4. i # 1
  BY <1>2, <1>3
<1>5. i - 1 \in 1..Len(Tail(runLoop[p])) /\ Tail(runLoop[p])[i - 1] = runLoop[p][i]
  BY <1>1, <1>2, <1>4
<1>6. QED
  BY <1>1, <1>2, <1>5 DEF HasTask

LEMMA AppendKeepsTasks ==
    ASSUME TypeInv, NEW p \in Processes, NEW task, runLoop'[p] = Append(runLoop[p], task)
    PROVE  /\ \A d : HasTask(p, d) => HasTask(p, d)'
           /\ \A d : task = [what |-> "marked", end |-> d] => HasTask(p, d)'
<1>1. runLoop[p] \in Seq(Tasks(p)) /\ Len(runLoop[p]) \in Nat
  BY DEF TypeInv, RunLoopType
<1>2. PICK n \in Nat : n = Len(runLoop[p])
  BY <1>1
<1>3. /\ Len(runLoop'[p]) = n + 1 /\ runLoop'[p][n + 1] = task
      /\ \A i \in 1..n : runLoop'[p][i] = runLoop[p][i] /\ i \in 1..(n + 1)
  BY <1>1, <1>2
<1>4. n + 1 \in 1..(n + 1)
  BY <1>2
<1>5. QED
  BY <1>2, <1>3, <1>4 DEF HasTask

-----------------------------------------------------------------------------
(* The steps.                                                               *)

(* A step that neither sends nor ends a sync message and sets none aside.   *)
LEMMA QuietStep ==
    ASSUME TypeInv, TypeInv', NEW p \in Processes, ProcessInv(p), alive'[p] => alive[p],
           NEW n \in Nat, NEW fs \in Seq(Frames(p)), Edited(stack[p], stack'[p], n, fs),
           \/ n = Len(stack[p])
           \/ n = Len(stack[p]) - 1 /\ Last(stack[p]).at \notin {"swap", "check", "wait"},
           \A i \in 1..Len(fs) : PlainFrame(fs[i]) /\ fs[i].at \notin {"check", "wait"},
           toDispatch'[p] = toDispatch[p], scheduled'[p] = scheduled[p],
           \A e : HasTask(p, e) => HasTask(p, e)',
           \A e \in EndsOf(p) : pending'[e] = pending[e]
    PROVE  ProcessInv(p)'
<1>1. StrandInv(p)'
  BY QuietStrand DEF ProcessInv
<1>2. ASSUME NEW e \in EndsOf(p) PROVE PendingOK(p, e)'
  <2>1. stack[p] \in Seq(Frames(p)) /\ \A i \in 1..Len(fs) : ~Waits(fs[i], e)
    BY DEF TypeInv, StackType, Waits
  <2>2. n = Len(stack[p]) \/ (n = Len(stack[p]) - 1 /\ ~Waits(stack[p][Len(stack[p])], e))
    BY DEF Waits, Last
  <2>3. SameWaits(stack[p], stack'[p], e)
    BY <2>1, <2>2, EditKeepsWaits
  <2>4. PendingOK(p, e) /\ pending'[e] = pending[e]
    BY DEF ProcessInv
  <2>5. QED
    BY <2>3, <2>4, SameWaitsKeep DEF TypeInv
<1>3. QED
  BY <1>1, <1>2 DEF ProcessInv

LEMMA SameStack ==
    ASSUME TypeInv, TypeInv', NEW p \in Processes, ProcessInv(p), alive'[p] => alive[p],
           stack'[p] = stack[p], toDispatch'[p] = toDispatch[p], scheduled'[p] = scheduled[p],
           \A e : HasTask(p, e) => HasTask(p, e)',
           \A e \in EndsOf(p) : pending'[e] = pending[e]
    PROVE  ProcessInv(p)'
<1>1. stack[p] \in Seq(Frames(p)) /\ Len(stack[p]) \in Nat /\ <<>> \in Seq(Frames(p))
  BY DEF TypeInv, StackType
<1>2. Edited(stack[p], stack'[p], Len(stack[p]), <<>>)
  BY <1>1 DEF Edited
<1>3. \A i \in 1..Len(<<>>) : FALSE
  OBVIOUS
<1>4. PICK n \in Nat : n = Len(stack[p])
  BY <1>1
<1>5. PICK fs \in Seq(Frames(p)) : fs = <<>>
  BY <1>1
<1>6. Edited(stack[p], stack'[p], n, fs) /\ \A i \in 1..Len(fs) : PlainFrame(fs[i]) /\ fs[i].at \notin {"check", "wait"}
  BY <1>2, <1>3, <1>4, <1>5
<1>7. QED
  BY <1>4, <1>6, QuietStep

(* Nothing of process q changes.                                            *)
Untouched(q) ==
    /\ stack'[q] = stack[q] /\ alive'[q] = alive[q] /\ toDispatch'[q] = toDispatch[q]
    /\ scheduled'[q] = scheduled[q] /\ runLoop'[q] = runLoop[q]
    /\ \A e \in EndsOf(q) : pending'[e] = pending[e]

LEMMA UntouchedKeeps ==
    ASSUME TypeInv, TypeInv', NEW q \in Processes, ProcessInv(q), Untouched(q)
    PROVE  ProcessInv(q)'
<1>1. \A e : HasTask(q, e) => HasTask(q, e)'
  BY DEF HasTask, Untouched
<1>2. QED
  BY <1>1, SameStack DEF Untouched

LEMMA ExitTouches ==
    ASSUME TypeInv, NEW p \in Processes, Exit(p)
    PROVE  alive'[p] = FALSE /\ \A q \in Processes \ {p} : Untouched(q)
BY DEF Exit, Untouched, Reset, EndsOf, TypeInv, StackType, RunLoopType, ToDispatchType, ScheduledType,
   FlagTypes, PendingType

LEMMA DeadKeeps ==
    ASSUME NEW p \in Processes, alive'[p] = FALSE
    PROVE  ProcessInv(p)'
BY DEF ProcessInv, StrandInv, PendingOK

LEMMA EndSyncTouches ==
    ASSUME TypeInv, NEW p \in Processes, NEW e \in EndsOf(p), NEW b, EndSync(p, e, b)
    PROVE  \A q \in Processes \ {p} : Untouched(q)
<1>1. CASE Exit(p)
  BY <1>1, ExitTouches
<1>2. CASE /\ PopPending(e) /\ Pop(p)
           /\ UNCHANGED <<alive, runLoop, toDispatch, scheduled, semaphore, connected, incoming,
                          wire, secondary, waiting>>
  BY <1>2 DEF PopPending, Pop, Untouched, EndsOf, TypeInv, StackType, PendingType
<1>3. QED
  BY <1>1, <1>2 DEF EndSync

LEMMA MainStepTouches ==
    ASSUME TypeInv, NEW p \in Processes, MainStep(p) \/ Deadline(p) \/ Crash(p)
    PROVE  \A q \in Processes \ {p} : Untouched(q)
<1> DEFINE f == Last(stack[p])
<1>1. ASSUME NEW at, IsTop(p, at) PROVE stack[p] # <<>> /\ f \in Frames(p) /\ f.at = at
  BY <1>1, TopFrame DEF IsTop, TypeInv
<1> USE DEF TypeInv, StackType, RunLoopType, ToDispatchType, ScheduledType, PendingType, Untouched
<1>2. ASSUME ReturnFromHandler(p) PROVE \A q \in Processes \ {p} : Untouched(q)
  BY <1>2 DEF ReturnFromHandler, Pop, syncVars
<1>3. ASSUME Swap(p) PROVE \A q \in Processes \ {p} : Untouched(q)
  BY <1>3 DEF Swap, SetTop, syncVars
<1>4. ASSUME DispatchFromBatch(p) PROVE \A q \in Processes \ {p} : Untouched(q)
  BY <1>4 DEF DispatchFromBatch, SetTop, syncVars
<1>5. ASSUME FinishBatch(p) PROVE \A q \in Processes \ {p} : Untouched(q)
  BY <1>5 DEF FinishBatch, Pop, syncVars
<1>6. ASSUME CheckSyncReply(p) PROVE \A q \in Processes \ {p} : Untouched(q)
  <2>1. f.end \in EndsOf(p)
    BY <1>1, <1>6, FrameFields DEF CheckSyncReply
  <2>2. CASE EndSync(p, f.end, Last(pending[f.end]).reply)
    BY <2>1, <2>2, EndSyncTouches
  <2>3. CASE /\ SetTop(p, SyncFrame("wait", f.end, f.id))
             /\ UNCHANGED <<alive, runLoop, toDispatch, scheduled, semaphore, connected, pending,
                            incoming, wire, secondary, waiting>>
    BY <2>3 DEF SetTop
  <2>4. QED
    BY <1>6, <2>2, <2>3 DEF CheckSyncReply
<1>7. ASSUME TimeOut(p) PROVE \A q \in Processes \ {p} : Untouched(q)
  <2>1. f.end \in EndsOf(p)
    BY <1>1, <1>7, FrameFields DEF TimeOut
  <2>2. QED
    BY <1>7, <2>1, EndSyncTouches DEF TimeOut
<1>8. ASSUME WakeUp(p) PROVE \A q \in Processes \ {p} : Untouched(q)
  BY <1>8 DEF WakeUp, syncVars
<1>9. ASSUME RegisterWait(p) \/ TestWait(p) \/ WakeFromWait(p) \/ WaitTimesOut(p) PROVE \A q \in Processes \ {p} : Untouched(q)
  BY <1>9 DEF RegisterWait, TestWait, WakeFromWait, WaitTimesOut, SetTop, Pop, syncVars
<1>10. ASSUME NEW e \in EndsOf(p), DispatchOneMessage(p, e) PROVE \A q \in Processes \ {p} : Untouched(q)
  BY <1>10 DEF DispatchOneMessage, NextTask, Push, syncVars
<1>11. ASSUME NEW e \in EndsOf(p), DispatchMarked(p, e) PROVE \A q \in Processes \ {p} : Untouched(q)
  BY <1>11 DEF DispatchMarked, NextTask, Push, syncVars
<1>12. ASSUME NEW e \in EndsOf(p), DidClose(p, e) PROVE \A q \in Processes \ {p} : Untouched(q)
  BY <1>12 DEF DidClose, NextTask, syncVars
<1>13. ASSUME Crash(p) PROVE \A q \in Processes \ {p} : Untouched(q)
  BY <1>13, ExitTouches DEF Crash
<1>14. QED
  BY <1>2, <1>3, <1>4, <1>5, <1>6, <1>7, <1>8, <1>9, <1>10, <1>11, <1>12, <1>13 DEF MainStep, Deadline

LEMMA EndStepTouches ==
    ASSUME TypeInv, NEW e \in Ends, QueueStep(e) \/ SecondaryStep(e) \/ ClientCall(e)
    PROVE  \A q \in Processes \ {ProcessOf[e]} : Untouched(q)
<1> DEFINE p == ProcessOf[e]
<1>1. p \in Processes /\ \A q \in Processes \ {p} : e \notin EndsOf(q)
  BY DEF EndsOf
<1>2. \A q : EndsOf(q) \subseteq Ends
  BY DEF EndsOf
<1> USE DEF TypeInv, StackType, RunLoopType, ToDispatchType, ScheduledType, PendingType, Untouched
<1>3. ASSUME ProcessIncomingSyncReply(e) PROVE \A q \in Processes \ {p} : Untouched(q)
  BY <1>1, <1>2, <1>3 DEF ProcessIncomingSyncReply
<1>4. ASSUME ProcessMarkedMessage(e) PROVE \A q \in Processes \ {p} : Untouched(q)
  BY <1>1, <1>2, <1>4 DEF ProcessMarkedMessage, syncVars
<1>5. ASSUME ProcessOtherMessage(e) PROVE \A q \in Processes \ {p} : Untouched(q)
  BY <1>1, <1>2, <1>5 DEF ProcessOtherMessage, syncVars
<1>6. ASSUME PlatformInvalidate(e) PROVE \A q \in Processes \ {p} : Untouched(q)
  BY <1>6 DEF PlatformInvalidate, processVars, syncVars
<1>7. ASSUME ConnectionDidClose(e) PROVE \A q \in Processes \ {p} : Untouched(q)
  BY <1>1, <1>2, <1>7 DEF ConnectionDidClose, PostDidClose
<1>8. ASSUME SecondaryStep(e) PROVE \A q \in Processes \ {p} : Untouched(q)
  BY <1>8 DEF SecondaryStep, SecondarySend, SecondaryReturn, processVars
<1>9. ASSUME NEW kind, NEW wanted, SendAsync(e, kind, wanted) PROVE \A q \in Processes \ {p} : Untouched(q)
  BY <1>9 DEF SendAsync, syncVars
<1>10. ASSUME SendSync(e) PROVE \A q \in Processes \ {p} : Untouched(q)
  BY <1>1, <1>2, <1>10 DEF SendSync, Push
<1>11. ASSUME FailToSendSync(e) PROVE \A q \in Processes \ {p} : Untouched(q)
  BY <1>1, <1>11, ExitTouches DEF FailToSendSync
<1>12. ASSUME Invalidate(e) PROVE \A q \in Processes \ {p} : Untouched(q)
  BY <1>12 DEF Invalidate, processVars, syncVars
<1>13. ASSUME SecondaryRegister(e) PROVE \A q \in Processes \ {p} : Untouched(q)
  BY <1>13 DEF SecondaryRegister
<1>14. ASSUME StartWait(e) PROVE \A q \in Processes \ {p} : Untouched(q)
  BY <1>1, <1>2, <1>14 DEF StartWait, Push, syncVars
<1>15. QED
  BY <1>3, <1>4, <1>5, <1>6, <1>7, <1>8, <1>9, <1>10, <1>11, <1>12, <1>13, <1>14 DEF QueueStep, ClientCall

(* An own step with frames fs pushed, or put in the place of the top frame. *)
LEMMA QuietPush ==
    ASSUME TypeInv, TypeInv', NEW p \in Processes, ProcessInv(p), alive' = alive, pending' = pending,
           toDispatch' = toDispatch, scheduled' = scheduled,
           \A e : HasTask(p, e) => HasTask(p, e)',
           NEW f \in Frames(p), PlainFrame(f), f.at \notin {"check", "wait"}, Push(p, <<f>>)
    PROVE  ProcessInv(p)'
<1>1. PICK fs \in Seq(Frames(p)) : fs = <<f>>
  BY ShortSequences
<1>2. Len(fs) = 1 /\ fs[1] = f
  BY <1>1
<1>3. Len(stack[p]) \in Nat
  BY DEF TypeInv, StackType
<1>4. Edited(stack[p], stack'[p], Len(stack[p]), fs)
  BY <1>1, StackOps DEF TypeInv
<1>5. \A i \in 1..Len(fs) : PlainFrame(fs[i]) /\ fs[i].at \notin {"check", "wait"}
  BY <1>2
<1>6. QED
  BY <1>3, <1>4, <1>5, QuietStep

LEMMA QuietTop ==
    ASSUME TypeInv, TypeInv', NEW p \in Processes, ProcessInv(p), alive' = alive, pending' = pending,
           toDispatch' = toDispatch, scheduled' = scheduled, runLoop' = runLoop,
           stack[p] # <<>>, Last(stack[p]).at \notin {"swap", "check", "wait"},
           \/ Pop(p)
           \/ \E f \in Frames(p) : PlainFrame(f) /\ f.at \notin {"check", "wait"} /\ SetTop(p, f)
    PROVE  ProcessInv(p)'
<1>1. stack[p] \in Seq(Frames(p)) /\ \A e : HasTask(p, e) => HasTask(p, e)'
  BY DEF TypeInv, StackType, HasTask
<1>2. PICK n \in Nat : n = Len(stack[p]) - 1
  BY <1>1, LenOfFront
<1>3. CASE Pop(p)
  <2>1. PICK fs \in Seq(Frames(p)) : fs = <<>>
    BY ShortSequences
  <2>2. Edited(stack[p], stack'[p], n, fs)
    BY <1>2, <1>3, <2>1, StackOps DEF TypeInv
  <2>3. \A i \in 1..Len(fs) : PlainFrame(fs[i]) /\ fs[i].at \notin {"check", "wait"}
    BY <2>1
  <2>4. QED
    BY <1>1, <1>2, <2>2, <2>3, QuietStep
<1>4. CASE \E f \in Frames(p) : PlainFrame(f) /\ f.at \notin {"check", "wait"} /\ SetTop(p, f)
  <2>1. PICK f \in Frames(p) : PlainFrame(f) /\ f.at \notin {"check", "wait"} /\ SetTop(p, f)
    BY <1>4
  <2>2. PICK fs \in Seq(Frames(p)) : fs = <<f>>
    BY ShortSequences
  <2>3. Edited(stack[p], stack'[p], n, fs)
    BY <1>2, <2>1, <2>2, StackOps DEF TypeInv
  <2>4. Len(fs) = 1 /\ fs[1] = f
    BY <2>2
  <2>5. \A i \in 1..Len(fs) : PlainFrame(fs[i]) /\ fs[i].at \notin {"check", "wait"}
    BY <2>1, <2>4
  <2>6. QED
    BY <1>1, <1>2, <2>3, <2>5, QuietStep
<1>5. QED
  BY <1>3, <1>4

(* waitForSyncReply() goes round its loop, or waits.                        *)
LEMMA LoopStep ==
    ASSUME TypeInv, TypeInv', NEW p \in Processes, ProcessInv(p), alive' = alive, pending' = pending,
           toDispatch' = toDispatch, scheduled' = scheduled, runLoop' = runLoop,
           stack[p] # <<>>, Last(stack[p]).at \in {"check", "wait"},
           NEW g \in Frames(p), g.at \in {"check", "wait"}, g.end = Last(stack[p]).end, g.id = Last(stack[p]).id,
           \/ SetTop(p, g)
           \/ stack' = [stack EXCEPT ![p] = Front(@) \o <<g, SwapFrame(Null)>>]
    PROVE  ProcessInv(p)'
<1>1. stack[p] \in Seq(Frames(p)) /\ \A e : HasTask(p, e) => HasTask(p, e)'
  BY DEF TypeInv, StackType, HasTask
<1>2. PICK n \in Nat : n = Len(stack[p]) - 1
  BY <1>1, LenOfFront
<1>3. SwapFrame(Null) \in Frames(p)
  BY DEF Frames, SwapFrames, SwapFrame
<1>4. PICK fs \in Seq(Frames(p)) :
         /\ Edited(stack[p], stack'[p], n, fs) /\ Len(fs) \in Nat /\ Len(fs) >= 1 /\ fs[1] = g
         /\ \A i \in 2..Len(fs) : fs[i] = SwapFrame(Null)
  <2>1. CASE SetTop(p, g)
    <3>1. PICK fs \in Seq(Frames(p)) : fs = <<g>>
      BY ShortSequences
    <3>2. Edited(stack[p], stack'[p], n, fs)
      BY <1>2, <2>1, <3>1, StackOps DEF TypeInv
    <3>3. Len(fs) = 1 /\ fs[1] = g
      BY <3>1
    <3>4. QED
      BY <3>2, <3>3
  <2>2. CASE stack' = [stack EXCEPT ![p] = Front(@) \o <<g, SwapFrame(Null)>>]
    <3>1. PICK fs \in Seq(Frames(p)) : fs = <<g, SwapFrame(Null)>>
      BY <1>3, ShortSequences
    <3>2. stack'[p] = Front(stack[p]) \o fs
      BY <2>2, <3>1 DEF TypeInv, StackType
    <3>3. Edited(stack[p], stack'[p], n, fs)
      BY <1>1, <1>2, <3>2, FrontEdited
    <3>4. Len(fs) = 2 /\ fs[1] = g /\ fs[2] = SwapFrame(Null)
      BY <3>1
    <3>5. QED
      BY <3>3, <3>4
  <2>3. QED
    BY <2>1, <2>2
<1>5. \A i \in 1..Len(fs) : PlainFrame(fs[i])
  BY <1>4 DEF PlainFrame
<1>6. StrandInv(p)'
  BY <1>1, <1>2, <1>4, <1>5, QuietStrand DEF ProcessInv
<1>7. ASSUME NEW e \in EndsOf(p) PROVE PendingOK(p, e)'
  <2>1. Waits(stack[p][Len(stack[p])], e) <=> Waits(g, e)
    BY DEF Waits, Last
  <2>2. g.id = stack[p][Len(stack[p])].id
    BY DEF Last
  <2>3. \A i \in 2..Len(fs) : ~Waits(fs[i], e)
    BY <1>4 DEF Waits, SwapFrame
  <2>4. SameWaits(stack[p], stack'[p], e)
    BY <1>1, <1>2, <1>4, <2>1, <2>2, <2>3, LoopKeepsWaits
  <2>5. PendingOK(p, e) /\ pending'[e] = pending[e]
    BY DEF ProcessInv
  <2>6. QED
    BY <2>4, <2>5, SameWaitsKeep DEF TypeInv
<1>8. QED
  BY <1>6, <1>7 DEF ProcessInv

LEMMA SendSyncKeeps ==
    ASSUME TypeInv, TypeInv', NEW e \in Ends, ProcessInv(ProcessOf[e]), SendSync(e)
    PROVE  ProcessInv(ProcessOf[e])'
<1>1. PICK p \in Processes : p = ProcessOf[e] /\ e \in EndsOf(p)
  BY DEF EndsOf
<1>2. /\ alive[p] /\ alive' = alive /\ toDispatch' = toDispatch /\ scheduled' = scheduled /\ runLoop' = runLoop
      /\ nextId[e] \in Nat /\ Push(p, <<SyncFrame("check", e, nextId[e]), SwapFrame(Null)>>)
  BY <1>1 DEF SendSync, MaySend, ClientRuns, TypeInv, CounterTypes
<1>3. PICK fs \in Seq(Frames(p)) : fs = <<SyncFrame("check", e, nextId[e]), SwapFrame(Null)>>
  <2>1. SyncFrame("check", e, nextId[e]) \in Frames(p) /\ SwapFrame(Null) \in Frames(p)
    BY <1>1, <1>2, FramesMade
  <2>2. QED
    BY <2>1, ShortSequences
<1>4. Len(fs) = 2 /\ fs[1] = SyncFrame("check", e, nextId[e]) /\ fs[2] = SwapFrame(Null)
  BY <1>3
<1>5. Edited(stack[p], stack'[p], Len(stack[p]), fs) /\ Len(stack[p]) \in Nat
  <2>1. Push(p, fs)
    BY <1>2, <1>3
  <2>2. QED
    BY <2>1, StackOps DEF TypeInv, StackType
<1>6. \A d : HasTask(p, d) => HasTask(p, d)'
  BY <1>2 DEF HasTask
<1>7. \A i \in 1..Len(fs) : PlainFrame(fs[i])
  BY <1>4 DEF PlainFrame, SyncFrame
<1>8. StrandInv(p)'
  BY <1>1, <1>2, <1>5, <1>6, <1>7, QuietStrand DEF ProcessInv
<1>9. PendingOK(p, e)'
  <2>1. PICK x \in Requests : x = [id |-> nextId[e], reply |-> FALSE]
    BY <1>2 DEF Requests
  <2>2. pending'[e] = Append(pending[e], x)
    BY <2>1 DEF SendSync, TypeInv, PendingType
  <2>3. Waits(fs[1], e) /\ ~Waits(fs[2], e) /\ x.id = fs[1].id
    BY <1>4, <2>1 DEF Waits, SyncFrame, SwapFrame
  <2>4. QED
    BY <1>1, <1>2, <1>4, <1>5, <2>2, <2>3, SendKeeps DEF ProcessInv, TypeInv
<1>10. ASSUME NEW d \in EndsOf(p), d # e PROVE PendingOK(p, d)'
  <2>1. pending'[d] = pending[d]
    BY <1>10 DEF SendSync, TypeInv, PendingType, EndsOf
  <2>2. \A i \in 1..Len(fs) : ~Waits(fs[i], d)
    BY <1>4, <1>10 DEF Waits, SyncFrame, SwapFrame
  <2>3. SameWaits(stack[p], stack'[p], d)
    BY <1>5, <2>2, EditKeepsWaits DEF TypeInv, StackType
  <2>4. PendingOK(p, d)
    BY <1>1 DEF ProcessInv
  <2>5. QED
    BY <1>2, <2>1, <2>3, <2>4, SameWaitsKeep DEF TypeInv
<1>11. QED
  BY <1>1, <1>8, <1>9, <1>10 DEF ProcessInv

LEMMA EndSyncKeeps ==
    ASSUME TypeInv, TypeInv', NEW p \in Processes, ProcessInv(p), alive[p],
           stack[p] # <<>>, Last(stack[p]).at \in {"check", "wait"},
           NEW e \in EndsOf(p), e = Last(stack[p]).end, NEW b, EndSync(p, e, b)
    PROVE  ProcessInv(p)'
<1>1. CASE Exit(p)
  BY <1>1, ExitTouches, DeadKeeps
<1>2. CASE /\ PopPending(e) /\ Pop(p)
           /\ UNCHANGED <<alive, runLoop, toDispatch, scheduled, semaphore, connected, incoming,
                          wire, secondary, waiting>>
  <2>1. stack[p] \in Seq(Frames(p))
    BY DEF TypeInv, StackType
  <2>2. PICK n \in Nat : n = Len(stack[p]) - 1
    BY <2>1, LenOfFront
  <2>3. PICK fs \in Seq(Frames(p)) : fs = <<>>
    BY ShortSequences
  <2>4. Edited(stack[p], stack'[p], n, fs) /\ Edited(stack[p], stack'[p], Len(stack[p]) - 1, <<>>)
    BY <1>2, <2>2, <2>3, StackOps DEF TypeInv
  <2>5. \A i \in 1..Len(fs) : FALSE
    BY <2>3
  <2>6. StrandInv(p)'
    <3>1. \A d : HasTask(p, d) => HasTask(p, d)'
      BY <1>2 DEF HasTask
    <3>2. QED
      BY <1>2, <2>2, <2>4, <2>5, <3>1, QuietStrand DEF ProcessInv
  <2>7. PendingOK(p, e)'
    <3>1. pending'[e] = Front(pending[e])
      BY <1>2 DEF PopPending, TypeInv, PendingType, EndsOf
    <3>2. Waits(Last(stack[p]), e)
      BY DEF Waits
    <3>3. QED
      BY <2>4, <3>1, <3>2, EndKeeps DEF ProcessInv, TypeInv
  <2>8. ASSUME NEW d \in EndsOf(p), d # e PROVE PendingOK(p, d)'
    <3>1. pending'[d] = pending[d]
      BY <1>2, <2>8 DEF PopPending, TypeInv, PendingType, EndsOf
    <3>2. ~Waits(stack[p][Len(stack[p])], d)
      BY <2>8 DEF Waits, Last
    <3>3. SameWaits(stack[p], stack'[p], d)
      BY <2>1, <2>2, <2>4, <2>5, <3>2, EditKeepsWaits
    <3>4. PendingOK(p, d)
      BY DEF ProcessInv
    <3>5. QED
      BY <1>2, <3>1, <3>3, <3>4, SameWaitsKeep DEF TypeInv
  <2>9. QED
    BY <2>6, <2>7, <2>8 DEF ProcessInv
<1>3. QED
  BY <1>1, <1>2 DEF EndSync

(* A step on what is set aside leaves the requests as they are.             *)
LEMMA BatchKeepsRequests ==
    ASSUME TypeInv, TypeInv', NEW p \in Processes, ProcessInv(p), alive' = alive, pending' = pending,
           NEW n \in Nat, NEW fs \in Seq(Frames(p)), Edited(stack[p], stack'[p], n, fs),
           \/ n = Len(stack[p])
           \/ n = Len(stack[p]) - 1 /\ Last(stack[p]).at \in {"swap", "batch"},
           \A i \in 1..Len(fs) : fs[i].at \notin {"check", "wait"}
    PROVE  \A e \in EndsOf(p) : PendingOK(p, e)'
<1> SUFFICES ASSUME NEW e \in EndsOf(p) PROVE PendingOK(p, e)'
  OBVIOUS
<1>1. stack[p] \in Seq(Frames(p)) /\ \A i \in 1..Len(fs) : ~Waits(fs[i], e)
  BY DEF TypeInv, StackType, Waits
<1>2. n = Len(stack[p]) \/ (n = Len(stack[p]) - 1 /\ ~Waits(stack[p][Len(stack[p])], e))
  BY DEF Waits, Last
<1>3. SameWaits(stack[p], stack'[p], e)
  BY <1>1, <1>2, EditKeepsWaits
<1>4. PendingOK(p, e)
  BY DEF ProcessInv
<1>5. QED
  BY <1>3, <1>4, SameWaitsKeep DEF TypeInv

LEMMA SwapKeeps ==
    ASSUME TypeInv, TypeInv', NEW p \in Processes, ProcessInv(p), Swap(p)
    PROVE  ProcessInv(p)'
<1> DEFINE f == Last(stack[p])
<1>1. /\ alive[p] /\ stack[p] # <<>> /\ stack[p] \in Seq(Frames(p)) /\ f \in Frames(p) /\ f.at = "swap"
      /\ f.end \in EndsOf(p) \cup {Null}
  BY TopFrame, FrameFields DEF Swap, IsTop, TypeInv, StackType
<1>2. PICK n \in Nat : n = Len(stack[p]) - 1 /\ Len(stack[p]) = n + 1
  BY <1>1, LenOfFront
<1>3. /\ alive' = alive /\ pending' = pending /\ scheduled' = scheduled /\ runLoop' = runLoop
      /\ toDispatch'[p] = <<>> /\ SetTop(p, BatchFrame(f.end, toDispatch[p], <<>>))
  BY DEF Swap, syncVars, TypeInv, ToDispatchType
<1>4. toDispatch[p] \in Seq(Entries(p)) /\ <<>> \in Seq(Entries(p))
  BY DEF TypeInv, ToDispatchType
<1>5. PICK g \in Frames(p) : g = BatchFrame(f.end, toDispatch[p], <<>>)
  BY <1>1, <1>4, BatchMade
<1>6. PICK fs \in Seq(Frames(p)) : fs = <<g>>
  BY ShortSequences
<1>7. Len(fs) = 1 /\ fs[1] = g
  BY <1>6
<1>8. Edited(stack[p], stack'[p], n, fs)
  BY <1>1, <1>2, <1>3, <1>5, <1>6, StackOps DEF TypeInv
<1>9. g.at = "batch" /\ g.end = f.end /\ g.batch = toDispatch[p] /\ g.back = <<>>
  BY <1>5 DEF BatchFrame
<1>10. TasksComing(p) /\ FramesOK(p) /\ EntriesOK(p)
  BY <1>1 DEF ProcessInv, StrandInv
<1>11. stack[p][n + 1] = f /\ n + 1 \in 1..Len(stack[p])
  BY <1>2 DEF Last
<1>12. f.end # Null => n + 1 = 1
  <2>1. FrameOK(scheduled[p], stack[p][n + 1], n + 1)
    BY <1>10, <1>11 DEF FramesOK
  <2>2. QED
    BY <1>1, <1>11, <2>1 DEF FrameOK
<1>13. FrameOK(scheduled'[p], g, n + 1)
  <2>1. ASSUME NEW k \in 1..Len(g.batch), g.end # Null, g.batch[k].end \notin scheduled'[p]
        PROVE  g.batch[k].end = g.end
    <3>1. stack[p][1] = SwapFrame(g.batch[k].end)
      BY <1>3, <1>9, <1>10, <2>1 DEF EntriesOK
    <3>2. stack[p][1] = f
      BY <1>9, <1>11, <1>12, <2>1
    <3>3. QED
      BY <1>9, <3>1, <3>2 DEF SwapFrame
  <2>2. \A k \in 1..Len(g.back) : FALSE
    BY <1>9
  <2>3. QED
    BY <1>9, <1>12, <2>1, <2>2 DEF FrameOK
<1>14. FramesOK(p)'
  <2>1. \A i \in 1..Len(fs) : FrameOK(scheduled'[p], fs[i], n + i)
    BY <1>7, <1>13
  <2>2. Len(stack[p]) \in Nat /\ n <= Len(stack[p])
    BY <1>2
  <2>3. QED
    BY <1>3, <1>8, <1>10, <2>1, <2>2, FramesKept
<1>15. TasksComing(p)' /\ EntriesOK(p)'
  <2>1. \A k \in 1..Len(toDispatch'[p]) : FALSE
    BY <1>3
  <2>2. QED
    BY <1>3, <1>10, <2>1 DEF TasksComing, HasTask, EntriesOK
<1>16. \A e \in EndsOf(p) : PendingOK(p, e)'
  <2>1. \A i \in 1..Len(fs) : fs[i].at \notin {"check", "wait"}
    BY <1>7, <1>9
  <2>2. QED
    BY <1>1, <1>2, <1>3, <1>8, <2>1, BatchKeepsRequests
<1>17. QED
  BY <1>14, <1>15, <1>16 DEF ProcessInv, StrandInv

LEMMA DispatchFromBatchKeeps ==
    ASSUME TypeInv, TypeInv', NEW p \in Processes, ProcessInv(p), DispatchFromBatch(p)
    PROVE  ProcessInv(p)'
<1> DEFINE f == Last(stack[p])
<1>1. /\ alive[p] /\ stack[p] # <<>> /\ stack[p] \in Seq(Frames(p)) /\ f \in Frames(p) /\ f.at = "batch"
      /\ f.end \in EndsOf(p) \cup {Null} /\ f.batch \in Seq(Entries(p)) /\ f.back \in Seq(Entries(p))
      /\ f.batch # <<>>
  BY TopFrame, FrameFields DEF DispatchFromBatch, IsTop, TypeInv, StackType
<1>2. PICK n \in Nat : n = Len(stack[p]) - 1 /\ Len(stack[p]) = n + 1
  BY <1>1, LenOfFront
<1>3. /\ alive' = alive /\ pending' = pending /\ scheduled' = scheduled /\ runLoop' = runLoop
      /\ toDispatch' = toDispatch
  BY DEF DispatchFromBatch, syncVars
<1>4. TasksComing(p) /\ FramesOK(p) /\ EntriesOK(p)
  BY <1>1 DEF ProcessInv, StrandInv
<1>5. stack[p][n + 1] = f /\ n + 1 \in 1..Len(stack[p])
  BY <1>2 DEF Last
<1>6. FrameOK(scheduled[p], f, n + 1)
  BY <1>4, <1>5 DEF FramesOK
<1>7. PICK entry \in Entries(p) : entry = Head(f.batch) /\ entry = f.batch[1]
  BY <1>1
<1>8. PICK rest \in Seq(Entries(p)) :
         /\ rest = Tail(f.batch)
         /\ \A k \in 1..Len(rest) : \E j \in 1..Len(f.batch) : rest[k] = f.batch[j]
  <2>1. Tail(f.batch) \in Seq(Entries(p))
    BY <1>1
  <2>2. \A k \in 1..Len(Tail(f.batch)) : k + 1 \in 1..Len(f.batch) /\ Tail(f.batch)[k] = f.batch[k + 1]
    BY <1>1
  <2>3. PICK t : t = Tail(f.batch)
    OBVIOUS
  <2>4. \A k \in 1..Len(t) : \E j \in 1..Len(f.batch) : t[k] = f.batch[j]
    BY <2>2, <2>3
  <2>5. t \in Seq(Entries(p))
    BY <2>1, <2>3
  <2>6. QED
    BY <2>3, <2>4, <2>5, Zenon
<1>9. entry.end \in EndsOf(p) /\ entry.msg \in MessageType /\ Append(f.back, entry) \in Seq(Entries(p))
  BY <1>1, <1>7 DEF Entries
<1>10. PICK back \in Seq(Entries(p)), fs \in Seq(Frames(p)) :
          /\ Edited(stack[p], stack'[p], n, fs) /\ Len(fs) \in 1..2
          /\ fs[1] = BatchFrame(f.end, rest, back)
          /\ Len(fs) = 2 => fs[2].at = "handler"
          /\ \/ back = f.back
             \/ ~Allowed(f, entry) /\ back = Append(f.back, entry)
  <2>1. CASE ~Allowed(f, entry) /\ SetTop(p, BatchFrame(f.end, rest, Append(f.back, entry)))
    <3>1. PICK back \in Seq(Entries(p)) : back = Append(f.back, entry)
      BY <1>9
    <3>2. PICK g \in Frames(p) : g = BatchFrame(f.end, rest, back)
      BY <1>1, BatchMade
    <3>3. PICK fs \in Seq(Frames(p)) : fs = <<g>>
      BY ShortSequences
    <3>4. Edited(stack[p], stack'[p], n, fs)
      BY <1>1, <1>2, <2>1, <3>1, <3>2, <3>3, StackOps DEF TypeInv
    <3>5. Len(fs) = 1 /\ fs[1] = g
      BY <3>3
    <3>6. Len(fs) \in 1..2 /\ Len(fs) # 2
      BY <3>5
    <3>7. QED
      BY <2>1, <3>1, <3>2, <3>4, <3>5, <3>6, Zenon
  <2>2. CASE SetTop(p, BatchFrame(f.end, rest, f.back))
    <3>1. PICK g \in Frames(p) : g = BatchFrame(f.end, rest, f.back)
      BY <1>1, BatchMade
    <3>2. PICK fs \in Seq(Frames(p)) : fs = <<g>>
      BY ShortSequences
    <3>3. Edited(stack[p], stack'[p], n, fs)
      BY <1>1, <1>2, <2>2, <3>1, <3>2, StackOps DEF TypeInv
    <3>4. Len(fs) = 1 /\ fs[1] = g
      BY <3>2
    <3>5. QED
      BY <1>1, <3>1, <3>3, <3>4
  <2>3. CASE stack' = [stack EXCEPT ![p] = Front(@) \o
                  <<BatchFrame(f.end, rest, f.back), HandlerFrame(entry.end, entry.msg)>>]
    <3>1. PICK g \in Frames(p) : g = BatchFrame(f.end, rest, f.back)
      BY <1>1, BatchMade
    <3>2. PICK h \in Frames(p) : h = HandlerFrame(entry.end, entry.msg)
      BY <1>9, FramesMade
    <3>3. PICK fs \in Seq(Frames(p)) : fs = <<g, h>>
      BY ShortSequences
    <3>4. stack'[p] = Front(stack[p]) \o fs
      BY <2>3, <3>1, <3>2, <3>3 DEF TypeInv, StackType
    <3>5. Edited(stack[p], stack'[p], n, fs)
      BY <1>1, <1>2, <3>4, FrontEdited
    <3>6. Len(fs) = 2 /\ fs[1] = g /\ fs[2] = h
      BY <3>3
    <3>7. h.at = "handler"
      BY <3>2 DEF HandlerFrame
    <3>8. QED
      BY <1>1, <3>1, <3>5, <3>6, <3>7
  <2>4. QED
    BY <1>7, <1>8, <2>1, <2>2, <2>3 DEF DispatchFromBatch
<1>11. PICK g : g = fs[1] /\ g.at = "batch" /\ g.end = f.end /\ g.batch = rest /\ g.back = back
  BY <1>10 DEF BatchFrame
<1>12. FrameOK(scheduled'[p], g, n + 1)
  <2>1. ASSUME NEW k \in 1..Len(back) PROVE back[k].end \in scheduled[p]
    <3>1. CASE back = f.back
      BY <1>1, <1>6, <3>1 DEF FrameOK
    <3>2. CASE ~Allowed(f, entry) /\ back = Append(f.back, entry)
      <4>1. entry.end \in scheduled[p]
        <5>1. 1 \in 1..Len(f.batch)
          BY <1>1
        <5>2. QED
          BY <1>1, <1>6, <1>7, <3>2, <5>1 DEF FrameOK, Allowed
      <4>2. \/ k \in 1..Len(f.back) /\ back[k] = f.back[k]
            \/ back[k] = entry
        BY <1>1, <1>7, <3>2
      <4>3. QED
        BY <1>1, <1>6, <4>1, <4>2 DEF FrameOK
    <3>3. QED
      BY <1>10, <3>1, <3>2
  <2>2. ASSUME NEW k \in 1..Len(rest) PROVE f.end = Null \/ rest[k].end = f.end \/ rest[k].end \in scheduled[p]
    <3>1. PICK j \in 1..Len(f.batch) : rest[k] = f.batch[j]
      BY <1>8
    <3>2. f.end = Null \/ f.batch[j].end = f.end \/ f.batch[j].end \in scheduled[p]
      BY <1>1, <1>6 DEF FrameOK
    <3>3. QED
      BY <3>1, <3>2
  <2>3. f.end # Null => n + 1 = 1
    BY <1>1, <1>6 DEF FrameOK
  <2>4. QED
    BY <1>3, <1>11, <2>1, <2>2, <2>3 DEF FrameOK
<1>13. Len(stack[p]) \in Nat /\ n <= Len(stack[p])
  BY <1>2
<1>14. \A i \in 1..Len(fs) : fs[i].at \notin {"check", "wait"} /\ FrameOK(scheduled'[p], fs[i], n + i)
  <2>1. Len(fs) = 2 => FrameOK(scheduled'[p], fs[2], n + 2)
    BY <1>10 DEF FrameOK
  <2>2. fs[1].at = "batch" /\ FrameOK(scheduled'[p], fs[1], n + 1)
    BY <1>11, <1>12
  <2>3. \A i \in 1..Len(fs) : i = 1 \/ (i = 2 /\ Len(fs) = 2)
    <3>1. Len(fs) \in 1..2
      BY <1>10, Zenon
    <3>2. \A l \in 1..2 : \A i \in 1..l : i = 1 \/ (i = 2 /\ l = 2)
      OBVIOUS
    <3>3. QED
      BY <3>1, <3>2, Zenon
  <2>4. QED
    BY <1>10, <2>1, <2>2, <2>3
<1>15. FramesOK(p)'
  BY <1>3, <1>4, <1>10, <1>13, <1>14, FramesKept
<1>16. EntriesOK(p)'
  BY <1>1, <1>2, <1>3, <1>4, <1>10, EntriesKept DEF TypeInv
<1>17. TasksComing(p)'
  BY <1>3, <1>4 DEF TasksComing, HasTask
<1>18. \A e \in EndsOf(p) : PendingOK(p, e)'
  BY <1>1, <1>2, <1>3, <1>10, <1>14, BatchKeepsRequests
<1>19. QED
  BY <1>15, <1>16, <1>17, <1>18 DEF ProcessInv, StrandInv

LEMMA FinishBatchKeeps ==
    ASSUME TypeInv, TypeInv', NEW p \in Processes, ProcessInv(p), FinishBatch(p)
    PROVE  ProcessInv(p)'
<1> DEFINE f == Last(stack[p])
<1>1. /\ alive[p] /\ stack[p] # <<>> /\ stack[p] \in Seq(Frames(p)) /\ f \in Frames(p) /\ f.at = "batch"
      /\ f.back \in Seq(Entries(p))
  BY TopFrame, FrameFields DEF FinishBatch, IsTop, TypeInv, StackType
<1>2. PICK n \in Nat : n = Len(stack[p]) - 1 /\ Len(stack[p]) = n + 1
  BY <1>1, LenOfFront
<1>3. /\ alive' = alive /\ pending' = pending /\ scheduled' = scheduled /\ runLoop' = runLoop
      /\ toDispatch'[p] = toDispatch[p] \o f.back /\ Pop(p)
  BY DEF FinishBatch, syncVars, TypeInv, ToDispatchType
<1>4. TasksComing(p) /\ FramesOK(p) /\ EntriesOK(p)
  BY <1>1 DEF ProcessInv, StrandInv
<1>5. \A k \in 1..Len(f.back) : f.back[k].end \in scheduled[p]
  <2>1. stack[p][n + 1] = f /\ n + 1 \in 1..Len(stack[p])
    BY <1>2 DEF Last
  <2>2. FrameOK(scheduled[p], f, n + 1)
    BY <1>4, <2>1 DEF FramesOK
  <2>3. QED
    BY <1>1, <2>2 DEF FrameOK
<1>6. PICK fs \in Seq(Frames(p)) : fs = <<>>
  BY ShortSequences
<1>7. Edited(stack[p], stack'[p], n, fs)
  BY <1>1, <1>2, <1>3, <1>6, StackOps DEF TypeInv
<1>8. \A i \in 1..Len(fs) : FALSE
  BY <1>6
<1>9. Len(stack[p]) \in Nat /\ n <= Len(stack[p])
  BY <1>2
<1>10. FramesOK(p)'
  BY <1>3, <1>4, <1>7, <1>8, <1>9, FramesKept
<1>11. ASSUME NEW k \in 1..Len(toDispatch'[p])
       PROVE  \/ toDispatch'[p][k].end \in scheduled'[p]
              \/ \E j \in 1..Len(toDispatch[p]) : toDispatch[p][j] = toDispatch'[p][k]
  <2>1. PICK m \in Nat : m = Len(toDispatch[p])
    <3>1. toDispatch[p] \in Seq(Entries(p))
      BY DEF TypeInv, ToDispatchType
    <3>2. Len(toDispatch[p]) \in Nat
      BY <3>1
    <3>3. QED
      BY <3>2, Zenon
  <2>2. /\ k \in 1..(m + Len(f.back)) /\ Len(f.back) \in Nat
        /\ \A j \in 1..m : toDispatch'[p][j] = toDispatch[p][j]
        /\ \A j \in 1..Len(f.back) : toDispatch'[p][m + j] = f.back[j]
    <3>1. toDispatch[p] \in Seq(Entries(p))
      BY DEF TypeInv, ToDispatchType
    <3>2. PICK b \in Seq(Entries(p)) : b = f.back
      BY <1>1, Zenon
    <3>3. PICK r : r = toDispatch[p] \o b
      OBVIOUS
    <3>4. /\ Len(r) = m + Len(b) /\ Len(b) \in Nat
          /\ \A j \in 1..m : r[j] = toDispatch[p][j]
          /\ \A j \in 1..Len(b) : r[m + j] = b[j]
      BY <2>1, <3>1, <3>3
    <3>5. toDispatch'[p] = r
      BY <1>3, <3>2, <3>3
    <3>6. k \in 1..Len(r)
      BY <3>5
    <3>7. QED
      BY <3>2, <3>4, <3>5, <3>6, Zenon
  <2>3. CASE k \in 1..m
    BY <2>1, <2>2, <2>3
  <2>4. CASE k \notin 1..m
    <3>1. k - m \in 1..Len(f.back) /\ m + (k - m) = k
      <4>1. PICK l \in Nat : l = Len(f.back)
        BY <2>2, Zenon
      <4>2. k \in 1..(m + l)
        BY <2>2, <4>1
      <4>3. k - m \in 1..l /\ m + (k - m) = k
        BY <2>4, <4>2
      <4>4. QED
        BY <4>1, <4>3
    <3>2. toDispatch'[p][m + (k - m)] = f.back[k - m] /\ f.back[k - m].end \in scheduled[p]
      BY <1>5, <2>2, <3>1
    <3>3. QED
      BY <1>3, <3>1, <3>2
  <2>5. QED
    BY <2>3, <2>4
<1>12. EntriesOK(p)'
  <2>1. StackType /\ (n = Len(stack[p]) - 1 /\ f.at # "swap") /\ scheduled[p] \subseteq scheduled'[p]
    BY <1>1, <1>2, <1>3 DEF TypeInv
  <2>2. QED
    BY <1>4, <1>7, <1>11, <2>1, EntriesKept
<1>13. TasksComing(p)'
  BY <1>3, <1>4 DEF TasksComing, HasTask
<1>14. \A e \in EndsOf(p) : PendingOK(p, e)'
  BY <1>1, <1>2, <1>3, <1>7, <1>8, BatchKeepsRequests
<1>15. QED
  BY <1>10, <1>12, <1>13, <1>14 DEF ProcessInv, StrandInv

LEMMA DispatchMarkedKeeps ==
    ASSUME TypeInv, TypeInv', NEW p \in Processes, ProcessInv(p), NEW e \in EndsOf(p), DispatchMarked(p, e)
    PROVE  ProcessInv(p)'
<1>1. /\ alive[p] /\ stack[p] = <<>> /\ NextTask(p, "marked", e) /\ Push(p, <<SwapFrame(e)>>)
      /\ alive' = alive /\ pending' = pending /\ toDispatch' = toDispatch
      /\ scheduled'[p] = scheduled[p] \ {e}
  BY DEF DispatchMarked, NextTask, syncVars, TypeInv, ScheduledType
<1>2. TasksComing(p) /\ FramesOK(p) /\ EntriesOK(p)
  BY <1>1 DEF ProcessInv, StrandInv
<1>3. TasksComing(p)'
  <2>1. \A d \in scheduled'[p] : HasTask(p, d) /\ d # e
    BY <1>1, <1>2 DEF TasksComing
  <2>2. QED
    BY <1>1, <2>1, PopKeepsTasks DEF TasksComing
<1>4. PICK fs \in Seq(Frames(p)) : fs = <<SwapFrame(e)>>
  <2>1. SwapFrame(e) \in Frames(p)
    BY FramesMade
  <2>2. QED
    BY <2>1, ShortSequences
<1>5. Len(fs) = 1 /\ fs[1] = SwapFrame(e) /\ stack[p] \in Seq(Frames(p)) /\ Len(stack[p]) = 0
  BY <1>1, <1>4 DEF TypeInv, StackType
<1>6. Edited(stack[p], stack'[p], 0, fs)
  <2>1. Push(p, fs)
    BY <1>1, <1>4
  <2>2. QED
    BY <1>5, <2>1, StackOps DEF TypeInv
<1>7. Len(stack'[p]) = 1 /\ stack'[p][1] = SwapFrame(e) /\ stack'[p] # <<>>
  BY <1>5, <1>6 DEF Edited
<1>8. FramesOK(p)'
  BY <1>7 DEF FramesOK, FrameOK, SwapFrame
<1>9. EntriesOK(p)'
  BY <1>1, <1>2, <1>7 DEF EntriesOK
<1>10. \A d \in EndsOf(p) : PendingOK(p, d)'
  <2>1. \A i \in 1..Len(fs) : fs[i].at \notin {"check", "wait"}
    BY <1>5 DEF SwapFrame
  <2>2. QED
    BY <1>1, <1>5, <1>6, <2>1, BatchKeepsRequests
<1>11. QED
  BY <1>3, <1>8, <1>9, <1>10 DEF ProcessInv, StrandInv

LEMMA ProcessMarkedKeeps ==
    ASSUME TypeInv, TypeInv', NEW e \in Ends, ProcessInv(ProcessOf[e]), ProcessMarkedMessage(e)
    PROVE  ProcessInv(ProcessOf[e])'
<1>1. PICK p \in Processes : p = ProcessOf[e] /\ e \in EndsOf(p)
  BY DEF EndsOf
<1>2. /\ alive[p] /\ alive' = alive /\ pending' = pending /\ stack' = stack
      /\ scheduled'[p] = scheduled[p] \cup {e}
  BY <1>1 DEF ProcessMarkedMessage, Receive, QueueRuns, syncVars, TypeInv, ScheduledType
<1>3. PICK entry : entry.end = e /\ toDispatch'[p] = Append(toDispatch[p], entry)
  <2>1. PICK entry : entry = [end |-> e, msg |-> Head(wire[e])]
    OBVIOUS
  <2>2. entry.end = e
    BY <2>1
  <2>3. toDispatch'[p] = Append(toDispatch[p], entry)
    BY <1>1, <2>1 DEF ProcessMarkedMessage, TypeInv, ToDispatchType
  <2>4. QED
    BY <2>2, <2>3
<1>4. TasksComing(p) /\ FramesOK(p) /\ EntriesOK(p)
  BY <1>1, <1>2 DEF ProcessInv, StrandInv
<1>5. TasksComing(p)'
  <2>1. CASE NeedsDispatch(p, e)
    <3>1. PICK task : task = [what |-> "marked", end |-> e]
      OBVIOUS
    <3>2. runLoop'[p] = Append(runLoop[p], task)
      BY <1>1, <2>1, <3>1 DEF ProcessMarkedMessage, TypeInv, RunLoopType
    <3>3. (\A d : HasTask(p, d) => HasTask(p, d)') /\ HasTask(p, e)'
      BY <3>1, <3>2, AppendKeepsTasks
    <3>4. QED
      BY <1>2, <1>4, <3>3 DEF TasksComing
  <2>2. CASE ~NeedsDispatch(p, e)
    <3>1. runLoop'[p] = runLoop[p]
      BY <1>1, <2>2 DEF ProcessMarkedMessage, TypeInv, RunLoopType
    <3>2. scheduled'[p] = scheduled[p]
      BY <1>2, <2>2 DEF NeedsDispatch
    <3>3. QED
      BY <1>4, <3>1, <3>2 DEF TasksComing, HasTask
  <2>3. QED
    BY <2>1, <2>2
<1>6. FramesOK(p)'
  BY <1>2, <1>4 DEF FramesOK, FrameOK
<1>7. EntriesOK(p)'
  <2>1. toDispatch[p] \in Seq(Entries(p))
    BY DEF TypeInv, ToDispatchType
  <2>2. \A k \in 1..Len(toDispatch'[p]) :
           \/ k \in 1..Len(toDispatch[p]) /\ toDispatch'[p][k] = toDispatch[p][k]
           \/ toDispatch'[p][k] = entry
    BY <1>3, <2>1
  <2>3. QED
    BY <1>2, <1>3, <1>4, <2>2 DEF EntriesOK
<1>8. ASSUME NEW d \in EndsOf(p) PROVE PendingOK(p, d)'
  <2>1. PendingOK(p, d)
    BY <1>1 DEF ProcessInv
  <2>2. QED
    BY <1>2, <2>1 DEF PendingOK, WaitsOn, Depth
<1>9. QED
  BY <1>1, <1>5, <1>6, <1>7, <1>8 DEF ProcessInv, StrandInv

LEMMA SyncReplyKeeps ==
    ASSUME TypeInv, TypeInv', NEW e \in Ends, ProcessInv(ProcessOf[e]), ProcessIncomingSyncReply(e)
    PROVE  ProcessInv(ProcessOf[e])'
<1>1. PICK p \in Processes : p = ProcessOf[e] /\ e \in EndsOf(p)
  BY DEF EndsOf
<1>2. /\ alive' = alive /\ stack' = stack /\ toDispatch' = toDispatch /\ scheduled' = scheduled
      /\ runLoop' = runLoop
  BY DEF ProcessIncomingSyncReply
<1>3. StrandInv(p)'
  BY <1>1, <1>2 DEF ProcessInv, StrandInv, TasksComing, HasTask, FramesOK, EntriesOK
<1>4. PICK match : pending' = [pending EXCEPT ![e] =
             [i \in DOMAIN pending[e] |-> IF i \in match THEN [pending[e][i] EXCEPT !.reply = TRUE] ELSE pending[e][i]]]
  <2>1. PICK match : match = {i \in DOMAIN pending[e] : pending[e][i].id = Head(wire[e]).id}
    OBVIOUS
  <2>2. QED
    BY <2>1 DEF ProcessIncomingSyncReply, TypeInv, PendingType
<1>5. ASSUME NEW d \in EndsOf(p) PROVE PendingOK(p, d)'
  <2>1. Len(pending'[d]) = Len(pending[d]) /\ \A i \in 1..Len(pending[d]) : pending'[d][i].id = pending[d][i].id
    <3>1. CASE d # e
      BY <1>4, <3>1 DEF TypeInv, PendingType, EndsOf
    <3>2. CASE d = e
      <4>1. pending[e] \in Seq(Requests) /\ pending'[e] \in Seq(Requests)
        BY DEF TypeInv, PendingType
      <4>2. DOMAIN pending[e] = 1..Len(pending[e])
        BY <4>1
      <4>3. /\ DOMAIN pending'[e] = DOMAIN pending[e]
            /\ \A i \in DOMAIN pending[e] :
                  pending'[e][i] = IF i \in match THEN [pending[e][i] EXCEPT !.reply = TRUE] ELSE pending[e][i]
        BY <1>4 DEF TypeInv, PendingType
      <4>4. \A x \in Requests : [x EXCEPT !.reply = TRUE].id = x.id
        BY DEF Requests
      <4>5. \A i \in 1..Len(pending[e]) : pending'[e][i].id = pending[e][i].id
        <5>1. \A i \in 1..Len(pending[e]) : pending[e][i] \in Requests
          BY <4>1
        <5>2. QED
          BY <4>2, <4>3, <4>4, <5>1
      <4>6. Len(pending'[e]) = Len(pending[e])
        BY <4>1, <4>2, <4>3
      <4>7. QED
        BY <3>2, <4>5, <4>6
    <3>3. QED
      BY <3>1, <3>2
  <2>2. SameWaits(stack[p], stack'[p], d)
    BY <1>2 DEF SameWaits
  <2>3. PendingOK(p, d)
    BY <1>1 DEF ProcessInv
  <2>4. QED
    BY <1>2, <2>1, <2>2, <2>3, SameWaitsKeep DEF TypeInv
<1>6. QED
  BY <1>1, <1>3, <1>5 DEF ProcessInv

(* Every step of a main thread.                                             *)
LEMMA MainStepKeeps ==
    ASSUME TypeInv, TypeInv', NEW p \in Processes, ProcessInv(p), MainStep(p) \/ Deadline(p) \/ Crash(p)
    PROVE  ProcessInv(p)'
<1> DEFINE f == Last(stack[p])
<1>1. ASSUME NEW at, IsTop(p, at) PROVE alive[p] /\ stack[p] # <<>> /\ f \in Frames(p) /\ f.at = at
  BY <1>1, TopFrame DEF IsTop, TypeInv
<1>2. ASSUME ReturnFromHandler(p) PROVE ProcessInv(p)'
  <2>1. stack[p] # <<>> /\ f.at = "handler"
    BY <1>1, <1>2 DEF ReturnFromHandler
  <2>2. /\ Pop(p) /\ alive' = alive /\ pending' = pending /\ toDispatch' = toDispatch
        /\ scheduled' = scheduled /\ runLoop' = runLoop
    BY <1>2 DEF ReturnFromHandler, syncVars
  <2>3. QED
    BY <2>1, <2>2, QuietTop
<1>3. ASSUME CheckSyncReply(p) PROVE ProcessInv(p)'
  <2>1. alive[p] /\ stack[p] # <<>> /\ f.at = "check" /\ f.end \in EndsOf(p) /\ f.id \in Nat
    BY <1>1, <1>3, FrameFields DEF CheckSyncReply
  <2>2. CASE EndSync(p, f.end, Last(pending[f.end]).reply)
    BY <2>1, <2>2, EndSyncKeeps
  <2>3. CASE /\ SetTop(p, SyncFrame("wait", f.end, f.id))
             /\ UNCHANGED <<alive, runLoop, toDispatch, scheduled, semaphore, connected, pending,
                            incoming, wire, secondary, waiting>>
    <3>1. PICK g \in Frames(p) : g = SyncFrame("wait", f.end, f.id)
      BY <2>1, FramesMade
    <3>2. g.at = "wait" /\ g.end = f.end /\ g.id = f.id /\ SetTop(p, g)
      BY <2>3, <3>1 DEF SyncFrame
    <3>3. QED
      BY <2>1, <2>3, <3>2, LoopStep
  <2>4. QED
    BY <1>3, <2>2, <2>3 DEF CheckSyncReply
<1>4. ASSUME TimeOut(p) PROVE ProcessInv(p)'
  <2>1. alive[p] /\ stack[p] # <<>> /\ f.at = "wait" /\ f.end \in EndsOf(p)
    BY <1>1, <1>4, FrameFields DEF TimeOut
  <2>2. QED
    BY <1>4, <2>1, EndSyncKeeps DEF TimeOut
<1>5. ASSUME WakeUp(p) PROVE ProcessInv(p)'
  <2>1. stack[p] # <<>> /\ f.at = "wait" /\ f.end \in EndsOf(p) /\ f.id \in Nat
    BY <1>1, <1>5, FrameFields DEF WakeUp
  <2>2. PICK g \in Frames(p) : g = SyncFrame("check", f.end, f.id)
    BY <2>1, FramesMade
  <2>3. g.at = "check" /\ g.end = f.end /\ g.id = f.id
    BY <2>2 DEF SyncFrame
  <2>4. /\ stack' = [stack EXCEPT ![p] = Front(@) \o <<g, SwapFrame(Null)>>]
        /\ alive' = alive /\ pending' = pending /\ toDispatch' = toDispatch
        /\ scheduled' = scheduled /\ runLoop' = runLoop
    BY <1>5, <2>2 DEF WakeUp, syncVars
  <2>5. QED
    BY <2>1, <2>3, <2>4, LoopStep
<1>6. ASSUME RegisterWait(p) \/ TestWait(p) \/ WakeFromWait(p) \/ WaitTimesOut(p) PROVE ProcessInv(p)'
  <2>1. IsTop(p, "register") \/ IsTop(p, "test") \/ IsTop(p, "sleep")
    BY <1>6 DEF RegisterWait, TestWait, WakeFromWait, WaitTimesOut
  <2>2. stack[p] # <<>> /\ f.at \notin {"swap", "check", "wait"} /\ f.end \in EndsOf(p)
    BY <1>1, <2>1, FrameFields
  <2>3. /\ alive' = alive /\ pending' = pending /\ toDispatch' = toDispatch
        /\ scheduled' = scheduled /\ runLoop' = runLoop
    BY <1>6 DEF RegisterWait, TestWait, WakeFromWait, WaitTimesOut, syncVars
  <2>4. PICK m \in MessageType : m = Message("awaited", 0, FALSE, FALSE)
    BY DEF Message, MessageType
  <2>5. \/ Pop(p)
        \/ \E at \in {"register", "test", "sleep"} : SetTop(p, WaitFrame(at, f.end))
        \/ SetTop(p, HandlerFrame(f.end, m))
    BY <1>6, <2>4 DEF RegisterWait, TestWait, WakeFromWait, WaitTimesOut
  <2>6. /\ \A at \in {"register", "test", "sleep"} :
              WaitFrame(at, f.end) \in Frames(p) /\ WaitFrame(at, f.end).at = at
        /\ HandlerFrame(f.end, m) \in Frames(p) /\ HandlerFrame(f.end, m).at = "handler"
    BY <2>2, FramesMade DEF WaitFrame, HandlerFrame
  <2>7. \/ Pop(p)
        \/ \E g \in Frames(p) : PlainFrame(g) /\ g.at \notin {"check", "wait"} /\ SetTop(p, g)
    BY <2>5, <2>6 DEF PlainFrame
  <2>8. QED
    BY <2>2, <2>3, <2>7, QuietTop
<1>7. ASSUME NEW e \in EndsOf(p), DispatchOneMessage(p, e) PROVE ProcessInv(p)'
  <2>1. /\ NextTask(p, "one", e) /\ alive' = alive /\ pending' = pending /\ toDispatch' = toDispatch
        /\ scheduled' = scheduled
    BY <1>7 DEF DispatchOneMessage, syncVars
  <2>2. \A d : HasTask(p, d) => HasTask(p, d)'
    BY <2>1, PopKeepsTasks
  <2>3. CASE UNCHANGED stack
    BY <2>1, <2>2, <2>3, SameStack
  <2>4. CASE incoming[e] # <<>> /\ Push(p, <<HandlerFrame(e, Head(incoming[e]))>>)
    <3>1. Head(incoming[e]) \in MessageType
      BY <2>4 DEF TypeInv, MessageTypes, EndsOf
    <3>2. PICK g \in Frames(p) : g = HandlerFrame(e, Head(incoming[e]))
      BY <3>1, FramesMade
    <3>3. PlainFrame(g) /\ g.at \notin {"check", "wait"} /\ Push(p, <<g>>)
      BY <2>4, <3>2 DEF HandlerFrame, PlainFrame
    <3>4. QED
      BY <2>1, <2>2, <3>3, QuietPush
  <2>5. QED
    BY <1>7, <2>3, <2>4 DEF DispatchOneMessage
<1>8. ASSUME NEW e \in EndsOf(p), DidClose(p, e) PROVE ProcessInv(p)'
  <2>1. /\ NextTask(p, "close", e) /\ alive' = alive /\ pending' = pending /\ toDispatch' = toDispatch
        /\ scheduled' = scheduled /\ stack' = stack
    BY <1>8 DEF DidClose, syncVars
  <2>2. \A d : HasTask(p, d) => HasTask(p, d)'
    BY <2>1, PopKeepsTasks
  <2>3. QED
    BY <2>1, <2>2, SameStack
<1>9. ASSUME Crash(p) PROVE ProcessInv(p)'
  BY <1>9, ExitTouches, DeadKeeps DEF Crash
<1>10. QED
  BY <1>2, <1>3, <1>4, <1>5, <1>6, <1>7, <1>8, <1>9, SwapKeeps, DispatchFromBatchKeeps, FinishBatchKeeps,
     DispatchMarkedKeeps DEF MainStep, Deadline

(* Every step of a work queue, a secondary thread or a client.              *)
LEMMA EndStepKeeps ==
    ASSUME TypeInv, TypeInv', NEW e \in Ends, ProcessInv(ProcessOf[e]),
           QueueStep(e) \/ SecondaryStep(e) \/ ClientCall(e)
    PROVE  ProcessInv(ProcessOf[e])'
<1>1. PICK p \in Processes : p = ProcessOf[e] /\ e \in EndsOf(p)
  BY DEF EndsOf
<1>2. ASSUME alive' = alive, pending' = pending, toDispatch' = toDispatch, scheduled' = scheduled, stack' = stack,
             \/ runLoop' = runLoop
             \/ \E task : runLoop' = [runLoop EXCEPT ![p] = Append(@, task)]
      PROVE  ProcessInv(p)'
  <2>1. \A d : HasTask(p, d) => HasTask(p, d)'
    <3>1. CASE runLoop' = runLoop
      BY <3>1 DEF HasTask
    <3>2. CASE \E task : runLoop' = [runLoop EXCEPT ![p] = Append(@, task)]
      <4>1. PICK task : runLoop'[p] = Append(runLoop[p], task)
        BY <3>2 DEF TypeInv, RunLoopType
      <4>2. QED
        BY <4>1, AppendKeepsTasks
    <3>3. QED
      BY <1>2, <3>1, <3>2
  <2>2. QED
    BY <1>1, <1>2, <2>1, SameStack
<1>3. ASSUME ProcessOtherMessage(e) PROVE ProcessInv(p)'
  <2>1. /\ alive' = alive /\ pending' = pending /\ toDispatch' = toDispatch /\ scheduled' = scheduled /\ stack' = stack
        /\ \/ runLoop' = runLoop
           \/ runLoop' = [runLoop EXCEPT ![p] = Append(@, [what |-> "one", end |-> e])]
    BY <1>1, <1>3 DEF ProcessOtherMessage, syncVars
  <2>2. QED
    BY <1>2, <2>1
<1>4. ASSUME ConnectionDidClose(e) PROVE ProcessInv(p)'
  <2>1. /\ alive' = alive /\ pending' = pending /\ toDispatch' = toDispatch /\ scheduled' = scheduled /\ stack' = stack
        /\ runLoop' = [runLoop EXCEPT ![p] = Append(@, [what |-> "close", end |-> e])]
    BY <1>1, <1>4 DEF ConnectionDidClose, PostDidClose
  <2>2. QED
    BY <1>2, <2>1
<1>5. ASSUME PlatformInvalidate(e) \/ SecondaryStep(e) \/ Invalidate(e) \/ SecondaryRegister(e)
             \/ (\E kind \in AsyncKinds, wanted \in BOOLEAN : SendAsync(e, kind, wanted))
      PROVE  ProcessInv(p)'
  <2>1. /\ alive' = alive /\ pending' = pending /\ toDispatch' = toDispatch /\ scheduled' = scheduled
        /\ stack' = stack /\ runLoop' = runLoop
    BY <1>5 DEF PlatformInvalidate, SecondaryStep, SecondarySend, SecondaryReturn, Invalidate, SecondaryRegister,
       SendAsync, processVars, syncVars
  <2>2. QED
    BY <1>2, <2>1
<1>6. ASSUME FailToSendSync(e) PROVE ProcessInv(p)'
  BY <1>1, <1>6, ExitTouches, DeadKeeps DEF FailToSendSync
<1>7. ASSUME StartWait(e) PROVE ProcessInv(p)'
  <2>1. /\ alive' = alive /\ pending' = pending /\ toDispatch' = toDispatch /\ scheduled' = scheduled
        /\ runLoop' = runLoop
    BY <1>7 DEF StartWait, syncVars
  <2>2. \A d : HasTask(p, d) => HasTask(p, d)'
    BY <2>1 DEF HasTask
  <2>3. PICK g \in Frames(p) : PlainFrame(g) /\ g.at \notin {"check", "wait"} /\ Push(p, <<g>>)
    <3>1. PICK i : i = SelectInSeq(incoming[e], IsAwaited)
      OBVIOUS
    <3>2. CASE i # 0 /\ Push(p, <<HandlerFrame(e, incoming[e][i])>>)
      <4>1. incoming[e] \in Seq(MessageType)
        BY DEF TypeInv, MessageTypes
      <4>2. i \in 1..Len(incoming[e])
        BY <3>1, <3>2, <4>1, SelectInSeqIndex
      <4>3. incoming[e][i] \in MessageType
        BY <4>1, <4>2
      <4>4. PICK g \in Frames(p) : g = HandlerFrame(e, incoming[e][i])
        BY <1>1, <4>3, FramesMade
      <4>5. PlainFrame(g) /\ g.at \notin {"check", "wait"}
        BY <4>4 DEF HandlerFrame, PlainFrame
      <4>6. QED
        BY <3>2, <4>4, <4>5
    <3>3. CASE Push(p, <<WaitFrame("register", e)>>)
      <4>1. PICK g \in Frames(p) : g = WaitFrame("register", e)
        BY <1>1, FramesMade
      <4>2. PlainFrame(g) /\ g.at \notin {"check", "wait"}
        BY <4>1 DEF WaitFrame, PlainFrame
      <4>3. QED
        BY <3>3, <4>1, <4>2
    <3>4. QED
      BY <1>1, <1>7, <3>1, <3>2, <3>3 DEF StartWait
  <2>4. QED
    BY <1>1, <2>1, <2>2, <2>3, QuietPush
<1>8. QED
  BY <1>1, <1>3, <1>4, <1>5, <1>6, <1>7, SendSyncKeeps, SyncReplyKeeps, ProcessMarkedKeeps
     DEF QueueStep, ClientCall

-----------------------------------------------------------------------------
(* The inductive invariant and the theorems.                                *)

ConnectionInv == TypeInv /\ \A p \in Processes : ProcessInv(p)

LEMMA InitConnectionInv == Init => ConnectionInv
<1> SUFFICES ASSUME Init PROVE ConnectionInv
  OBVIOUS
<1>1. TypeInv
  BY InitType
<1>2. ASSUME NEW p \in Processes PROVE ProcessInv(p)
  <2>1. stack[p] = <<>> /\ toDispatch[p] = <<>> /\ scheduled[p] = {}
    BY DEF Init
  <2>2. StrandInv(p)
    BY <2>1 DEF StrandInv, TasksComing, FramesOK, EntriesOK
  <2>3. ASSUME NEW e \in EndsOf(p) PROVE PendingOK(p, e)
    <3>1. pending[e] = <<>> /\ Len(pending[e]) = 0
      BY DEF Init, EndsOf
    <3>2. WaitsOn(p, e) = {}
      BY <2>1 DEF WaitsOn
    <3>3. Cardinality(WaitsOn(p, e)) = 0
      BY <3>2, FS_EmptySet
    <3>4. QED
      BY <3>1, <3>2, <3>3 DEF PendingOK
  <2>4. QED
    BY <2>2, <2>3 DEF ProcessInv
<1>3. QED
  BY <1>1, <1>2 DEF ConnectionInv

LEMMA StepConnectionInv == ConnectionInv /\ [Next]_vars => ConnectionInv'
<1> SUFFICES ASSUME ConnectionInv, [Next]_vars PROVE ConnectionInv'
  OBVIOUS
<1>1. TypeInv /\ \A p \in Processes : ProcessInv(p)
  BY DEF ConnectionInv
<1>2. ASSUME NEW p \in Processes, MainStep(p) \/ Deadline(p) \/ Crash(p) PROVE ConnectionInv'
  <2>1. ASSUME NEW e \in EndsOf(p), IsTop(p, "check") \/ IsTop(p, "wait"), Last(stack[p]).end = e
        PROVE  pending[e] # <<>>
    <3>1. alive[p] /\ stack[p] # <<>> /\ Waits(Last(stack[p]), e)
      BY <2>1 DEF IsTop, Waits
    <3>2. QED
      BY <1>1, <3>1, WaiterHasRequest DEF ProcessInv, TypeInv
  <2>2. TypeInv'
    <3>1. CASE MainStep(p) \/ Deadline(p)
      BY <1>1, <2>1, <3>1, MainStepType
    <3>2. CASE Crash(p)
      BY <1>1, <3>2, ExitType DEF Crash
    <3>3. QED
      BY <1>2, <3>1, <3>2
  <2>3. ProcessInv(p)'
    BY <1>1, <1>2, <2>2, MainStepKeeps
  <2>4. \A q \in Processes \ {p} : ProcessInv(q)'
    BY <1>1, <1>2, <2>2, MainStepTouches, UntouchedKeeps
  <2>5. QED
    BY <2>2, <2>3, <2>4 DEF ConnectionInv
<1>3. ASSUME NEW e \in Ends, QueueStep(e) \/ SecondaryStep(e) \/ ClientCall(e) PROVE ConnectionInv'
  <2>1. ProcessOf[e] \in Processes
    OBVIOUS
  <2>2. TypeInv'
    BY <1>1, <1>3, QueueStepType, SecondaryStepType, ClientCallType
  <2>3. ProcessInv(ProcessOf[e])'
    BY <1>1, <1>3, <2>1, <2>2, EndStepKeeps
  <2>4. \A q \in Processes \ {ProcessOf[e]} : ProcessInv(q)'
    BY <1>1, <1>3, <2>2, EndStepTouches, UntouchedKeeps
  <2>5. QED
    BY <2>2, <2>3, <2>4 DEF ConnectionInv
<1>4. CASE UNCHANGED vars
  <2>1. TypeInv'
    BY <1>1, <1>4 DEF vars, processVars, syncVars, queueVars, linkVars, TypeInv, StackType, RunLoopType,
       ToDispatchType, ScheduledType, FlagTypes, CounterTypes, PendingType, MessageTypes, SecondaryType
  <2>2. \A p \in Processes : Untouched(p)
    BY <1>4 DEF vars, processVars, syncVars, Untouched
  <2>3. QED
    BY <1>1, <2>1, <2>2, UntouchedKeeps DEF ConnectionInv
<1>5. QED
  BY <1>2, <1>3, <1>4 DEF Next

LEMMA ConnectionInvHolds == Spec => []ConnectionInv
BY InitConnectionInv, StepConnectionInv, PTL DEF Spec

(* What the processes keep has the type of m_incomingMessages, the run      *)
(* loop, m_messagesToDispatchWhileWaitingForSyncReply and the rest, and a   *)
(* process holds only messages and tasks of its own connections.            *)
THEOREM TypeCorrect == Spec => []TypeOK
<1>1. ConnectionInv => TypeOK
  <2> SUFFICES ASSUME TypeInv PROVE TypeOK
    BY DEF ConnectionInv
  <2>1. ASSUME NEW p \in Processes
        PROVE  /\ scheduled[p] \subseteq EndsOf(p)
               /\ \A i \in DOMAIN runLoop[p] : runLoop[p][i] \in Tasks(p)
               /\ \A i \in DOMAIN toDispatch[p] : toDispatch[p][i] \in Entries(p)
    <3>1. runLoop[p] \in Seq(Tasks(p)) /\ toDispatch[p] \in Seq(Entries(p)) /\ scheduled[p] \subseteq EndsOf(p)
      BY DEF TypeInv, RunLoopType, ToDispatchType, ScheduledType
    <3>2. QED
      BY <3>1
  <2>2. ASSUME NEW e \in Ends, NEW q \in {incoming[e], wire[e]}, NEW i \in DOMAIN q PROVE q[i] \in MessageType
    <3>1. q \in Seq(MessageType)
      BY DEF TypeInv, MessageTypes
    <3>2. QED
      BY <3>1
  <2>3. QED
    BY <2>1, <2>2 DEF TypeOK, TypeInv, FlagTypes, CounterTypes, Tasks, Entries
<1>2. QED
  BY <1>1, ConnectionInvHolds, PTL

(* m_pendingSyncReplies mirrors the call stack: however the waits of        *)
(* several connections nest, and whatever times out or crashes, a wait that *)
(* goes on or ends finds its own request on top.                            *)
THEOREM PendingMirrorsStack == Spec => []PendingIsStack
<1>1. ConnectionInv => PendingIsStack
  BY DEF ConnectionInv, ProcessInv, PendingOK, PendingIsStack, EndsOf
<1>2. QED
  BY <1>1, ConnectionInvHolds, PTL

(* processIncomingMessage() and dispatchMessages(): a message set aside for *)
(* a main thread that waits is not forgotten when it does not wait any      *)
(* more, also if a batch for another connection kept it back.               *)
THEOREM NothingIsStranded == Spec => []NothingStranded
<1>1. ConnectionInv => NothingStranded
  <2> SUFFICES ASSUME ConnectionInv, NEW p \in Processes, NEW k \in DOMAIN toDispatch[p], alive[p]
               PROVE  \/ [what |-> "marked", end |-> toDispatch[p][k].end] \in ToSet(runLoop[p])
                      \/ SwapFrame(toDispatch[p][k].end) \in ToSet(stack[p])
    BY DEF NothingStranded
  <2>1. TasksComing(p) /\ EntriesOK(p)
    BY DEF ConnectionInv, ProcessInv, StrandInv
  <2>2. runLoop[p] \in Seq(Tasks(p)) /\ stack[p] \in Seq(Frames(p)) /\ toDispatch[p] \in Seq(Entries(p))
    BY DEF ConnectionInv, TypeInv, RunLoopType, StackType, ToDispatchType
  <2>3. k \in 1..Len(toDispatch[p])
    BY <2>2
  <2>4. CASE toDispatch[p][k].end \in scheduled[p]
    <3>1. PICK i \in 1..Len(runLoop[p]) : runLoop[p][i] = [what |-> "marked", end |-> toDispatch[p][k].end]
      BY <2>1, <2>4 DEF TasksComing, HasTask
    <3>2. i \in DOMAIN runLoop[p]
      BY <2>2
    <3>3. QED
      BY <3>1, <3>2 DEF ToSet
  <2>5. CASE stack[p] # <<>> /\ stack[p][1] = SwapFrame(toDispatch[p][k].end)
    <3>1. 1 \in DOMAIN stack[p]
      BY <2>2, <2>5
    <3>2. QED
      BY <2>5, <3>1 DEF ToSet
  <2>6. QED
    BY <2>1, <2>3, <2>4, <2>5 DEF EntriesOK
<1>2. QED
  BY <1>1, ConnectionInvHolds, PTL

-----------------------------------------------------------------------------
(* The order of plain messages.  The ones that come to an end from a peer   *)
(* with the option are never marked, so that they stay in the order of      *)
(* their numbers on the wire and in m_incomingMessages, above the last one  *)
(* dispatched; what is set aside for a waiting main thread is not plain.    *)

Between(q, l, n) == \A i \in 1..Len(q) : q[i].plain => l < q[i].id /\ q[i].id < n
Upwards(q) == \A i, j \in 1..Len(q) : i < j /\ q[i].plain /\ q[j].plain => q[i].id < q[j].id
Follows(q, r) == \A i \in 1..Len(q), j \in 1..Len(r) : q[i].plain /\ r[j].plain => q[i].id < r[j].id
NoneMarked(q) == \A i \in 1..Len(q) : q[i].plain => ~q[i].marked

\* inc are the messages queued and w those on the wire; l was dispatched last, n is next.
Ordered(inc, w, l, n) ==
    /\ l < n /\ Between(inc, l, n) /\ Between(w, l, n) /\ Upwards(inc) /\ Upwards(w)
    /\ Follows(inc, w) /\ NoneMarked(w)

NonePlain(q) == \A i \in 1..Len(q) : Peer[q[i].end] \in OnlyWhenProcessing => ~q[i].msg.plain
FrameClear(f) == f.at = "batch" => NonePlain(f.batch) /\ NonePlain(f.back)

OrderOK(e) ==
    Peer[e] \in OnlyWhenProcessing => Ordered(incoming[e], wire[e], lastPlain[e], nextId[Peer[e]])
AsideOK(p) == NonePlain(toDispatch[p]) /\ \A i \in 1..Len(stack[p]) : FrameClear(stack[p][i])

PlainInv ==
    /\ lastPlain \in [Ends -> Nat]
    /\ \A e \in Ends : OrderOK(e)
    /\ \A p \in Processes : AsideOK(p)

(* r has some elements of s, in their order.                                *)
Thinned(r, s) ==
    \E f \in [1..Len(r) -> 1..Len(s)] :
        /\ \A i \in 1..Len(r) : r[i] = s[f[i]]
        /\ \A i, j \in 1..Len(r) : i < j => f[i] < f[j]

LEMMA TailOf ==
    ASSUME NEW S, NEW s \in Seq(S), s # <<>>
    PROVE  /\ Len(s) \in Nat /\ 1 \in 1..Len(s) /\ Head(s) = s[1] /\ Head(s) \in S
           /\ Tail(s) \in Seq(S) /\ Len(Tail(s)) = Len(s) - 1
           /\ \A i \in 1..Len(Tail(s)) : i + 1 \in 1..Len(s) /\ Tail(s)[i] = s[i + 1]
OBVIOUS

LEMMA TailThinned ==
    ASSUME NEW S, NEW s \in Seq(S), s # <<>>
    PROVE  Thinned(Tail(s), s)
<1> DEFINE f == [i \in 1..Len(Tail(s)) |-> i + 1]
<1>1. /\ Len(Tail(s)) \in Nat
      /\ \A i \in 1..Len(Tail(s)) : i + 1 \in 1..Len(s) /\ Tail(s)[i] = s[i + 1]
  BY TailOf
<1>2. f \in [1..Len(Tail(s)) -> 1..Len(s)]
  BY <1>1
<1>3. \A i \in 1..Len(Tail(s)) : Tail(s)[i] = s[f[i]]
  BY <1>1
<1>4. \A i, j \in 1..Len(Tail(s)) : i < j => f[i] < f[j]
  BY <1>1
<1> HIDE DEF f
<1>5. QED
  BY <1>2, <1>3, <1>4 DEF Thinned

LEMMA EmptyThinned ==
    ASSUME NEW S, NEW s \in Seq(S)
    PROVE  Thinned(<<>>, s)
<1>1. 1..Len(<<>>) = {}
  OBVIOUS
<1>2. [i \in {} |-> 1] \in [{} -> 1..Len(s)]
  OBVIOUS
<1>3. QED
  BY <1>1, <1>2 DEF Thinned

LEMMA SameThinned ==
    ASSUME NEW S, NEW s \in Seq(S)
    PROVE  Thinned(s, s)
<1> DEFINE f == [i \in 1..Len(s) |-> i]
<1>1. f \in [1..Len(s) -> 1..Len(s)] /\ \A i \in 1..Len(s) : f[i] = i
  OBVIOUS
<1> HIDE DEF f
<1>2. (\A i \in 1..Len(s) : s[i] = s[f[i]]) /\ \A i, j \in 1..Len(s) : i < j => f[i] < f[j]
  BY <1>1
<1>3. QED
  BY <1>1, <1>2 DEF Thinned

(* waitForMessage() takes a message out of the queue.                       *)
LEMMA RemoveThinned ==
    ASSUME NEW S, NEW s \in Seq(S), NEW k \in 1..Len(s)
    PROVE  Thinned(RemoveAt(s, k), s)
<1>1. PICK n \in Nat : n = Len(s)
  OBVIOUS
<1>2. k \in Nat /\ 1 <= k /\ k <= n
  BY <1>1
<1>3. PICK a, b : a = SubSeq(s, 1, k - 1) /\ b = SubSeq(s, k + 1, n)
  OBVIOUS
<1>4. /\ a \in Seq(S) /\ Len(a) = k - 1
      /\ \A i \in 1..(k - 1) : a[i] = s[i]
  <2>1. k - 1 \in Nat /\ k - 1 <= n
    BY <1>2
  <2>2. QED
    BY <1>1, <1>2, <1>3, <2>1
<1>5. /\ b \in Seq(S) /\ Len(b) = n - k
      /\ \A i \in 1..(n - k) : b[i] = s[k + i]
  <2>1. n - k \in Nat
    BY <1>2
  <2>2. b \in Seq(S)
    BY <1>1, <1>2, <1>3
  <2>3. Len(b) = n - k
    BY <1>1, <1>2, <1>3
  <2>4. \A i \in 1..(n - k) : b[i] = s[k + i]
    BY <1>1, <1>2, <1>3
  <2>5. QED
    BY <2>2, <2>3, <2>4
<1>6. PICK r : r = a \o b /\ r = RemoveAt(s, k)
  BY <1>1, <1>3 DEF RemoveAt
<1>7. /\ Len(r) = n - 1
      /\ \A i \in 1..(n - 1) : r[i] = IF i < k THEN s[i] ELSE s[i + 1]
  <2>1. /\ Len(r) = Len(a) + Len(b)
        /\ \A i \in 1..(Len(a) + Len(b)) : r[i] = IF i <= Len(a) THEN a[i] ELSE b[i - Len(a)]
    <3>1. a \in Seq(S) /\ b \in Seq(S)
      BY <1>4, <1>5
    <3>2. /\ Len(a \o b) = Len(a) + Len(b)
          /\ \A i \in 1..(Len(a) + Len(b)) : (a \o b)[i] = IF i <= Len(a) THEN a[i] ELSE b[i - Len(a)]
      BY <3>1, ConcatProperties
    <3>3. QED
      BY <1>6, <3>2, Zenon
  <2>2. Len(r) = n - 1 /\ Len(a) + Len(b) = n - 1
    BY <1>1, <1>2, <1>4, <1>5, <2>1
  <2>3. ASSUME NEW i \in 1..(n - 1), i < k PROVE r[i] = s[i]
    <3>1. i <= Len(a) /\ i \in 1..(k - 1)
      BY <1>2, <1>4, <2>3
    <3>2. QED
      BY <1>4, <2>1, <2>2, <3>1
  <2>4. ASSUME NEW i \in 1..(n - 1), ~(i < k) PROVE r[i] = s[i + 1]
    <3>1. ~(i <= Len(a)) /\ i - Len(a) \in 1..(n - k) /\ k + (i - Len(a)) = i + 1
      BY <1>2, <1>4, <2>4
    <3>2. QED
      BY <1>5, <2>1, <2>2, <3>1
  <2>5. QED
    BY <2>2, <2>3, <2>4
<1> DEFINE f == [i \in 1..(n - 1) |-> IF i < k THEN i ELSE i + 1]
<1>8. f \in [1..(n - 1) -> 1..n]
  BY <1>1, <1>2
<1>9. \A i \in 1..(n - 1) : r[i] = s[f[i]]
  BY <1>7
<1>10. \A i, j \in 1..(n - 1) : i < j => f[i] < f[j]
  BY <1>1, <1>2
<1> HIDE DEF f
<1>11. Thinned(r, s)
  BY <1>1, <1>7, <1>8, <1>9, <1>10 DEF Thinned
<1>12. QED
  BY <1>6, <1>11

LEMMA MessageIds ==
    ASSUME NEW q \in Seq(MessageType)
    PROVE  \A i \in 1..Len(q) : q[i] \in MessageType /\ q[i].id \in Nat
<1>1. \A m \in MessageType : m.id \in Nat
  BY DEF MessageType
<1>2. \A i \in 1..Len(q) : q[i] \in MessageType
  OBVIOUS
<1>3. QED
  BY <1>1, <1>2

(* Messages may be lost, or taken out of the middle.                        *)
LEMMA ThinnedOrder ==
    ASSUME NEW inc \in Seq(MessageType), NEW w \in Seq(MessageType), NEW l \in Nat, NEW n \in Nat,
           Ordered(inc, w, l, n), NEW inc2, NEW w2, Thinned(inc2, inc), Thinned(w2, w), NEW n2 \in Nat, n <= n2
    PROVE  Ordered(inc2, w2, l, n2)
<1>1. PICK f \in [1..Len(inc2) -> 1..Len(inc)] :
         /\ \A i \in 1..Len(inc2) : inc2[i] = inc[f[i]]
         /\ \A i, j \in 1..Len(inc2) : i < j => f[i] < f[j]
  BY DEF Thinned
<1>2. PICK g \in [1..Len(w2) -> 1..Len(w)] :
         /\ \A i \in 1..Len(w2) : w2[i] = w[g[i]]
         /\ \A i, j \in 1..Len(w2) : i < j => g[i] < g[j]
  BY DEF Thinned
<1>3. /\ \A i \in 1..Len(inc) : inc[i].id \in Nat
      /\ \A i \in 1..Len(w) : w[i].id \in Nat
  BY MessageIds
<1>4. l < n2
  BY DEF Ordered
<1>5. Between(inc2, l, n2)
  <2>1. ASSUME NEW i \in 1..Len(inc2), inc2[i].plain PROVE l < inc2[i].id /\ inc2[i].id < n2
    <3>1. f[i] \in 1..Len(inc) /\ inc2[i] = inc[f[i]]
      BY <1>1
    <3>2. l < inc[f[i]].id /\ inc[f[i]].id < n /\ inc[f[i]].id \in Nat
      BY <1>3, <2>1, <3>1 DEF Ordered, Between
    <3>3. QED
      BY <3>1, <3>2
  <2>2. QED
    BY <2>1 DEF Between
<1>6. Between(w2, l, n2)
  <2>1. ASSUME NEW i \in 1..Len(w2), w2[i].plain PROVE l < w2[i].id /\ w2[i].id < n2
    <3>1. g[i] \in 1..Len(w) /\ w2[i] = w[g[i]]
      BY <1>2
    <3>2. l < w[g[i]].id /\ w[g[i]].id < n /\ w[g[i]].id \in Nat
      BY <1>3, <2>1, <3>1 DEF Ordered, Between
    <3>3. QED
      BY <3>1, <3>2
  <2>2. QED
    BY <2>1 DEF Between
<1>7. Upwards(inc2)
  <2>1. ASSUME NEW i \in 1..Len(inc2), NEW j \in 1..Len(inc2), i < j, inc2[i].plain, inc2[j].plain
        PROVE  inc2[i].id < inc2[j].id
    <3>1. f[i] \in 1..Len(inc) /\ f[j] \in 1..Len(inc) /\ f[i] < f[j] /\ inc2[i] = inc[f[i]] /\ inc2[j] = inc[f[j]]
      BY <1>1, <2>1
    <3>2. Upwards(inc)
      BY DEF Ordered
    <3>3. QED
      BY <2>1, <3>1, <3>2 DEF Upwards
  <2>2. QED
    BY <2>1 DEF Upwards
<1>8. Upwards(w2)
  <2>1. ASSUME NEW i \in 1..Len(w2), NEW j \in 1..Len(w2), i < j, w2[i].plain, w2[j].plain
        PROVE  w2[i].id < w2[j].id
    <3>1. g[i] \in 1..Len(w) /\ g[j] \in 1..Len(w) /\ g[i] < g[j] /\ w2[i] = w[g[i]] /\ w2[j] = w[g[j]]
      BY <1>2, <2>1
    <3>2. Upwards(w)
      BY DEF Ordered
    <3>3. QED
      BY <2>1, <3>1, <3>2 DEF Upwards
  <2>2. QED
    BY <2>1 DEF Upwards
<1>9. Follows(inc2, w2)
  <2>1. ASSUME NEW i \in 1..Len(inc2), NEW j \in 1..Len(w2), inc2[i].plain, w2[j].plain
        PROVE  inc2[i].id < w2[j].id
    <3>1. f[i] \in 1..Len(inc) /\ g[j] \in 1..Len(w) /\ inc2[i] = inc[f[i]] /\ w2[j] = w[g[j]]
      BY <1>1, <1>2
    <3>2. Follows(inc, w)
      BY DEF Ordered
    <3>3. QED
      BY <2>1, <3>1, <3>2 DEF Follows
  <2>2. QED
    BY <2>1 DEF Follows
<1>10. NoneMarked(w2)
  BY <1>2 DEF Ordered, NoneMarked
<1>11. QED
  BY <1>4, <1>5, <1>6, <1>7, <1>8, <1>9, <1>10 DEF Ordered

LEMMA AppendOf ==
    ASSUME NEW S, NEW s \in Seq(S), NEW x \in S
    PROVE  /\ Append(s, x) \in Seq(S) /\ Len(s) \in Nat /\ Len(Append(s, x)) = Len(s) + 1
           /\ Append(s, x)[Len(s) + 1] = x
           /\ \A i \in 1..Len(s) : Append(s, x)[i] = s[i]
           /\ \A i \in 1..(Len(s) + 1) : i # Len(s) + 1 => i \in 1..Len(s)
OBVIOUS

(* A message with a number not used before is sent.                         *)
LEMMA SentOrder ==
    ASSUME NEW inc \in Seq(MessageType), NEW w \in Seq(MessageType), NEW l \in Nat, NEW n \in Nat,
           Ordered(inc, w, l, n), NEW m \in MessageType, NEW n2 \in Nat, n <= n2,
           m.plain => ~m.marked /\ n <= m.id /\ m.id < n2
    PROVE  Ordered(inc, Append(w, m), l, n2)
<1>1. PICK r, k : r = Append(w, m) /\ k = Len(w)
  OBVIOUS
<1>2. /\ k \in Nat /\ Len(r) = k + 1 /\ r[k + 1] = m
      /\ \A i \in 1..k : r[i] = w[i]
      /\ \A i \in 1..(k + 1) : i # k + 1 => i \in 1..k
  BY <1>1, AppendOf
<1>3. /\ \A i \in 1..Len(inc) : inc[i].id \in Nat
      /\ \A i \in 1..k : w[i].id \in Nat
      /\ m.id \in Nat
  <2>1. m.id \in Nat
    BY DEF MessageType
  <2>2. QED
    BY <1>1, <2>1, MessageIds
<1>4. l < n2
  BY DEF Ordered
<1>5. Between(inc, l, n2)
  BY <1>3 DEF Ordered, Between
<1>6. Between(r, l, n2)
  <2>1. \A i \in 1..k : r[i].plain => l < r[i].id /\ r[i].id < n2
    BY <1>1, <1>2, <1>3 DEF Ordered, Between
  <2>2. r[k + 1].plain => l < r[k + 1].id /\ r[k + 1].id < n2
    BY <1>2, <1>3 DEF Ordered
  <2>3. QED
    BY <1>2, <2>1, <2>2 DEF Between
<1>7. Upwards(r)
  <2>1. ASSUME NEW i \in 1..(k + 1), NEW j \in 1..(k + 1), i < j, r[i].plain, r[j].plain
        PROVE  r[i].id < r[j].id
    <3>1. i \in 1..k
      BY <1>2, <2>1
    <3>2. CASE j \in 1..k
      BY <1>1, <1>2, <2>1, <3>1, <3>2 DEF Ordered, Upwards
    <3>3. CASE j = k + 1
      <4>1. w[i].plain /\ w[i].id < n /\ w[i].id \in Nat /\ r[i].id = w[i].id
        BY <1>1, <1>2, <1>3, <2>1, <3>1 DEF Ordered, Between
      <4>2. n <= m.id /\ r[j].id = m.id
        BY <1>2, <2>1, <3>3
      <4>3. QED
        BY <1>3, <4>1, <4>2
    <3>4. QED
      BY <1>2, <3>2, <3>3
  <2>2. QED
    BY <1>2, <2>1 DEF Upwards
<1>8. Follows(inc, r)
  <2>1. ASSUME NEW i \in 1..Len(inc), NEW j \in 1..(k + 1), inc[i].plain, r[j].plain
        PROVE  inc[i].id < r[j].id
    <3>1. CASE j \in 1..k
      BY <1>1, <1>2, <2>1, <3>1 DEF Ordered, Follows
    <3>2. CASE j = k + 1
      <4>1. inc[i].id < n /\ inc[i].id \in Nat
        BY <1>3, <2>1 DEF Ordered, Between
      <4>2. n <= m.id /\ r[j].id = m.id
        BY <1>2, <2>1, <3>2
      <4>3. QED
        BY <1>3, <4>1, <4>2
    <3>3. QED
      BY <1>2, <3>1, <3>2
  <2>2. QED
    BY <1>2, <2>1 DEF Follows
<1>9. NoneMarked(r)
  BY <1>1, <1>2 DEF Ordered, NoneMarked
<1>10. Upwards(inc)
  BY DEF Ordered
<1>11. QED
  BY <1>1, <1>4, <1>5, <1>6, <1>7, <1>8, <1>9, <1>10 DEF Ordered

(* The first message on the wire is queued.                                 *)
LEMMA ReceivedOrder ==
    ASSUME NEW inc \in Seq(MessageType), NEW w \in Seq(MessageType), NEW l \in Nat, NEW n \in Nat,
           Ordered(inc, w, l, n), w # <<>>
    PROVE  Ordered(Append(inc, Head(w)), Tail(w), l, n)
<1>1. PICK v, r, k, m : v = Tail(w) /\ r = Append(inc, m) /\ k = Len(inc) /\ m = Head(w)
  OBVIOUS
<1>2. /\ Len(w) \in Nat /\ 1 \in 1..Len(w) /\ m = w[1] /\ m \in MessageType
      /\ Len(v) \in Nat /\ \A i \in 1..Len(v) : i + 1 \in 1..Len(w) /\ 1 < i + 1 /\ v[i] = w[i + 1]
  BY <1>1, TailOf
<1>3. /\ k \in Nat /\ Len(r) = k + 1 /\ r[k + 1] = m
      /\ \A i \in 1..k : r[i] = inc[i]
      /\ \A i \in 1..(k + 1) : i # k + 1 => i \in 1..k
  BY <1>1, <1>2, AppendOf
<1>4. Ordered(inc, v, l, n)
  <2>1. Thinned(inc, inc) /\ Thinned(v, w)
    BY <1>1, SameThinned, TailThinned
  <2>2. QED
    BY <2>1, ThinnedOrder
<1>5. Between(r, l, n)
  <2>1. \A i \in 1..k : r[i].plain => l < r[i].id /\ r[i].id < n
    BY <1>1, <1>3 DEF Ordered, Between
  <2>2. r[k + 1].plain => l < r[k + 1].id /\ r[k + 1].id < n
    BY <1>2, <1>3 DEF Ordered, Between
  <2>3. QED
    BY <1>3, <2>1, <2>2 DEF Between
<1>6. Upwards(r)
  <2>1. ASSUME NEW i \in 1..(k + 1), NEW j \in 1..(k + 1), i < j, r[i].plain, r[j].plain
        PROVE  r[i].id < r[j].id
    <3>1. i \in 1..k
      BY <1>3, <2>1
    <3>2. CASE j \in 1..k
      BY <1>1, <1>3, <2>1, <3>1, <3>2 DEF Ordered, Upwards
    <3>3. CASE j = k + 1
      BY <1>1, <1>2, <1>3, <2>1, <3>1, <3>3 DEF Ordered, Follows
    <3>4. QED
      BY <1>3, <3>2, <3>3
  <2>2. QED
    BY <1>3, <2>1 DEF Upwards
<1>7. Follows(r, v)
  <2>1. ASSUME NEW i \in 1..(k + 1), NEW j \in 1..Len(v), r[i].plain, v[j].plain
        PROVE  r[i].id < v[j].id
    <3>1. CASE i \in 1..k
      BY <1>1, <1>3, <1>4, <2>1, <3>1 DEF Ordered, Follows
    <3>2. CASE i = k + 1
      <4>1. r[i] = w[1] /\ v[j] = w[j + 1] /\ 1 \in 1..Len(w) /\ j + 1 \in 1..Len(w) /\ 1 < j + 1
        BY <1>2, <1>3, <3>2
      <4>2. Upwards(w)
        BY DEF Ordered
      <4>3. QED
        BY <2>1, <4>1, <4>2 DEF Upwards
    <3>3. QED
      BY <1>3, <3>1, <3>2
  <2>2. QED
    BY <1>3, <2>1 DEF Follows
<1>8. QED
  BY <1>1, <1>4, <1>5, <1>6, <1>7 DEF Ordered

(* The first message of the queue is dispatched.                            *)
LEMMA DispatchedOrder ==
    ASSUME NEW inc \in Seq(MessageType), NEW w \in Seq(MessageType), NEW l \in Nat, NEW n \in Nat,
           Ordered(inc, w, l, n), inc # <<>>, NEW k, k = IF Head(inc).plain THEN Head(inc).id ELSE l
    PROVE  Ordered(Tail(inc), w, k, n) /\ k >= l /\ k \in Nat
<1>1. PICK v, m : v = Tail(inc) /\ m = Head(inc)
  OBVIOUS
<1>2. /\ Len(inc) \in Nat /\ 1 \in 1..Len(inc) /\ m = inc[1] /\ m \in MessageType
      /\ Len(v) \in Nat /\ \A i \in 1..Len(v) : i + 1 \in 1..Len(inc) /\ 1 < i + 1 /\ v[i] = inc[i + 1]
  BY <1>1, TailOf
<1>3. Ordered(v, w, l, n)
  <2>1. Thinned(v, inc) /\ Thinned(w, w)
    BY <1>1, SameThinned, TailThinned
  <2>2. QED
    BY <2>1, ThinnedOrder
<1>4. CASE ~m.plain
  BY <1>1, <1>3, <1>4
<1>5. CASE m.plain
  <2>1. k = m.id /\ k \in Nat /\ l < k /\ k < n
    BY <1>1, <1>2, <1>5 DEF Ordered, Between, MessageType
  <2>2. Between(v, k, n)
    <3>1. ASSUME NEW i \in 1..Len(v), v[i].plain PROVE k < v[i].id /\ v[i].id < n
      <4>1. v[i].id < n
        BY <1>3, <3>1 DEF Ordered, Between
      <4>2. inc[1].id < inc[i + 1].id
        BY <1>2, <1>5, <3>1 DEF Ordered, Upwards
      <4>3. QED
        BY <1>2, <2>1, <4>1, <4>2
    <3>2. QED
      BY <3>1 DEF Between
  <2>3. Between(w, k, n)
    <3>1. ASSUME NEW i \in 1..Len(w), w[i].plain PROVE k < w[i].id /\ w[i].id < n
      <4>1. w[i].id < n
        BY <3>1 DEF Ordered, Between
      <4>2. inc[1].id < w[i].id
        BY <1>2, <1>5, <3>1 DEF Ordered, Follows
      <4>3. QED
        BY <1>2, <2>1, <4>1, <4>2
    <3>2. QED
      BY <3>1 DEF Between
  <2>4. QED
    BY <1>1, <1>3, <2>1, <2>2, <2>3 DEF Ordered
<1>6. QED
  BY <1>4, <1>5

-----------------------------------------------------------------------------
(* The queues of the ends.                                                  *)

LEMMA QueueFacts ==
    ASSUME TypeInv, PlainInv, NEW d \in Ends
    PROVE  /\ incoming[d] \in Seq(MessageType) /\ wire[d] \in Seq(MessageType)
           /\ lastPlain[d] \in Nat /\ nextId[d] \in Nat
           /\ Peer[d] \in Ends /\ nextId[Peer[d]] \in Nat /\ OrderOK(d)
BY DEF TypeInv, MessageTypes, CounterTypes, PlainInv

LEMMA LessOrder ==
    ASSUME TypeInv, TypeInv', PlainInv, NEW d \in Ends,
           Thinned(incoming'[d], incoming[d]), Thinned(wire'[d], wire[d]),
           lastPlain'[d] = lastPlain[d], nextId[Peer[d]] <= nextId'[Peer[d]]
    PROVE  OrderOK(d)'
<1>1. SUFFICES ASSUME Peer[d] \in OnlyWhenProcessing
               PROVE  Ordered(incoming'[d], wire'[d], lastPlain[d], nextId'[Peer[d]])
  BY DEF OrderOK
<1>2. Ordered(incoming[d], wire[d], lastPlain[d], nextId[Peer[d]])
  BY <1>1, QueueFacts DEF OrderOK
<1>3. nextId'[Peer[d]] \in Nat
  BY DEF TypeInv, CounterTypes
<1>4. QED
  BY <1>2, <1>3, QueueFacts, ThinnedOrder

LEMMA SameOrder ==
    ASSUME PlainInv, NEW d \in Ends, incoming'[d] = incoming[d], wire'[d] = wire[d],
           lastPlain'[d] = lastPlain[d], nextId'[Peer[d]] = nextId[Peer[d]]
    PROVE  OrderOK(d)'
BY DEF PlainInv, OrderOK

(* sendMessage(): a plain message has the next number, and is not marked.   *)
LEMMA SendOrder ==
    ASSUME TypeInv, TypeInv', PlainInv, NEW e \in Ends, NEW m \in MessageType, SendMessage(e, m),
           incoming' = incoming, lastPlain' = lastPlain,
           \/ nextId' = nextId /\ ~m.plain
           \/ /\ nextId' = [nextId EXCEPT ![e] = @ + 1] /\ m.id = nextId[e]
              /\ m.plain /\ e \in OnlyWhenProcessing => ~m.marked,
           NEW d \in Ends
    PROVE  OrderOK(d)'
<1>1. nextId[e] \in Nat /\ nextId'[e] \in Nat /\ nextId[e] <= nextId'[e]
  BY DEF TypeInv, CounterTypes
<1>2. CASE d # Peer[e]
  <2>1. Peer[d] # e
    BY <1>2
  <2>2. wire'[d] = wire[d]
    BY <1>2 DEF SendMessage, TypeInv, MessageTypes
  <2>3. nextId'[Peer[d]] = nextId[Peer[d]]
    BY <2>1 DEF TypeInv, CounterTypes
  <2>4. QED
    BY <2>2, <2>3, SameOrder
<1>3. CASE d = Peer[e]
  <2>1. Peer[d] = e
    BY <1>3
  <2>2. wire'[d] = Append(wire[d], m) \/ wire'[d] = wire[d]
    BY <1>3 DEF SendMessage, TypeInv, MessageTypes
  <2>3. CASE wire'[d] = wire[d]
    <3>1. Thinned(incoming'[d], incoming[d]) /\ Thinned(wire'[d], wire[d])
      BY <2>3, SameThinned, QueueFacts
    <3>2. QED
      BY <1>1, <2>1, <3>1, LessOrder
  <2>4. CASE wire'[d] = Append(wire[d], m)
    <3>1. SUFFICES ASSUME e \in OnlyWhenProcessing
                   PROVE  Ordered(incoming[d], Append(wire[d], m), lastPlain[d], nextId'[e])
      BY <2>1, <2>4 DEF OrderOK
    <3>2. Ordered(incoming[d], wire[d], lastPlain[d], nextId[e])
      BY <2>1, <3>1, QueueFacts DEF OrderOK
    <3>3. m.plain => ~m.marked /\ nextId[e] <= m.id /\ m.id < nextId'[e]
      <4>1. SUFFICES ASSUME m.plain PROVE ~m.marked /\ nextId[e] <= m.id /\ m.id < nextId'[e]
        OBVIOUS
      <4>2. nextId' = [nextId EXCEPT ![e] = @ + 1] /\ m.id = nextId[e] /\ ~m.marked
        BY <3>1, <4>1
      <4>3. nextId'[e] = nextId[e] + 1
        BY <4>2 DEF TypeInv, CounterTypes
      <4>4. QED
        BY <1>1, <4>2, <4>3
    <3>4. QED
      BY <1>1, <3>2, <3>3, QueueFacts, SentOrder
  <2>5. QED
    BY <2>2, <2>3, <2>4
<1>4. QED
  BY <1>2, <1>3

LEMMA ExitOrder ==
    ASSUME TypeInv, TypeInv', PlainInv, NEW p \in Processes, Exit(p), lastPlain' = lastPlain, nextId' = nextId,
           NEW d \in Ends
    PROVE  OrderOK(d)'
<1>1. CASE ProcessOf[d] = p
  <2>1. incoming'[d] = <<>> /\ wire'[d] = <<>>
    BY <1>1 DEF Exit, Reset
  <2>2. Thinned(incoming'[d], incoming[d]) /\ Thinned(wire'[d], wire[d])
    BY <2>1, EmptyThinned, QueueFacts
  <2>3. nextId[Peer[d]] <= nextId'[Peer[d]]
    BY QueueFacts
  <2>4. QED
    BY <2>2, <2>3, LessOrder
<1>2. CASE ProcessOf[d] # p
  <2>1. incoming'[d] = incoming[d] /\ wire'[d] = wire[d]
    BY <1>2 DEF Exit, Reset
  <2>2. QED
    BY <2>1, SameOrder
<1>3. QED
  BY <1>1, <1>2

\* No end goes back in the order of the plain messages it dispatches.
Onwards ==
    /\ lastPlain' \in [Ends -> Nat]
    /\ \A e \in Ends : Peer[e] \in OnlyWhenProcessing => lastPlain'[e] >= lastPlain[e]

LEMMA NothingDispatched ==
    ASSUME PlainInv, lastPlain' = lastPlain
    PROVE  Onwards
BY DEF PlainInv, Onwards

LEMMA QuietOrder ==
    ASSUME PlainInv, UNCHANGED <<incoming, wire, lastPlain, nextId>>
    PROVE  Onwards /\ \A d \in Ends : OrderOK(d)'
BY NothingDispatched, SameOrder

(* dispatchOneMessage()                                                     *)
LEMMA DispatchOneOrder ==
    ASSUME TypeInv, TypeInv', PlainInv, NEW p \in Processes, NEW e \in EndsOf(p), DispatchOneMessage(p, e)
    PROVE  Onwards /\ \A d \in Ends : OrderOK(d)'
<1>1. wire' = wire /\ nextId' = nextId /\ e \in Ends
  BY DEF DispatchOneMessage, EndsOf
<1>2. CASE incoming[e] = <<>>
  BY <1>1, <1>2, QuietOrder DEF DispatchOneMessage
<1>3. CASE incoming[e] # <<>>
  <2>1. PICK m \in MessageType : m = Head(incoming[e])
    BY <1>1, <1>3, TailOf, QueueFacts
  <2>2. /\ incoming' = [incoming EXCEPT ![e] = Tail(@)]
        /\ lastPlain' = lastPlain \/ lastPlain' = IF m.plain THEN [lastPlain EXCEPT ![e] = m.id] ELSE lastPlain
    BY <1>3, <2>1 DEF DispatchOneMessage, Dispatch
  <2>3. lastPlain \in [Ends -> Nat] /\ m.id \in Nat
    BY <2>1 DEF PlainInv, MessageType
  <2>4. \A d \in Ends : d # e => incoming'[d] = incoming[d] /\ lastPlain'[d] = lastPlain[d]
    BY <1>1, <2>2, <2>3 DEF TypeInv, MessageTypes
  <2>5. incoming'[e] = Tail(incoming[e])
    BY <1>1, <2>2 DEF TypeInv, MessageTypes
  <2>6. \A d \in Ends : d # e => OrderOK(d)'
    BY <1>1, <2>4, SameOrder
  <2>7. CASE lastPlain' = lastPlain
    <3>1. Thinned(incoming'[e], incoming[e]) /\ Thinned(wire'[e], wire[e])
      BY <1>1, <1>3, <2>5, TailThinned, SameThinned, QueueFacts
    <3>2. nextId[Peer[e]] <= nextId'[Peer[e]]
      BY <1>1, QueueFacts
    <3>3. OrderOK(e)'
      BY <1>1, <2>7, <3>1, <3>2, LessOrder
    <3>4. QED
      BY <2>6, <2>7, <3>3, NothingDispatched
  <2>8. CASE lastPlain' = IF m.plain THEN [lastPlain EXCEPT ![e] = m.id] ELSE lastPlain
    <3>1. lastPlain'[e] = (IF Head(incoming[e]).plain THEN Head(incoming[e]).id ELSE lastPlain[e])
          /\ lastPlain' \in [Ends -> Nat]
      BY <1>1, <2>1, <2>3, <2>8
    <3>2. ASSUME Peer[e] \in OnlyWhenProcessing
          PROVE  Ordered(Tail(incoming[e]), wire[e], lastPlain'[e], nextId[Peer[e]]) /\ lastPlain'[e] >= lastPlain[e]
      <4>1. Ordered(incoming[e], wire[e], lastPlain[e], nextId[Peer[e]])
        BY <1>1, <3>2, QueueFacts DEF OrderOK
      <4>2. QED
        BY <1>1, <1>3, <3>1, <4>1, QueueFacts, DispatchedOrder
    <3>3. OrderOK(e)'
      BY <1>1, <2>5, <3>2 DEF OrderOK
    <3>4. ASSUME NEW d \in Ends, Peer[d] \in OnlyWhenProcessing PROVE lastPlain'[d] >= lastPlain[d]
      BY <2>3, <2>4, <3>2, <3>4
    <3>5. QED
      BY <2>6, <3>1, <3>3, <3>4 DEF Onwards
  <2>9. QED
    BY <2>2, <2>7, <2>8
<1>4. QED
  BY <1>2, <1>3

(* dispatchMessages(): what was set aside is not plain where it matters.    *)
LEMMA DispatchFromBatchOrder ==
    ASSUME TypeInv, TypeInv', PlainInv, NEW p \in Processes, DispatchFromBatch(p)
    PROVE  Onwards /\ \A d \in Ends : OrderOK(d)'
<1> DEFINE f == Last(stack[p])
<1>1. /\ stack[p] # <<>> /\ stack[p] \in Seq(Frames(p)) /\ f \in Frames(p) /\ f.at = "batch"
      /\ f.batch \in Seq(Entries(p)) /\ f.batch # <<>>
  BY TopFrame, FrameFields DEF DispatchFromBatch, IsTop, TypeInv, StackType
<1>2. PICK entry \in Entries(p) : entry = Head(f.batch) /\ entry = f.batch[1] /\ 1 \in 1..Len(f.batch)
  BY <1>1, TailOf
<1>3. incoming' = incoming /\ wire' = wire /\ nextId' = nextId
  BY DEF DispatchFromBatch, queueVars
<1>4. CASE lastPlain' = lastPlain
  BY <1>3, <1>4, QuietOrder
<1>5. CASE Dispatch(entry.end, entry.msg)
  <2>1. NonePlain(f.batch)
    <3>1. Len(stack[p]) \in 1..Len(stack[p]) /\ f = stack[p][Len(stack[p])]
      BY <1>1 DEF Last
    <3>2. QED
      BY <1>1, <3>1 DEF PlainInv, AsideOK, FrameClear
  <2>2. entry.end \in Ends /\ entry.msg.id \in Nat
    BY <1>2 DEF Entries, EndsOf, MessageType
  <2>3. Peer[entry.end] \in OnlyWhenProcessing => ~entry.msg.plain
    BY <1>2, <2>1 DEF NonePlain
  <2>4. lastPlain \in [Ends -> Nat] /\ lastPlain' \in [Ends -> Nat]
    BY <1>5, <2>2 DEF Dispatch, PlainInv
  <2>5. ASSUME NEW d \in Ends, Peer[d] \in OnlyWhenProcessing PROVE lastPlain'[d] = lastPlain[d]
    BY <1>5, <2>2, <2>3, <2>4, <2>5 DEF Dispatch
  <2>6. Onwards
    BY <2>4, <2>5 DEF Onwards
  <2>7. ASSUME NEW d \in Ends PROVE OrderOK(d)'
    BY <1>3, <2>5 DEF PlainInv, OrderOK
  <2>8. QED
    BY <2>6, <2>7
<1>6. QED
  BY <1>2, <1>4, <1>5 DEF DispatchFromBatch

LEMMA EndSyncOrder ==
    ASSUME TypeInv, TypeInv', PlainInv, NEW p \in Processes, NEW e, NEW b, EndSync(p, e, b),
           UNCHANGED <<nextId, lastPlain>>
    PROVE  Onwards /\ \A d \in Ends : OrderOK(d)'
<1>1. CASE Exit(p)
  BY <1>1, ExitOrder, NothingDispatched
<1>2. CASE UNCHANGED <<incoming, wire>>
  BY <1>2, QuietOrder
<1>3. QED
  BY <1>1, <1>2 DEF EndSync

(* Every step of a main thread.                                             *)
LEMMA MainOrder ==
    ASSUME TypeInv, TypeInv', PlainInv, NEW p \in Processes, MainStep(p) \/ Deadline(p) \/ Crash(p)
    PROVE  Onwards /\ \A d \in Ends : OrderOK(d)'
<1> DEFINE f == Last(stack[p])
           Goal == Onwards /\ \A d \in Ends : OrderOK(d)'
<1>1. ASSUME ReturnFromHandler(p) PROVE Goal
  <2>1. incoming' = incoming /\ nextId' = nextId /\ lastPlain' = lastPlain
    BY <1>1 DEF ReturnFromHandler
  <2>2. f.end \in Ends /\ f.msg \in MessageType
    <3>1. f \in Frames(p) /\ f.at = "handler"
      BY <1>1, TopFrame DEF ReturnFromHandler, IsTop, TypeInv
    <3>2. QED
      BY <3>1, FrameFields DEF EndsOf
  <2>3. PICK m \in MessageType : m = Message("reply", f.msg.id, FALSE, FALSE)
    BY <2>2 DEF Message, MessageType
  <2>4. ~m.plain
    BY <2>3 DEF Message
  <2>5. CASE SendMessage(f.end, m)
    BY <2>1, <2>2, <2>4, <2>5, SendOrder, NothingDispatched
  <2>6. CASE wire' = wire
    BY <2>1, <2>6, QuietOrder
  <2>7. QED
    BY <1>1, <2>3, <2>5, <2>6 DEF ReturnFromHandler
<1>2. ASSUME Swap(p) \/ FinishBatch(p) \/ WakeUp(p) PROVE Goal
  BY <1>2, QuietOrder DEF Swap, FinishBatch, WakeUp, queueVars
<1>3. ASSUME RegisterWait(p) \/ TestWait(p) \/ WakeFromWait(p) \/ WaitTimesOut(p) PROVE Goal
  BY <1>3, QuietOrder DEF RegisterWait, TestWait, WakeFromWait, WaitTimesOut, queueVars
<1>4. ASSUME CheckSyncReply(p) PROVE Goal
  <2>1. nextId' = nextId /\ lastPlain' = lastPlain
    BY <1>4 DEF CheckSyncReply
  <2>2. CASE EndSync(p, f.end, Last(pending[f.end]).reply)
    BY <2>1, <2>2, EndSyncOrder
  <2>3. CASE UNCHANGED <<incoming, wire>>
    BY <2>1, <2>3, QuietOrder
  <2>4. QED
    BY <1>4, <2>2, <2>3 DEF CheckSyncReply
<1>5. ASSUME TimeOut(p) PROVE Goal
  BY <1>5, EndSyncOrder DEF TimeOut
<1>6. ASSUME Crash(p) PROVE Goal
  BY <1>6, ExitOrder, NothingDispatched DEF Crash
<1>7. ASSUME NEW e \in EndsOf(p), DispatchMarked(p, e) \/ DidClose(p, e) PROVE Goal
  BY <1>7, QuietOrder DEF DispatchMarked, DidClose, queueVars
<1>8. QED
  BY <1>1, <1>2, <1>3, <1>4, <1>5, <1>6, <1>7, DispatchOneOrder, DispatchFromBatchOrder DEF MainStep, Deadline

(* A message is read, and not put into m_incomingMessages.                  *)
LEMMA ReadOrder ==
    ASSUME TypeInv, TypeInv', PlainInv, NEW e \in Ends, Receive(e), UNCHANGED <<incoming, nextId, lastPlain>>
    PROVE  Onwards /\ \A d \in Ends : OrderOK(d)'
<1>1. wire[e] # <<>> /\ wire'[e] = Tail(wire[e]) /\ \A d \in Ends : d # e => wire'[d] = wire[d]
  BY DEF Receive, TypeInv, MessageTypes
<1>2. \A d \in Ends : d # e => OrderOK(d)'
  BY <1>1, SameOrder
<1>3. Thinned(incoming'[e], incoming[e]) /\ Thinned(wire'[e], wire[e])
  BY <1>1, TailThinned, SameThinned, QueueFacts
<1>4. nextId[Peer[e]] <= nextId'[Peer[e]]
  BY QueueFacts
<1>5. OrderOK(e)'
  BY <1>3, <1>4, LessOrder
<1>6. QED
  BY <1>2, <1>5, NothingDispatched

(* The socket is closed.                                                    *)
LEMMA CloseOrder ==
    ASSUME TypeInv, TypeInv', PlainInv, NEW e \in Ends, Close(e), UNCHANGED <<incoming, nextId, lastPlain>>
    PROVE  Onwards /\ \A d \in Ends : OrderOK(d)'
<1>1. wire'[e] = <<>> /\ \A d \in Ends : d # e => wire'[d] = wire[d]
  BY DEF Close, TypeInv, MessageTypes
<1>2. \A d \in Ends : d # e => OrderOK(d)'
  BY <1>1, SameOrder
<1>3. Thinned(incoming'[e], incoming[e]) /\ Thinned(wire'[e], wire[e])
  BY <1>1, EmptyThinned, SameThinned, QueueFacts
<1>4. nextId[Peer[e]] <= nextId'[Peer[e]]
  BY QueueFacts
<1>5. OrderOK(e)'
  BY <1>3, <1>4, LessOrder
<1>6. QED
  BY <1>2, <1>5, NothingDispatched

LEMMA QueueOrder ==
    ASSUME TypeInv, TypeInv', PlainInv, NEW e \in Ends, QueueStep(e)
    PROVE  Onwards /\ \A d \in Ends : OrderOK(d)'
<1> DEFINE Goal == Onwards /\ \A d \in Ends : OrderOK(d)'
<1>1. ASSUME ProcessIncomingSyncReply(e) \/ ProcessMarkedMessage(e) PROVE Goal
  BY <1>1, ReadOrder DEF ProcessIncomingSyncReply, ProcessMarkedMessage
<1>2. ASSUME PlatformInvalidate(e) \/ ConnectionDidClose(e) PROVE Goal
  BY <1>2, CloseOrder DEF PlatformInvalidate, ConnectionDidClose
<1>3. ASSUME ProcessOtherMessage(e) PROVE Goal
  <2>1. Receive(e) /\ nextId' = nextId /\ lastPlain' = lastPlain
    BY <1>3 DEF ProcessOtherMessage
  <2>2. CASE incoming' = incoming
    BY <2>1, <2>2, ReadOrder
  <2>3. CASE incoming' = [incoming EXCEPT ![e] = Append(@, Head(wire[e]))]
    <3>1. /\ wire[e] # <<>> /\ wire'[e] = Tail(wire[e]) /\ incoming'[e] = Append(incoming[e], Head(wire[e]))
          /\ \A d \in Ends : d # e => wire'[d] = wire[d] /\ incoming'[d] = incoming[d]
      BY <2>1, <2>3 DEF Receive, TypeInv, MessageTypes
    <3>2. \A d \in Ends : d # e => OrderOK(d)'
      BY <2>1, <3>1, SameOrder
    <3>3. ASSUME Peer[e] \in OnlyWhenProcessing
          PROVE  Ordered(incoming'[e], wire'[e], lastPlain[e], nextId[Peer[e]])
      <4>1. Ordered(incoming[e], wire[e], lastPlain[e], nextId[Peer[e]])
        BY <3>3, QueueFacts DEF OrderOK
      <4>2. QED
        BY <3>1, <4>1, QueueFacts, ReceivedOrder
    <3>4. OrderOK(e)'
      BY <2>1, <3>3 DEF OrderOK
    <3>5. QED
      BY <2>1, <3>2, <3>4, NothingDispatched
  <2>4. QED
    BY <1>3, <2>2, <2>3 DEF ProcessOtherMessage
<1>4. QED
  BY <1>1, <1>2, <1>3 DEF QueueStep

(* What a client sends while no marked message is processed is not marked.  *)
LEMMA ClientSendOrder ==
    ASSUME TypeInv, TypeInv', PlainInv, NEW e \in Ends, NEW kind \in {"async", "awaited", "sync"}, NEW wanted \in BOOLEAN,
           CountSend(e), UNCHANGED <<incoming, lastPlain>>,
           SendMessage(e, Message(kind, nextId[e], Marks(e, wanted), ~ProcessingMarked(e)))
    PROVE  Onwards /\ \A d \in Ends : OrderOK(d)'
<1>1. nextId[e] \in Nat /\ Marks(e, wanted) \in BOOLEAN /\ (~ProcessingMarked(e)) \in BOOLEAN
  BY DEF TypeInv, CounterTypes, Marks, ProcessingMarked
<1>2. PICK m \in MessageType : m = Message(kind, nextId[e], Marks(e, wanted), ~ProcessingMarked(e))
  BY <1>1 DEF Message, MessageType
<1>3. m.id = nextId[e] /\ (m.marked <=> Marks(e, wanted)) /\ (m.plain <=> ~ProcessingMarked(e))
  BY <1>2 DEF Message
<1>4. m.plain /\ e \in OnlyWhenProcessing => ~m.marked
  BY <1>3 DEF Marks
<1>5. nextId' = [nextId EXCEPT ![e] = @ + 1]
  BY DEF CountSend
<1>6. \A d \in Ends : OrderOK(d)'
  BY <1>2, <1>3, <1>4, <1>5, SendOrder
<1>7. QED
  BY <1>6, NothingDispatched

LEMMA StartWaitOrder ==
    ASSUME TypeInv, TypeInv', PlainInv, NEW e \in Ends, StartWait(e)
    PROVE  Onwards /\ \A d \in Ends : OrderOK(d)'
<1>1. wire' = wire /\ nextId' = nextId /\ lastPlain' = lastPlain
  BY DEF StartWait
<1>2. CASE incoming' = incoming
  BY <1>1, <1>2, QuietOrder
<1>3. CASE /\ SelectInSeq(incoming[e], IsAwaited) # 0
           /\ incoming' = [incoming EXCEPT ![e] = RemoveAt(@, SelectInSeq(incoming[e], IsAwaited))]
  <2>1. PICK k \in 1..Len(incoming[e]) : k = SelectInSeq(incoming[e], IsAwaited)
    BY <1>3, QueueFacts, SelectInSeqIndex
  <2>2. incoming'[e] = RemoveAt(incoming[e], k) /\ \A d \in Ends : d # e => incoming'[d] = incoming[d]
    BY <1>3, <2>1 DEF TypeInv, MessageTypes
  <2>3. \A d \in Ends : d # e => OrderOK(d)'
    BY <1>1, <2>2, SameOrder
  <2>4. Thinned(incoming'[e], incoming[e]) /\ Thinned(wire'[e], wire[e])
    BY <1>1, <2>2, RemoveThinned, SameThinned, QueueFacts
  <2>5. nextId[Peer[e]] <= nextId'[Peer[e]]
    BY <1>1, QueueFacts
  <2>6. OrderOK(e)'
    BY <1>1, <2>4, <2>5, LessOrder
  <2>7. QED
    BY <1>1, <2>3, <2>6, NothingDispatched
<1>4. QED
  BY <1>2, <1>3 DEF StartWait

LEMMA RegisterOrder ==
    ASSUME TypeInv, TypeInv', PlainInv, NEW e \in Ends, CountSend(e), UNCHANGED <<incoming, wire, lastPlain>>
    PROVE  Onwards /\ \A d \in Ends : OrderOK(d)'
<1>1. ASSUME NEW d \in Ends PROVE OrderOK(d)'
  <2>1. nextId[Peer[d]] <= nextId'[Peer[d]]
    BY DEF CountSend, TypeInv, CounterTypes
  <2>2. Thinned(incoming'[d], incoming[d]) /\ Thinned(wire'[d], wire[d])
    BY SameThinned, QueueFacts
  <2>3. QED
    BY <2>1, <2>2, LessOrder
<1>2. QED
  BY <1>1, NothingDispatched

(* Every step of a work queue, a secondary thread or a client.              *)
LEMMA EndOrder ==
    ASSUME TypeInv, TypeInv', PlainInv, NEW e \in Ends, QueueStep(e) \/ SecondaryStep(e) \/ ClientCall(e)
    PROVE  Onwards /\ \A d \in Ends : OrderOK(d)'
<1> DEFINE Goal == Onwards /\ \A d \in Ends : OrderOK(d)'
<1>1. ASSUME SecondarySend(e) PROVE Goal
  <2>1. secondary[e].id \in Nat
    BY DEF TypeInv, SecondaryType
  <2>2. PICK m \in MessageType : m = Message("sync", secondary[e].id, FALSE, FALSE)
    BY <2>1 DEF Message, MessageType
  <2>3. ~m.plain
    BY <2>2 DEF Message
  <2>4. SendMessage(e, m) /\ incoming' = incoming /\ nextId' = nextId /\ lastPlain' = lastPlain
    BY <1>1, <2>2 DEF SecondarySend
  <2>5. \A d \in Ends : OrderOK(d)'
    BY <2>3, <2>4, SendOrder
  <2>6. QED
    BY <2>4, <2>5, NothingDispatched
<1>2. ASSUME SecondaryReturn(e) \/ Invalidate(e) PROVE Goal
  BY <1>2, QuietOrder DEF SecondaryReturn, Invalidate, queueVars
<1>3. ASSUME NEW kind \in AsyncKinds, NEW wanted \in BOOLEAN, SendAsync(e, kind, wanted) PROVE Goal
  BY <1>3, ClientSendOrder DEF SendAsync
<1>4. ASSUME SendSync(e) PROVE Goal
  BY <1>4, ClientSendOrder DEF SendSync
<1>5. ASSUME FailToSendSync(e) PROVE Goal
  BY <1>5, ExitOrder, NothingDispatched DEF FailToSendSync
<1>6. ASSUME SecondaryRegister(e) PROVE Goal
  BY <1>6, RegisterOrder DEF SecondaryRegister
<1>7. QED
  BY <1>1, <1>2, <1>3, <1>4, <1>5, <1>6, QueueOrder, StartWaitOrder DEF SecondaryStep, ClientCall

-----------------------------------------------------------------------------
(* What is set aside for a main thread that waits.                          *)

LEMMA AsideEdited ==
    ASSUME TypeInv, NEW p \in Processes, AsideOK(p), NonePlain(toDispatch'[p]),
           NEW n \in Nat, n <= Len(stack[p]), NEW fs \in Seq(Frames(p)), Edited(stack[p], stack'[p], n, fs),
           \A i \in 1..Len(fs) : FrameClear(fs[i])
    PROVE  AsideOK(p)'
<1>1. Len(stack[p]) \in Nat /\ Len(fs) \in Nat
  BY DEF TypeInv, StackType
<1>2. ASSUME NEW i \in 1..Len(stack'[p]) PROVE FrameClear(stack'[p][i])
  <2>1. i \in 1..(n + Len(fs))
    BY <1>2 DEF Edited
  <2>2. CASE i \in 1..n
    <3>1. stack'[p][i] = stack[p][i] /\ i \in 1..Len(stack[p])
      BY <1>1, <2>2 DEF Edited
    <3>2. QED
      BY <3>1 DEF AsideOK
  <2>3. CASE i \notin 1..n
    <3>1. i - n \in 1..Len(fs) /\ n + (i - n) = i
      BY <1>1, <2>1, <2>3
    <3>2. stack'[p][n + (i - n)] = fs[i - n]
      BY <3>1 DEF Edited
    <3>3. QED
      BY <3>1, <3>2
  <2>4. QED
    BY <2>2, <2>3
<1>3. QED
  BY <1>2 DEF AsideOK, FrameClear, NonePlain

(* A step of p's main thread puts no plain message on its stack.            *)
ClearStep(p) ==
    \/ stack'[p] = stack[p]
    \/ stack[p] # <<>> /\ Pop(p)
    \/ \E g \in Frames(p) : FrameClear(g) /\ (Push(p, <<g>>) \/ (stack[p] # <<>> /\ SetTop(p, g)))
    \/ \E g, h \in Frames(p) :
          /\ FrameClear(g) /\ FrameClear(h)
          /\ \/ Push(p, <<g, h>>)
             \/ stack[p] # <<>> /\ stack' = [stack EXCEPT ![p] = Front(@) \o <<g, h>>]

LEMMA AsideStack ==
    ASSUME TypeInv, NEW p \in Processes, AsideOK(p), NonePlain(toDispatch'[p]), ClearStep(p)
    PROVE  AsideOK(p)'
<1>1. StackType /\ stack[p] \in Seq(Frames(p)) /\ Len(stack[p]) \in Nat
  BY DEF TypeInv, StackType
<1>2. /\ stack[p] # <<>> => Len(stack[p]) - 1 \in Nat /\ Len(stack[p]) - 1 <= Len(stack[p])
      /\ Len(stack[p]) <= Len(stack[p])
  BY <1>1
<1>3. CASE stack'[p] = stack[p]
  BY <1>3 DEF AsideOK, FrameClear, NonePlain
<1>4. CASE stack[p] # <<>> /\ Pop(p)
  <2>1. PICK fs \in Seq(Frames(p)) : fs = <<>>
    BY ShortSequences, Zenon
  <2>2. \A i \in 1..Len(fs) : FrameClear(fs[i])
    BY <2>1
  <2>3. Edited(stack[p], stack'[p], Len(stack[p]) - 1, fs)
    BY <1>1, <1>4, <2>1, StackOps
  <2>4. QED
    BY <1>2, <1>4, <2>2, <2>3, AsideEdited, Zenon
<1>5. ASSUME NEW g \in Frames(p), FrameClear(g), Push(p, <<g>>) \/ (stack[p] # <<>> /\ SetTop(p, g))
      PROVE  AsideOK(p)'
  <2>1. PICK fs \in Seq(Frames(p)) : fs = <<g>>
    BY ShortSequences, Zenon
  <2>2. \A i \in 1..Len(fs) : FrameClear(fs[i])
    BY <1>5, <2>1
  <2>3. CASE Push(p, fs)
    <3>1. Edited(stack[p], stack'[p], Len(stack[p]), fs)
      BY <1>1, <2>3, StackOps
    <3>2. QED
      BY <1>1, <1>2, <2>2, <3>1, AsideEdited, Zenon
  <2>4. CASE stack[p] # <<>> /\ SetTop(p, g)
    <3>1. Edited(stack[p], stack'[p], Len(stack[p]) - 1, fs)
      BY <1>1, <2>1, <2>4, StackOps
    <3>2. QED
      BY <1>2, <2>2, <2>4, <3>1, AsideEdited, Zenon
  <2>5. QED
    BY <1>5, <2>1, <2>3, <2>4
<1>6. ASSUME NEW g \in Frames(p), NEW h \in Frames(p), FrameClear(g), FrameClear(h),
             \/ Push(p, <<g, h>>)
             \/ stack[p] # <<>> /\ stack' = [stack EXCEPT ![p] = Front(@) \o <<g, h>>]
      PROVE  AsideOK(p)'
  <2>1. PICK fs \in Seq(Frames(p)) : fs = <<g, h>>
    BY ShortSequences
  <2>2. \A i \in 1..Len(fs) : FrameClear(fs[i])
    <3>1. Len(fs) = 2 /\ fs[1] = g /\ fs[2] = h
      BY <2>1
    <3>2. \A i \in 1..2 : i = 1 \/ i = 2
      OBVIOUS
    <3>3. QED
      BY <1>6, <3>1, <3>2
  <2>3. CASE Push(p, fs)
    <3>1. Edited(stack[p], stack'[p], Len(stack[p]), fs)
      BY <1>1, <2>3, StackOps
    <3>2. QED
      BY <1>1, <1>2, <2>2, <3>1, AsideEdited, Zenon
  <2>4. CASE stack[p] # <<>> /\ stack' = [stack EXCEPT ![p] = Front(@) \o fs]
    <3>1. Edited(stack[p], stack'[p], Len(stack[p]) - 1, fs)
      BY <1>1, <2>4, StackOps
    <3>2. QED
      BY <1>2, <2>2, <2>4, <3>1, AsideEdited, Zenon
  <2>5. QED
    BY <1>6, <2>1, <2>3, <2>4
<1>7. QED
  BY <1>3, <1>4, <1>5, <1>6 DEF ClearStep

(* The frames that hold no messages.                                        *)
LEMMA ClearFrames ==
    ASSUME NEW p \in Processes, NEW e \in EndsOf(p)
    PROVE  /\ \A m \in MessageType : HandlerFrame(e, m) \in Frames(p) /\ FrameClear(HandlerFrame(e, m))
           /\ \A n \in Nat, at \in {"check", "wait"} : SyncFrame(at, e, n) \in Frames(p) /\ FrameClear(SyncFrame(at, e, n))
           /\ \A a \in {e, Null} : SwapFrame(a) \in Frames(p) /\ FrameClear(SwapFrame(a))
           /\ \A at \in {"register", "test", "sleep"} : WaitFrame(at, e) \in Frames(p) /\ FrameClear(WaitFrame(at, e))
<1>1. /\ \A m : HandlerFrame(e, m).at # "batch"
      /\ \A n, at : SyncFrame(at, e, n).at = at
      /\ \A a : SwapFrame(a).at # "batch"
      /\ \A at : WaitFrame(at, e).at = at
  BY DEF HandlerFrame, SyncFrame, SwapFrame, WaitFrame
<1>2. QED
  BY <1>1, FramesMade DEF FrameClear

LEMMA AsideAppend ==
    ASSUME NEW S, NEW q \in Seq(S), NEW x \in S, NonePlain(q), Peer[x.end] \in OnlyWhenProcessing => ~x.msg.plain
    PROVE  NonePlain(Append(q, x))
<1>1. PICK r : r = Append(q, x)
  OBVIOUS
<1>2. /\ Len(r) = Len(q) + 1 /\ r[Len(q) + 1] = x
      /\ \A i \in 1..Len(q) : r[i] = q[i]
      /\ \A i \in 1..(Len(q) + 1) : i # Len(q) + 1 => i \in 1..Len(q)
  BY <1>1, AppendOf
<1>3. NonePlain(r)
  <2>1. ASSUME NEW i \in 1..Len(r) PROVE Peer[r[i].end] \in OnlyWhenProcessing => ~r[i].msg.plain
    BY <1>2 DEF NonePlain
  <2>2. QED
    BY <2>1 DEF NonePlain
<1>4. QED
  BY <1>1, <1>3

LEMMA AsideConcat ==
    ASSUME NEW S, NEW q \in Seq(S), NEW r \in Seq(S), NonePlain(q), NonePlain(r)
    PROVE  NonePlain(q \o r)
<1>1. PICK t, k, l : t = q \o r /\ k = Len(q) /\ l = Len(r)
  OBVIOUS
<1>2. /\ k \in Nat /\ l \in Nat /\ Len(t) = k + l
      /\ \A i \in 1..(k + l) : t[i] = IF i <= k THEN q[i] ELSE r[i - k]
  BY <1>1, ConcatProperties
<1>3. ASSUME NEW i \in 1..Len(t) PROVE Peer[t[i].end] \in OnlyWhenProcessing => ~t[i].msg.plain
  <2>1. i \in 1..(k + l)
    BY <1>2
  <2>2. CASE i <= k
    <3>1. i \in 1..k /\ t[i] = q[i]
      BY <1>2, <2>1, <2>2
    <3>2. QED
      BY <1>1, <3>1 DEF NonePlain
  <2>3. CASE ~(i <= k)
    <3>1. i - k \in 1..l /\ t[i] = r[i - k]
      BY <1>2, <2>1, <2>3
    <3>2. QED
      BY <1>1, <3>1 DEF NonePlain
  <2>4. QED
    BY <2>2, <2>3
<1>4. NonePlain(t)
  BY <1>3 DEF NonePlain
<1>5. QED
  BY <1>1, <1>4

LEMMA AsideTail ==
    ASSUME NEW S, NEW q \in Seq(S), q # <<>>, NonePlain(q)
    PROVE  NonePlain(Tail(q))
<1>1. PICK t : t = Tail(q)
  OBVIOUS
<1>2. \A i \in 1..Len(t) : i + 1 \in 1..Len(q) /\ t[i] = q[i + 1]
  BY <1>1, TailOf
<1>3. NonePlain(t)
  BY <1>2 DEF NonePlain
<1>4. QED
  BY <1>1, <1>3

(* A step that leaves the queue alone.                                      *)
LEMMA AsideKept ==
    ASSUME TypeInv, PlainInv, NEW p \in Processes, toDispatch'[p] = toDispatch[p], ClearStep(p)
    PROVE  AsideOK(p)'
<1>1. AsideOK(p)
  BY DEF PlainInv
<1>2. NonePlain(toDispatch'[p])
  BY <1>1 DEF AsideOK
<1>3. QED
  BY <1>1, <1>2, AsideStack

LEMMA SwapAside ==
    ASSUME TypeInv, PlainInv, NEW p \in Processes, Swap(p)
    PROVE  AsideOK(p)'
<1> DEFINE f == Last(stack[p])
<1>1. stack[p] # <<>> /\ f.end \in EndsOf(p) \cup {Null}
  BY TopFrame, FrameFields DEF Swap, IsTop, TypeInv
<1>2. AsideOK(p)
  BY DEF PlainInv
<1>3. PICK none \in Seq(Entries(p)) : none = <<>>
  BY ShortSequences
<1>4. NonePlain(none)
  BY <1>3 DEF NonePlain
<1>5. toDispatch[p] \in Seq(Entries(p)) /\ NonePlain(toDispatch[p]) /\ toDispatch'[p] = none
  BY <1>2, <1>3 DEF Swap, TypeInv, ToDispatchType, AsideOK
<1>6. PICK g \in Frames(p) : g = BatchFrame(f.end, toDispatch[p], none)
  BY <1>1, <1>5, BatchMade
<1>7. g.batch = toDispatch[p] /\ g.back = none
  BY <1>6 DEF BatchFrame
<1>8. FrameClear(g)
  BY <1>4, <1>5, <1>7 DEF FrameClear
<1>9. SetTop(p, g)
  BY <1>3, <1>6 DEF Swap
<1>10. ClearStep(p)
  BY <1>1, <1>8, <1>9 DEF ClearStep
<1>11. QED
  BY <1>2, <1>4, <1>5, <1>10, AsideStack

LEMMA DispatchFromBatchAside ==
    ASSUME TypeInv, PlainInv, NEW p \in Processes, DispatchFromBatch(p)
    PROVE  AsideOK(p)'
<1> DEFINE f == Last(stack[p])
<1>1. /\ stack[p] # <<>> /\ stack[p] \in Seq(Frames(p)) /\ f \in Frames(p) /\ f.at = "batch"
      /\ f.end \in EndsOf(p) \cup {Null} /\ f.batch \in Seq(Entries(p)) /\ f.back \in Seq(Entries(p))
      /\ f.batch # <<>>
  BY TopFrame, FrameFields DEF DispatchFromBatch, IsTop, TypeInv, StackType
<1>2. NonePlain(f.batch) /\ NonePlain(f.back)
  <2>1. Len(stack[p]) \in 1..Len(stack[p]) /\ f = stack[p][Len(stack[p])]
    BY <1>1 DEF Last
  <2>2. FrameClear(f)
    BY <2>1 DEF PlainInv, AsideOK
  <2>3. QED
    BY <1>1, <2>2 DEF FrameClear
<1>3. PICK entry \in Entries(p) : entry = Head(f.batch) /\ entry = f.batch[1] /\ 1 \in 1..Len(f.batch)
  BY <1>1, TailOf
<1>4. PICK rest \in Seq(Entries(p)) : rest = Tail(f.batch) /\ NonePlain(rest)
  BY <1>1, <1>2, TailOf, AsideTail
<1>5. PICK kept \in Seq(Entries(p)) : kept = Append(f.back, entry) /\ NonePlain(kept)
  <2>1. Peer[entry.end] \in OnlyWhenProcessing => ~entry.msg.plain
    BY <1>2, <1>3 DEF NonePlain
  <2>2. Append(f.back, entry) \in Seq(Entries(p))
    BY <1>1, AppendOf
  <2>3. NonePlain(Append(f.back, entry))
    BY <1>1, <1>2, <2>1, AsideAppend
  <2>4. QED
    BY <2>2, <2>3
<1>6. ASSUME NEW back \in Seq(Entries(p)), NonePlain(back)
      PROVE  BatchFrame(f.end, rest, back) \in Frames(p) /\ FrameClear(BatchFrame(f.end, rest, back))
  <2>1. PICK g \in Frames(p) : g = BatchFrame(f.end, rest, back)
    BY <1>1, BatchMade
  <2>2. g.batch = rest /\ g.back = back
    BY <2>1 DEF BatchFrame
  <2>3. FrameClear(g)
    BY <1>4, <1>6, <2>2 DEF FrameClear
  <2>4. QED
    BY <2>1, <2>3
<1>7. PICK g \in Frames(p), u \in Frames(p) :
         /\ g = BatchFrame(f.end, rest, f.back) /\ u = BatchFrame(f.end, rest, kept)
         /\ FrameClear(g) /\ FrameClear(u)
  BY <1>1, <1>2, <1>5, <1>6
<1>8. PICK h \in Frames(p) : h = HandlerFrame(entry.end, entry.msg) /\ FrameClear(h)
  BY <1>3, ClearFrames DEF Entries
<1>9. toDispatch' = toDispatch
  BY DEF DispatchFromBatch
<1>10. SetTop(p, u) \/ SetTop(p, g) \/ stack' = [stack EXCEPT ![p] = Front(@) \o <<g, h>>]
  BY <1>3, <1>4, <1>5, <1>7, <1>8 DEF DispatchFromBatch
<1>11. ClearStep(p)
  BY <1>1, <1>7, <1>8, <1>10 DEF ClearStep
<1>12. QED
  BY <1>9, <1>11, AsideKept

LEMMA FinishBatchAside ==
    ASSUME TypeInv, PlainInv, NEW p \in Processes, FinishBatch(p)
    PROVE  AsideOK(p)'
<1> DEFINE f == Last(stack[p])
<1>1. /\ stack[p] # <<>> /\ stack[p] \in Seq(Frames(p)) /\ f \in Frames(p) /\ f.at = "batch"
      /\ f.back \in Seq(Entries(p))
  BY TopFrame, FrameFields DEF FinishBatch, IsTop, TypeInv, StackType
<1>2. AsideOK(p)
  BY DEF PlainInv
<1>3. NonePlain(f.back)
  <2>1. Len(stack[p]) \in 1..Len(stack[p]) /\ f = stack[p][Len(stack[p])]
    BY <1>1 DEF Last
  <2>2. FrameClear(f)
    BY <1>2, <2>1 DEF AsideOK
  <2>3. QED
    BY <1>1, <2>2 DEF FrameClear
<1>4. toDispatch[p] \in Seq(Entries(p)) /\ toDispatch'[p] = toDispatch[p] \o f.back /\ Pop(p)
  BY DEF FinishBatch, TypeInv, ToDispatchType
<1>5. NonePlain(toDispatch[p])
  BY <1>2 DEF AsideOK
<1>6. NonePlain(toDispatch'[p])
  BY <1>1, <1>3, <1>4, <1>5, AsideConcat
<1>7. ClearStep(p)
  BY <1>1, <1>4 DEF ClearStep
<1>8. QED
  BY <1>2, <1>6, <1>7, AsideStack

(* The process ends.                                                        *)
LEMMA ExitAside ==
    ASSUME TypeInv, NEW p \in Processes, Exit(p)
    PROVE  AsideOK(p)'
<1>1. stack'[p] = <<>> /\ toDispatch'[p] = <<>>
  BY DEF Exit, TypeInv, StackType, ToDispatchType
<1>2. QED
  BY <1>1 DEF AsideOK, NonePlain

LEMMA EndSyncAside ==
    ASSUME TypeInv, PlainInv, NEW p \in Processes, stack[p] # <<>>, NEW e, NEW b, EndSync(p, e, b)
    PROVE  AsideOK(p)'
<1>1. CASE Exit(p)
  BY <1>1, ExitAside
<1>2. CASE Pop(p) /\ UNCHANGED toDispatch
  <2>1. ClearStep(p)
    BY <1>2 DEF ClearStep
  <2>2. QED
    BY <1>2, <2>1, AsideKept
<1>3. QED
  BY <1>1, <1>2 DEF EndSync

(* Every step of a main thread.                                             *)
LEMMA MainAside ==
    ASSUME TypeInv, PlainInv, NEW p \in Processes, MainStep(p) \/ Deadline(p) \/ Crash(p)
    PROVE  AsideOK(p)'
<1> DEFINE f == Last(stack[p])
<1>1. ASSUME NEW at, IsTop(p, at) PROVE stack[p] # <<>> /\ f \in Frames(p) /\ f.at = at
  BY <1>1, TopFrame DEF IsTop, TypeInv
<1>2. ASSUME ReturnFromHandler(p) PROVE AsideOK(p)'
  <2>1. stack[p] # <<>> /\ Pop(p) /\ toDispatch' = toDispatch
    BY <1>1, <1>2 DEF ReturnFromHandler
  <2>2. QED
    BY <2>1, AsideKept DEF ClearStep
<1>3. ASSUME CheckSyncReply(p) PROVE AsideOK(p)'
  <2>1. stack[p] # <<>> /\ f.end \in EndsOf(p) /\ f.id \in Nat
    BY <1>1, <1>3, FrameFields DEF CheckSyncReply
  <2>2. CASE EndSync(p, f.end, Last(pending[f.end]).reply)
    BY <2>1, <2>2, EndSyncAside
  <2>3. CASE SetTop(p, SyncFrame("wait", f.end, f.id)) /\ UNCHANGED toDispatch
    <3>1. PICK g \in Frames(p) : g = SyncFrame("wait", f.end, f.id) /\ FrameClear(g)
      BY <2>1, ClearFrames
    <3>2. ClearStep(p)
      BY <2>1, <2>3, <3>1 DEF ClearStep
    <3>3. QED
      BY <2>3, <3>2, AsideKept
  <2>4. QED
    BY <1>3, <2>2, <2>3 DEF CheckSyncReply
<1>4. ASSUME TimeOut(p) PROVE AsideOK(p)'
  <2>1. stack[p] # <<>> /\ EndSync(p, f.end, FALSE)
    BY <1>1, <1>4 DEF TimeOut
  <2>2. QED
    BY <2>1, EndSyncAside
<1>5. ASSUME WakeUp(p) PROVE AsideOK(p)'
  <2>1. stack[p] # <<>> /\ f.end \in EndsOf(p) /\ f.id \in Nat
    BY <1>1, <1>5, FrameFields DEF WakeUp
  <2>2. PICK g \in Frames(p), h \in Frames(p) :
           g = SyncFrame("check", f.end, f.id) /\ h = SwapFrame(Null) /\ FrameClear(g) /\ FrameClear(h)
    BY <2>1, ClearFrames
  <2>3. stack' = [stack EXCEPT ![p] = Front(@) \o <<g, h>>] /\ toDispatch' = toDispatch
    BY <1>5, <2>2 DEF WakeUp
  <2>4. ClearStep(p)
    BY <2>1, <2>2, <2>3 DEF ClearStep
  <2>5. QED
    BY <2>3, <2>4, AsideKept
<1>6. ASSUME RegisterWait(p) \/ TestWait(p) \/ WakeFromWait(p) \/ WaitTimesOut(p) PROVE AsideOK(p)'
  <2>1. IsTop(p, "register") \/ IsTop(p, "test") \/ IsTop(p, "sleep")
    BY <1>6 DEF RegisterWait, TestWait, WakeFromWait, WaitTimesOut
  <2>2. stack[p] # <<>> /\ f.end \in EndsOf(p)
    BY <1>1, <2>1, FrameFields
  <2>3. toDispatch' = toDispatch
    BY <1>6 DEF RegisterWait, TestWait, WakeFromWait, WaitTimesOut
  <2>4. PICK m \in MessageType : m = Message("awaited", 0, FALSE, FALSE)
    BY DEF Message, MessageType
  <2>5. \/ Pop(p)
        \/ \E at \in {"register", "test", "sleep"} : SetTop(p, WaitFrame(at, f.end))
        \/ SetTop(p, HandlerFrame(f.end, m))
    BY <1>6, <2>4 DEF RegisterWait, TestWait, WakeFromWait, WaitTimesOut
  <2>6. /\ \A at \in {"register", "test", "sleep"} :
              WaitFrame(at, f.end) \in Frames(p) /\ FrameClear(WaitFrame(at, f.end))
        /\ HandlerFrame(f.end, m) \in Frames(p) /\ FrameClear(HandlerFrame(f.end, m))
    BY <2>2, ClearFrames
  <2>7. Pop(p) \/ \E g \in Frames(p) : FrameClear(g) /\ SetTop(p, g)
    BY <2>5, <2>6
  <2>8. ClearStep(p)
    BY <2>2, <2>7 DEF ClearStep
  <2>9. QED
    BY <2>3, <2>8, AsideKept
<1>7. ASSUME NEW e \in EndsOf(p), DispatchOneMessage(p, e) PROVE AsideOK(p)'
  <2>1. toDispatch' = toDispatch /\ e \in Ends
    BY <1>7 DEF DispatchOneMessage, EndsOf
  <2>2. CASE UNCHANGED stack
    BY <2>1, <2>2, AsideKept DEF ClearStep
  <2>3. CASE incoming[e] # <<>> /\ Push(p, <<HandlerFrame(e, Head(incoming[e]))>>)
    <3>1. Head(incoming[e]) \in MessageType
      BY <2>1, <2>3, QueueFacts, TailOf
    <3>2. PICK g \in Frames(p) : g = HandlerFrame(e, Head(incoming[e])) /\ FrameClear(g)
      BY <3>1, ClearFrames
    <3>3. ClearStep(p)
      BY <2>3, <3>2 DEF ClearStep
    <3>4. QED
      BY <2>1, <3>3, AsideKept
  <2>4. QED
    BY <1>7, <2>2, <2>3 DEF DispatchOneMessage
<1>8. ASSUME NEW e \in EndsOf(p), DispatchMarked(p, e) PROVE AsideOK(p)'
  <2>1. PICK g \in Frames(p) : g = SwapFrame(e) /\ FrameClear(g)
    BY ClearFrames
  <2>2. Push(p, <<g>>) /\ toDispatch' = toDispatch
    BY <1>8, <2>1 DEF DispatchMarked
  <2>3. ClearStep(p)
    BY <2>1, <2>2 DEF ClearStep
  <2>4. QED
    BY <2>2, <2>3, AsideKept
<1>9. ASSUME NEW e \in EndsOf(p), DidClose(p, e) PROVE AsideOK(p)'
  BY <1>9, AsideKept DEF DidClose, ClearStep
<1>10. ASSUME Crash(p) PROVE AsideOK(p)'
  BY <1>10, ExitAside DEF Crash
<1>11. QED
  BY <1>2, <1>3, <1>4, <1>5, <1>6, <1>7, <1>8, <1>9, <1>10, SwapAside, DispatchFromBatchAside, FinishBatchAside
     DEF MainStep, Deadline

(* SyncMessageState::processIncomingMessage() sets aside a marked message.  *)
LEMMA ProcessMarkedAside ==
    ASSUME TypeInv, PlainInv, NEW e \in Ends, ProcessMarkedMessage(e)
    PROVE  AsideOK(ProcessOf[e])'
<1>1. PICK p \in Processes : p = ProcessOf[e] /\ e \in EndsOf(p)
  BY DEF EndsOf
<1>2. wire[e] \in Seq(MessageType) /\ wire[e] # <<>> /\ Head(wire[e]).marked
  BY QueueFacts DEF ProcessMarkedMessage, Receive
<1>3. PICK m \in MessageType : m = Head(wire[e]) /\ m = wire[e][1] /\ 1 \in 1..Len(wire[e]) /\ m.marked
  BY <1>2, TailOf
<1>4. PICK x \in Entries(p) : x = [end |-> e, msg |-> m] /\ x.end = e /\ x.msg = m
  <2>1. [end |-> e, msg |-> m] \in Entries(p)
    BY <1>1 DEF Entries
  <2>2. [end |-> e, msg |-> m].end = e /\ [end |-> e, msg |-> m].msg = m
    OBVIOUS
  <2>3. QED
    BY <2>1, <2>2, Zenon
<1>5. Peer[x.end] \in OnlyWhenProcessing => ~x.msg.plain
  BY <1>3, <1>4, QueueFacts DEF OrderOK, Ordered, NoneMarked
<1>6. AsideOK(p) /\ toDispatch[p] \in Seq(Entries(p))
  BY DEF PlainInv, TypeInv, ToDispatchType
<1>7. toDispatch'[p] = Append(toDispatch[p], x) /\ stack' = stack
  BY <1>1, <1>3, <1>4 DEF ProcessMarkedMessage, TypeInv, ToDispatchType
<1>8. NonePlain(toDispatch[p])
  BY <1>6 DEF AsideOK
<1>9. NonePlain(toDispatch'[p])
  BY <1>5, <1>6, <1>7, <1>8, AsideAppend
<1>10. ClearStep(p)
  BY <1>7 DEF ClearStep
<1>11. QED
  BY <1>1, <1>6, <1>9, <1>10, AsideStack

(* Every step of a work queue, a secondary thread or a client.              *)
LEMMA EndAside ==
    ASSUME TypeInv, PlainInv, NEW e \in Ends, QueueStep(e) \/ SecondaryStep(e) \/ ClientCall(e)
    PROVE  AsideOK(ProcessOf[e])'
<1>1. PICK p \in Processes : p = ProcessOf[e] /\ e \in EndsOf(p)
  BY DEF EndsOf
<1>2. ASSUME UNCHANGED <<stack, toDispatch>> PROVE AsideOK(p)'
  BY <1>2, AsideKept DEF ClearStep
<1>3. ASSUME ProcessIncomingSyncReply(e) \/ ProcessOtherMessage(e) \/ PlatformInvalidate(e) \/ ConnectionDidClose(e)
      PROVE  AsideOK(p)'
  BY <1>2, <1>3 DEF ProcessIncomingSyncReply, ProcessOtherMessage, PlatformInvalidate, ConnectionDidClose, processVars
<1>4. ASSUME SecondaryStep(e) PROVE AsideOK(p)'
  BY <1>2, <1>4 DEF SecondaryStep, SecondarySend, SecondaryReturn, processVars
<1>5. ASSUME Invalidate(e) \/ SecondaryRegister(e) PROVE AsideOK(p)'
  BY <1>2, <1>5 DEF Invalidate, SecondaryRegister, processVars
<1>6. ASSUME NEW kind, NEW wanted, SendAsync(e, kind, wanted) PROVE AsideOK(p)'
  BY <1>2, <1>6 DEF SendAsync
<1>7. ASSUME SendSync(e) PROVE AsideOK(p)'
  <2>1. nextId[e] \in Nat
    BY QueueFacts
  <2>2. PICK g \in Frames(p), h \in Frames(p) :
           g = SyncFrame("check", e, nextId[e]) /\ h = SwapFrame(Null) /\ FrameClear(g) /\ FrameClear(h)
    BY <1>1, <2>1, ClearFrames
  <2>3. Push(p, <<g, h>>) /\ toDispatch' = toDispatch
    BY <1>1, <1>7, <2>2 DEF SendSync
  <2>4. ClearStep(p)
    BY <2>2, <2>3 DEF ClearStep
  <2>5. QED
    BY <2>3, <2>4, AsideKept
<1>8. ASSUME FailToSendSync(e) PROVE AsideOK(p)'
  BY <1>1, <1>8, ExitAside DEF FailToSendSync
<1>9. ASSUME StartWait(e) PROVE AsideOK(p)'
  <2>1. \E g \in Frames(p) : FrameClear(g) /\ Push(p, <<g>>)
    <3>1. CASE Push(p, <<WaitFrame("register", e)>>)
      BY <1>1, <3>1, ClearFrames
    <3>2. CASE /\ SelectInSeq(incoming[e], IsAwaited) # 0
               /\ Push(p, <<HandlerFrame(e, incoming[e][SelectInSeq(incoming[e], IsAwaited)])>>)
      <4>1. PICK k \in 1..Len(incoming[e]) : k = SelectInSeq(incoming[e], IsAwaited)
        BY <3>2, QueueFacts, SelectInSeqIndex
      <4>2. incoming[e][k] \in MessageType
        BY QueueFacts, MessageIds
      <4>3. QED
        BY <1>1, <3>2, <4>1, <4>2, ClearFrames
    <3>3. QED
      BY <1>1, <1>9, <3>1, <3>2 DEF StartWait
  <2>2. toDispatch' = toDispatch
    BY <1>9 DEF StartWait
  <2>3. ClearStep(p)
    BY <2>1 DEF ClearStep
  <2>4. QED
    BY <2>2, <2>3, AsideKept
<1>10. QED
  BY <1>1, <1>3, <1>4, <1>5, <1>6, <1>7, <1>8, <1>9, ProcessMarkedAside DEF QueueStep, ClientCall

-----------------------------------------------------------------------------

LEMMA InitPlainInv == Init => PlainInv
<1> SUFFICES ASSUME Init PROVE PlainInv
  OBVIOUS
<1>1. lastPlain \in [Ends -> Nat]
  BY DEF Init
<1>2. ASSUME NEW e \in Ends PROVE OrderOK(e)
  <2>1. incoming[e] = <<>> /\ wire[e] = <<>> /\ lastPlain[e] = 0 /\ nextId[Peer[e]] = 1
    BY DEF Init
  <2>2. QED
    BY <2>1 DEF OrderOK, Ordered, Between, Upwards, Follows, NoneMarked
<1>3. ASSUME NEW p \in Processes PROVE AsideOK(p)
  <2>1. stack[p] = <<>> /\ toDispatch[p] = <<>>
    BY DEF Init
  <2>2. QED
    BY <2>1 DEF AsideOK, NonePlain
<1>4. QED
  BY <1>1, <1>2, <1>3 DEF PlainInv

LEMMA UntouchedAside ==
    ASSUME TypeInv, PlainInv, NEW q \in Processes, Untouched(q)
    PROVE  AsideOK(q)'
BY AsideKept DEF Untouched, ClearStep

LEMMA StepPlainInv == TypeInv /\ TypeInv' /\ PlainInv /\ [Next]_vars => PlainInv' /\ Onwards
<1> SUFFICES ASSUME TypeInv, TypeInv', PlainInv, [Next]_vars PROVE PlainInv' /\ Onwards
  OBVIOUS
<1>1. CASE UNCHANGED vars
  <2>1. UNCHANGED <<incoming, wire, lastPlain, nextId, stack, toDispatch>>
    BY <1>1 DEF vars, queueVars, processVars
  <2>2. Onwards /\ \A d \in Ends : OrderOK(d)'
    BY <2>1, QuietOrder
  <2>3. \A p \in Processes : AsideOK(p)'
    BY <2>1, AsideKept DEF ClearStep
  <2>4. QED
    BY <2>2, <2>3 DEF PlainInv, Onwards
<1>2. ASSUME NEW p \in Processes, MainStep(p) \/ Deadline(p) \/ Crash(p) PROVE PlainInv' /\ Onwards
  <2>1. Onwards /\ \A d \in Ends : OrderOK(d)'
    BY <1>2, MainOrder
  <2>2. \A q \in Processes : AsideOK(q)'
    BY <1>2, MainAside, MainStepTouches, UntouchedAside
  <2>3. QED
    BY <2>1, <2>2 DEF PlainInv, Onwards
<1>3. ASSUME NEW e \in Ends, QueueStep(e) \/ SecondaryStep(e) \/ ClientCall(e) PROVE PlainInv' /\ Onwards
  <2>1. Onwards /\ \A d \in Ends : OrderOK(d)'
    BY <1>3, EndOrder
  <2>2. \A q \in Processes : AsideOK(q)'
    BY <1>3, EndAside, EndStepTouches, UntouchedAside
  <2>3. QED
    BY <2>1, <2>2 DEF PlainInv, Onwards
<1>4. QED
  BY <1>1, <1>2, <1>3 DEF Next

(* However the waits of main threads nest, and whatever is lost, taken out  *)
(* by waitForMessage() or never read: the plain messages of a process with  *)
(* m_onlySendMessagesAsDispatchWhenWaitingForSyncReplyWhenProcessing... are *)
(* dispatched in the order they were sent.                                  *)
THEOREM PlainMessagesStayInOrder == Spec => PlainMessagesInOrder
<1> DEFINE InOrder == \A e \in Ends : Peer[e] \in OnlyWhenProcessing => lastPlain'[e] >= lastPlain[e]
<1>1. Spec => []TypeInv
  <2>1. ConnectionInv => TypeInv
    BY DEF ConnectionInv
  <2>2. QED
    BY <2>1, ConnectionInvHolds, PTL
<1>2. TypeInv /\ TypeInv' /\ PlainInv /\ [Next]_vars => PlainInv'
  BY StepPlainInv
<1>3. TypeInv /\ TypeInv' /\ PlainInv /\ [Next]_vars => [InOrder]_vars
  BY StepPlainInv DEF Onwards
<1>4. Spec => [][InOrder]_vars
  BY <1>1, <1>2, <1>3, InitPlainInv, PTL DEF Spec
<1>5. QED
  BY <1>4 DEF PlainMessagesInOrder
=============================================================================

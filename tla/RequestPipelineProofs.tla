------------------------ MODULE RequestPipelineProofs ------------------------
(***************************************************************************)
(* What RequestPipeline's safety run shows on three questions, for every   *)
(* set of questions and programs.                                          *)
(***************************************************************************)
EXTENDS RequestPipeline, SequenceTheorems, TLAPS

USE ProgramOfAssumption, NothingAssumption

(* RequestQHandler has a question from LeaveOrPop until it is done with it. *)
Working == {"lookup", "dialog", "reply", "trust", "insertItem", "block"}
TaskInv == task # Nothing <=> handler \in Working

(* What the handler knows of the queue at each point of its wait loop.  It *)
(* holds g_RQMutex from the test on, so nobody pushes before it sleeps.    *)
WaitInv ==
  /\ handler = "leave" /\ g_Running => g_RequestQueue # <<>>
  /\ handler = "sleep" => g_RequestQueue = <<>>
  /\ handler = "asleep" /\ g_RequestQueue # <<>> => msgThread = "notify"

(* The main thread passes Join only when the handler is done.              *)
PortInv ==
  /\ main \in {"cleanup", "exited"} => handler = "done"
  /\ g_Port = "closed" => main = "exited"

----------------------------------------------------------------------------
(* Type correctness.                                                       *)

LEMMA TypeInit == Init => TypeOK /\ TaskInv /\ WaitInv
  BY DEF Init, TypeOK, TaskInv, WaitInv, Working, NoDialog, Nothing, MainStates, FetchStates,
         HandlerStates, Settled

(* The handler's knowledge of the queue survives what other threads do.    *)
LEMMA WaitStep == TypeOK /\ WaitInv /\ [Next]_vars => WaitInv'
<1> SUFFICES ASSUME TypeOK, WaitInv, [Next]_vars PROVE WaitInv'
    OBVIOUS
<1> USE DEF WaitInv, mainVars, fetchVars, workVars, outsideHandler, handlerOnly
<1>1. CASE DriverStep
  BY <1>1 DEF DriverStep, Ask, GiveUp, DriverGone
<1>2. CASE FetchStep
  <2>1. CASE Push
    <3>1. g_RequestQueue \in Seq(Requests) /\ request \in Requests
      BY <2>1 DEF TypeOK, Push
    <3>2. Append(g_RequestQueue, request) # <<>>
      BY <3>1
    <3>3. QED
      BY <2>1, <3>2 DEF Push, RQMutexFree
  <2>2. CASE NotifyOne
    BY <2>2 DEF NotifyOne, Woken
  <2>3. CASE ~Push /\ ~NotifyOne
    BY <1>2, <2>3 DEF FetchStep, FetchLoop, GetMessageFails, GetMessage
  <2>4. QED
    BY <2>1, <2>2, <2>3
<1>3. CASE HandlerStep
  <2>1. CASE AcquireRQMutex \/ TestQueue \/ Sleep \/ WaitReturns \/ LeaveOrPop
    BY <2>1 DEF AcquireRQMutex, TestQueue, Sleep, WaitReturns, LeaveOrPop
  <2>2. CASE Lookup \/ DialogFails \/ UserAnswers \/ DialogTimesOut \/ DialogDestroyed
    BY <2>2 DEF Lookup, DialogFails, UserAnswers, DialogTimesOut, DialogDestroyed, GoReply
  <2>3. CASE Reply \/ Trust \/ InsertItem \/ Block
    BY <2>3 DEF Reply, Trust, InsertItem, Block, Finish
  <2>4. QED
    BY <1>3, <2>1, <2>2, <2>3 DEF HandlerStep
<1>4. CASE MainStep
  <2>1. CASE NotifyAll
    BY <2>1 DEF NotifyAll, MainGoto, outsideMain, Woken
  <2>2. CASE StopRunning
    BY <2>2 DEF StopRunning, MainGoto, outsideMain
  <2>3. CASE ~NotifyAll /\ ~StopRunning
    BY <1>4, <2>3
       DEF MainStep, MainGoto, outsideMain, OwnAccess, OwnAccessReturns, CreateWindow,
           FillLists, ListOperation, ListUpdated, SaveSettings, CloseWindow, Join,
           CleanupDriver
  <2>4. QED
    BY <2>1, <2>2, <2>3
<1>5. CASE UNCHANGED vars
  BY <1>5 DEF vars
<1>6. QED
  BY <1>1, <1>2, <1>3, <1>4, <1>5 DEF Next

LEMMA AbandonedType ==
  ASSUME sender \in [Requests -> Settled] PROVE Abandoned \in [Requests -> Settled]
  BY DEF Abandoned, Settled

LEMMA TypeStep == TypeOK /\ TaskInv /\ WaitInv /\ [Next]_vars => TypeOK' /\ TaskInv'
<1> SUFFICES ASSUME TypeOK, TaskInv, WaitInv, [Next]_vars PROVE TypeOK' /\ TaskInv'
    OBVIOUS
<1> USE DEF TypeOK, TaskInv, Working, mainVars, fetchVars, workVars, outsideHandler,
            handlerOnly, MainStates, FetchStates, HandlerStates
<1>1. CASE DriverStep
  <2>1. ASSUME NEW r \in Requests, Ask(r) PROVE TypeOK' /\ TaskInv'
    BY <2>1 DEF Ask, Settled
  <2>2. ASSUME NEW r \in Requests, GiveUp(r) PROVE TypeOK' /\ TaskInv'
    BY <2>2 DEF GiveUp, Settled
  <2>3. CASE DriverGone
    BY <2>3, AbandonedType DEF DriverGone
  <2>4. QED
    BY <1>1, <2>1, <2>2, <2>3 DEF DriverStep
<1>2. CASE FetchStep
  <2>1. CASE FetchLoop
    BY <2>1 DEF FetchLoop
  <2>2. CASE GetMessageFails
    BY <2>2 DEF GetMessageFails
  <2>3. CASE Push
    BY <2>3 DEF Push
  <2>4. CASE NotifyOne
    BY <2>4 DEF NotifyOne, Woken
  <2>5. ASSUME NEW r \in Requests, GetMessage(r) PROVE TypeOK' /\ TaskInv'
    BY <2>5 DEF GetMessage, Settled
  <2>6. QED
    BY <1>2, <2>1, <2>2, <2>3, <2>4, <2>5 DEF FetchStep
<1>3. CASE HandlerStep
  <2>1. CASE AcquireRQMutex
    BY <2>1 DEF AcquireRQMutex
  <2>2. CASE TestQueue
    BY <2>2 DEF TestQueue
  <2>3. CASE Sleep
    BY <2>3 DEF Sleep
  <2>4. CASE WaitReturns
    BY <2>4 DEF WaitReturns
  <2>5. CASE LeaveOrPop
    <3>1. CASE ~g_Running /\ g_RequestQueue = <<>>
      BY <2>5, <3>1 DEF LeaveOrPop
    <3>2. CASE ~(~g_Running /\ g_RequestQueue = <<>>)
      <4>1. g_RequestQueue # <<>>
        BY <2>5, <3>2 DEF LeaveOrPop, WaitInv
      <4>2. Head(g_RequestQueue) \in Requests /\ Tail(g_RequestQueue) \in Seq(Requests)
        BY <4>1
      <4>3. /\ handler = "leave" /\ handler' = "lookup"
            /\ task' = Head(g_RequestQueue) /\ g_RequestQueue' = Tail(g_RequestQueue)
        BY <2>5, <3>2 DEF LeaveOrPop
      <4>4. QED
        BY <2>5, <4>2, <4>3 DEF LeaveOrPop
    <3>3. QED
      BY <3>1, <3>2
  <2>6. CASE Lookup \/ DialogFails
    <3>1. CASE GoReply("ACCESS_DENIED")
      BY <2>6, <3>1 DEF Lookup, DialogFails, GoReply, NoDialog, Nothing, ReplyTypes
    <3>2. CASE GoReply("unknown")
      BY <2>6, <3>2 DEF Lookup, DialogFails, GoReply, NoDialog, Nothing, ReplyTypes
    <3>3. ASSUME NEW timer \in BOOLEAN, handler' = "dialog", UNCHANGED replyType,
                 dialog' = [shown |-> TRUE, timer |-> timer, owned |-> WindowExists]
          PROVE  TypeOK' /\ TaskInv'
      <4>1. WindowExists \in BOOLEAN
        BY DEF WindowExists
      <4>2. dialog' \in [shown : BOOLEAN, timer : BOOLEAN, owned : BOOLEAN]
        BY <3>3, <4>1
      <4>3. QED
        BY <2>6, <3>3, <4>2 DEF Lookup, DialogFails, GoReply
    <3>4. QED
      BY <2>6, <3>1, <3>2, <3>3 DEF Lookup, DialogFails
  <2>7. CASE UserAnswers
    BY <2>7 DEF UserAnswers, CanEnd, GoReply, NoDialog, Nothing, ReplyTypes
  <2>8. CASE DialogTimesOut
    BY <2>8 DEF DialogTimesOut, CanEnd, GoReply, NoDialog, Nothing, ReplyTypes
  <2>9. CASE DialogDestroyed
    BY <2>9 DEF DialogDestroyed, GoReply, NoDialog, Nothing, ReplyTypes
  <2>10. CASE Reply
    <3>1. sender' \in [Requests -> Settled]
      BY <2>10 DEF Reply, Settled
    <3>2. CASE Finish
      <4>1. processed' \in Seq(Requests)
        BY <2>10, <3>2 DEF Reply, Finish
      <4>2. QED
        BY <2>10, <3>1, <3>2, <4>1 DEF Reply, Finish
    <3>3. CASE handler' \in {"trust", "block"} /\ UNCHANGED <<task, replyType, processed>>
      BY <2>10, <3>1, <3>3 DEF Reply
    <3>4. QED
      BY <2>10, <3>2, <3>3 DEF Reply
  <2>11. CASE Trust
    BY <2>11 DEF Trust
  <2>12. CASE InsertItem
    BY <2>12 DEF InsertItem, Finish
  <2>13. CASE Block
    <3>1. ProgramOf[task] \in Programs
      BY <2>13 DEF Block
    <3>2. QED
      BY <2>13, <3>1 DEF Block, Finish
  <2>14. QED
    BY <1>3, <2>1, <2>2, <2>3, <2>4, <2>5, <2>6, <2>7, <2>8, <2>9, <2>10, <2>11,
       <2>12, <2>13 DEF HandlerStep
<1>4. CASE MainStep
  <2>1. ASSUME NEW r \in Requests, OwnAccess(r) PROVE TypeOK' /\ TaskInv'
    BY <2>1 DEF OwnAccess, MainGoto, outsideMain, Settled
  <2>2. CASE OwnAccessReturns
    BY <2>2 DEF OwnAccessReturns, outsideMain
  <2>3. CASE NotifyAll
    BY <2>3 DEF NotifyAll, MainGoto, outsideMain, Woken
  <2>4. CASE CleanupDriver
    BY <2>4, AbandonedType DEF CleanupDriver, MainGoto, outsideMain
  <2>5. CASE CreateWindow \/ FillLists \/ ListOperation \/ ListUpdated
    BY <2>5 DEF CreateWindow, FillLists, ListOperation, ListUpdated, MainGoto, outsideMain
  <2>6. CASE CloseWindow \/ Join
    BY <2>6 DEF CloseWindow, Join, MainGoto, outsideMain
  <2>7. CASE SaveSettings
    BY <2>7 DEF SaveSettings, outsideMain
  <2>8. CASE StopRunning
    <3>1. g_Running' \in BOOLEAN /\ main = "ended" /\ main' = "notify"
      BY <2>8 DEF StopRunning, MainGoto
    <3>2. UNCHANGED <<outsideMain, g_DefaultAction, own, handler, g_Port, sender>>
      BY <2>8 DEF StopRunning
    <3>3. QED
      BY <3>1, <3>2 DEF outsideMain
  <2>9. QED
    BY <1>4, <2>1, <2>2, <2>3, <2>4, <2>5, <2>6, <2>7, <2>8 DEF MainStep
<1>5. CASE UNCHANGED vars
  BY <1>5 DEF vars
<1>6. QED
  BY <1>1, <1>2, <1>3, <1>4, <1>5 DEF Next

(* The variables of the three threads only ever hold values of their       *)
(* types, on every path of the queue, of the dialog and of the shutdown.   *)
THEOREM TypeCorrect == Spec => []TypeOK
<1>1. QED
  BY TypeInit, TypeStep, WaitStep, PTL DEF Spec

(* front() and pop() are never called on an empty g_RequestQueue, whatever *)
(* ends the wait: a push, a timeout, a spurious return, the shutdown.      *)
THEOREM PopsNonEmpty == Spec => []PopsFromNonEmpty
<1>1. TypeOK /\ TaskInv /\ WaitInv => PopsFromNonEmpty
  BY DEF WaitInv, PopsFromNonEmpty
<1>2. QED
  BY <1>1, TypeInit, TypeStep, WaitStep, PTL DEF Spec

(* No wakeup for a question is lost, although MessageThread notifies after *)
(* it has released the mutex.                                              *)
THEOREM NoQuestionLost == Spec => []NoLostQuestion
<1>1. TypeOK /\ TaskInv /\ WaitInv => NoLostQuestion
  BY DEF WaitInv, NoLostQuestion
<1>2. QED
  BY <1>1, TypeInit, TypeStep, WaitStep, PTL DEF Spec

----------------------------------------------------------------------------
(* The shutdown.                                                           *)

LEMMA PortStep == TypeOK /\ PortInv /\ [Next]_vars => PortInv'
<1> SUFFICES ASSUME TypeOK, PortInv, [Next]_vars PROVE PortInv'
    OBVIOUS
<1> USE DEF PortInv, mainVars, fetchVars, workVars, outsideHandler, handlerOnly, outsideMain
<1>1. CASE DriverStep
  BY <1>1 DEF DriverStep, Ask, GiveUp, DriverGone
<1>2. CASE FetchStep
  BY <1>2 DEF FetchStep, FetchLoop, GetMessageFails, GetMessage, Push, NotifyOne, Woken
<1>3. CASE HandlerStep
  <2>1. UNCHANGED <<main, g_Port>> /\ handler # "done"
    BY <1>3 DEF HandlerStep, AcquireRQMutex, TestQueue, Sleep, WaitReturns, LeaveOrPop,
                Lookup, DialogFails, UserAnswers, DialogTimesOut, DialogDestroyed,
                CanEnd, Reply, Trust, InsertItem, Block
  <2>2. QED
    BY <2>1
<1>4. CASE MainStep
  <2>1. CASE NotifyAll
    BY <2>1 DEF NotifyAll, MainGoto
  <2>2. CASE Join \/ CleanupDriver
    BY <2>2 DEF Join, CleanupDriver, MainGoto
  <2>3. CASE CreateWindow \/ FillLists \/ ListOperation \/ ListUpdated \/ SaveSettings
    BY <2>3 DEF CreateWindow, FillLists, ListOperation, ListUpdated, SaveSettings, MainGoto
  <2>4. CASE CloseWindow \/ StopRunning \/ OwnAccessReturns
    BY <2>4 DEF CloseWindow, StopRunning, OwnAccessReturns, MainGoto
  <2>5. ASSUME NEW r \in Requests, OwnAccess(r) PROVE PortInv'
    BY <2>5 DEF OwnAccess, MainGoto
  <2>6. QED
    BY <1>4, <2>1, <2>2, <2>3, <2>4, <2>5 DEF MainStep
<1>5. CASE UNCHANGED vars
  BY <1>5 DEF vars
<1>6. QED
  BY <1>1, <1>2, <1>3, <1>4, <1>5 DEF Next

(* The port is never closed under a ProcessAccessRequest that will reply   *)
(* on it: the main thread joins the handler first.                         *)
THEOREM PortOutlives == Spec => []PortOutlivesHandler
<1>1. Init => PortInv
  BY DEF Init, PortInv
<1>2. PortInv => PortOutlivesHandler
  BY DEF PortInv, PortOutlivesHandler
<1>3. QED
  BY <1>1, <1>2, TypeInit, TypeStep, WaitStep, PortStep, PTL DEF Spec

----------------------------------------------------------------------------
(* The way of a question through both threads.                             *)

LEMMA AppendSingleton ==
  ASSUME NEW S, NEW s \in Seq(S), NEW e \in S
  PROVE  Append(s, e) = s \o <<e>>
  OBVIOUS

LEMMA HeadConcatTail ==
  ASSUME NEW S, NEW s \in Seq(S), s # <<>>
  PROVE  s = <<Head(s)>> \o Tail(s)
  OBVIOUS

(* Done with, in work, and the rest: in the order of fetching.             *)
LEMMA OrderTypes ==
  ASSUME TypeOK
  PROVE  /\ fetched \in Seq(Requests) /\ processed \in Seq(Requests)
         /\ g_RequestQueue \in Seq(Requests)
         /\ One(task) \in Seq(Requests) /\ One(request) \in Seq(Requests)
         /\ processed \o One(task) \in Seq(Requests)
         /\ processed \o One(task) \o g_RequestQueue \in Seq(Requests)
<1>1. /\ fetched \in Seq(Requests) /\ processed \in Seq(Requests)
      /\ g_RequestQueue \in Seq(Requests)
      /\ One(task) \in Seq(Requests) /\ One(request) \in Seq(Requests)
  BY DEF TypeOK, One
<1>2. processed \o One(task) \in Seq(Requests)
  BY <1>1, ConcatProperties
<1>3. QED
  BY <1>1, <1>2, ConcatProperties

LEMMA FinishOrder ==
  ASSUME TypeOK, FetchedInOrder, task # Nothing, Finish,
         UNCHANGED <<fetched, g_RequestQueue, request>>
  PROVE  FetchedInOrder'
<1>1. task \in Requests /\ processed \in Seq(Requests)
  BY DEF TypeOK
<1>2. One(task) = <<task>> /\ One(task)' = <<>> /\ One(request)' = One(request)
  BY DEF One, Finish
<1>3. processed' = processed \o <<task>>
  BY <1>1, AppendSingleton DEF Finish
<1>4. processed' \o <<>> = processed \o One(task)
  BY <1>1, <1>2, <1>3, OrderTypes, ConcatEmptySeq
<1>5. QED
  BY <1>2, <1>4 DEF FetchedInOrder

LEMMA OrderStep ==
  TypeOK /\ TaskInv /\ WaitInv /\ FetchedInOrder /\ [Next]_vars => FetchedInOrder'
<1> SUFFICES ASSUME TypeOK, TaskInv, WaitInv, FetchedInOrder, [Next]_vars
             PROVE  FetchedInOrder'
    OBVIOUS
<1> DEFINE unmoved == UNCHANGED <<fetched, processed, task, g_RequestQueue, request>>
<1>1. ASSUME unmoved PROVE FetchedInOrder'
  BY <1>1 DEF FetchedInOrder, One
<1> USE DEF mainVars, fetchVars, workVars, outsideHandler, handlerOnly, outsideMain
<1>2. CASE DriverStep
  BY <1>1, <1>2 DEF DriverStep, Ask, GiveUp, DriverGone
<1>3. CASE FetchStep
  <2>1. ASSUME NEW r \in Requests, GetMessage(r) PROVE FetchedInOrder'
    <3>1. One(request) = <<>> /\ One(request)' = <<r>> /\ One(task)' = One(task)
      BY <2>1 DEF GetMessage, TypeOK, One
    <3>2. fetched = processed \o One(task) \o g_RequestQueue
      BY <3>1, OrderTypes, ConcatEmptySeq DEF FetchedInOrder
    <3>3. fetched' = processed \o One(task) \o g_RequestQueue \o <<r>>
      BY <2>1, <3>2, OrderTypes, AppendSingleton DEF GetMessage
    <3>4. QED
      BY <2>1, <3>1, <3>3 DEF GetMessage, FetchedInOrder
  <2>2. CASE Push
    <3>1. /\ request \in Requests /\ One(request) = <<request>>
          /\ One(request)' = <<>> /\ One(task)' = One(task)
      BY <2>2 DEF Push, TypeOK, One
    <3>2. g_RequestQueue' = g_RequestQueue \o <<request>>
      BY <2>2, <3>1, OrderTypes, AppendSingleton DEF Push
    <3>3. processed \o One(task) \o (g_RequestQueue \o <<request>>)
            = processed \o One(task) \o g_RequestQueue \o <<request>>
      BY <3>1, OrderTypes, ConcatAssociative
    <3>4. processed \o One(task) \o g_RequestQueue \o <<request>> \in Seq(Requests)
      BY <3>1, OrderTypes, ConcatProperties
    <3>5. QED
      BY <2>2, <3>1, <3>2, <3>3, <3>4, ConcatEmptySeq DEF Push, FetchedInOrder
  <2>3. CASE FetchLoop \/ GetMessageFails \/ NotifyOne
    BY <1>1, <2>3 DEF FetchLoop, GetMessageFails, NotifyOne
  <2>4. QED
    BY <1>3, <2>1, <2>2, <2>3 DEF FetchStep
<1>4. CASE HandlerStep
  <2>1. CASE LeaveOrPop
    <3>1. CASE UNCHANGED <<task, g_RequestQueue>>
      BY <1>1, <2>1, <3>1 DEF LeaveOrPop
    <3>2. CASE ~(~g_Running /\ g_RequestQueue = <<>>)
      <4>1. g_RequestQueue # <<>> /\ task = Nothing
        BY <2>1, <3>2 DEF LeaveOrPop, WaitInv, TaskInv, Working
      <4>2. /\ task' = Head(g_RequestQueue) /\ g_RequestQueue' = Tail(g_RequestQueue)
            /\ UNCHANGED <<processed, fetched, request>>
        BY <2>1, <3>2 DEF LeaveOrPop
      <4>3. Head(g_RequestQueue) \in Requests /\ Tail(g_RequestQueue) \in Seq(Requests)
        BY <4>1, OrderTypes, HeadTailProperties
      <4>4. One(task) = <<>> /\ One(task)' = <<Head(g_RequestQueue)>>
            /\ One(request)' = One(request)
        BY <4>1, <4>2, <4>3 DEF One
      <4>5. processed \o One(task) = processed
        BY <4>4, OrderTypes, ConcatEmptySeq
      <4>6. g_RequestQueue = One(task)' \o g_RequestQueue'
        BY <4>1, <4>2, <4>4, OrderTypes, HeadConcatTail
      <4>7. processed \o (One(task)' \o g_RequestQueue')
              = processed \o One(task)' \o g_RequestQueue'
        <5>1. <<Head(g_RequestQueue)>> \in Seq(Requests) /\ processed \in Seq(Requests)
          BY <4>3, OrderTypes
        <5>2. processed \o (<<Head(g_RequestQueue)>> \o Tail(g_RequestQueue))
                = processed \o <<Head(g_RequestQueue)>> \o Tail(g_RequestQueue)
          BY <4>3, <5>1, ConcatAssociative
        <5>3. QED
          BY <4>2, <4>4, <5>2
      <4>8. QED
        BY <4>2, <4>4, <4>5, <4>6, <4>7 DEF FetchedInOrder
    <3>3. QED
      BY <2>1, <3>1, <3>2 DEF LeaveOrPop
  <2>2. CASE Reply \/ InsertItem \/ Block
    <3>1. task # Nothing /\ UNCHANGED <<fetched, g_RequestQueue, request>>
      BY <2>2 DEF Reply, InsertItem, Block, TaskInv, Working
    <3>2. Finish \/ unmoved
      BY <2>2 DEF Reply, InsertItem, Block
    <3>3. QED
      BY <1>1, <3>1, <3>2, FinishOrder
  <2>3. CASE AcquireRQMutex \/ TestQueue \/ Sleep \/ WaitReturns \/ Trust
    BY <1>1, <2>3 DEF AcquireRQMutex, TestQueue, Sleep, WaitReturns, Trust
  <2>4. CASE Lookup \/ DialogFails \/ UserAnswers \/ DialogTimesOut \/ DialogDestroyed
    BY <1>1, <2>4 DEF Lookup, DialogFails, UserAnswers, DialogTimesOut, DialogDestroyed
  <2>5. QED
    BY <1>4, <2>1, <2>2, <2>3, <2>4 DEF HandlerStep
<1>5. CASE MainStep
  BY <1>1, <1>5
     DEF MainStep, CreateWindow, FillLists, ListOperation, ListUpdated, SaveSettings,
         CloseWindow, StopRunning, NotifyAll, Join, CleanupDriver, OwnAccess,
         OwnAccessReturns
<1>6. CASE UNCHANGED vars
  BY <1>1, <1>6 DEF vars
<1>7. QED
  BY <1>2, <1>3, <1>4, <1>5, <1>6 DEF Next

(* Every question that MessageThread fetched is processed once, in the     *)
(* order of fetching, or still in the queue or in one of the two threads.  *)
THEOREM InOrder == Spec => []FetchedInOrder
<1>1. Init => FetchedInOrder
  BY ConcatEmptySeq DEF Init, FetchedInOrder, One
<1>2. QED
  BY <1>1, TypeInit, TypeStep, WaitStep, OrderStep, PTL DEF Spec

----------------------------------------------------------------------------
(* The answers.                                                            *)

(* The driver still waits, or has yet to be asked.                         *)
Undecided == {"unsent", "queued", "waiting"}

(* How many of the fetched questions RequestQHandler has replied to.       *)
Answered == Len(processed) + (IF handler \in {"trust", "insertItem", "block"} THEN 1 ELSE 0)

(* No question is fetched twice.  The driver has decided the ones that     *)
(* were replied to, and waits for the others unless it gave up.            *)
AnswerInv ==
  /\ g_Port # "open" => \A r \in Requests : sender[r] \notin {"queued", "waiting"}
  /\ \A i, j \in 1..Len(fetched) : fetched[i] = fetched[j] => i = j
  /\ \A i \in 1..Len(fetched) :
       IF i <= Answered THEN sender[fetched[i]] \notin Undecided
       ELSE sender[fetched[i]] \in {"waiting", "over"}

LEMMA Places ==
  ASSUME TypeOK, TaskInv, FetchedInOrder
  PROVE  /\ Len(processed) \in Nat /\ Len(fetched) \in Nat
         /\ Len(processed) <= Len(fetched)
         /\ \A i \in 1..Len(fetched) : fetched[i] \in Requests
         /\ \A i \in 1..Len(processed) : processed[i] = fetched[i]
         /\ task # Nothing => /\ Len(processed) + 1 <= Len(fetched)
                              /\ fetched[Len(processed) + 1] = task
<1> DEFINE begun == processed \o One(task)
           queued == begun \o g_RequestQueue
<1>1. /\ fetched \in Seq(Requests) /\ processed \in Seq(Requests)
      /\ g_RequestQueue \in Seq(Requests)
      /\ One(task) \in Seq(Requests) /\ One(request) \in Seq(Requests)
      /\ begun \in Seq(Requests) /\ queued \in Seq(Requests)
  BY OrderTypes
<1>2. /\ Len(begun) = Len(processed) + Len(One(task))
      /\ \A i \in 1..Len(processed) + Len(One(task)) :
           begun[i] = IF i <= Len(processed) THEN processed[i]
                      ELSE One(task)[i - Len(processed)]
  BY <1>1, ConcatProperties
<1>3. /\ Len(queued) = Len(begun) + Len(g_RequestQueue)
      /\ \A i \in 1..Len(begun) + Len(g_RequestQueue) :
           queued[i] = IF i <= Len(begun) THEN begun[i] ELSE g_RequestQueue[i - Len(begun)]
  BY <1>1, ConcatProperties
<1>4. fetched = queued \o One(request)
  BY DEF FetchedInOrder
<1>5. /\ Len(fetched) = Len(queued) + Len(One(request))
      /\ \A i \in 1..Len(queued) + Len(One(request)) :
           fetched[i] = IF i <= Len(queued) THEN queued[i]
                        ELSE One(request)[i - Len(queued)]
  BY <1>1, <1>4, ConcatProperties
<1>6. /\ Len(processed) \in Nat /\ Len(g_RequestQueue) \in Nat /\ Len(fetched) \in Nat
      /\ Len(One(task)) \in Nat /\ Len(One(request)) \in Nat
      /\ Len(begun) \in Nat /\ Len(queued) \in Nat
  BY <1>1, LenProperties
<1> HIDE DEF begun, queued
<1>7. \A i \in 1..Len(begun) : fetched[i] = begun[i]
  BY <1>3, <1>5, <1>6
<1>8. task # Nothing => Len(One(task)) = 1 /\ One(task)[1] = task
  BY DEF One
<1>9. \A i \in 1..Len(fetched) : fetched[i] \in Requests
  BY <1>1, ElementOfSeq
<1>10. \A i \in 1..Len(processed) : processed[i] = fetched[i]
  BY <1>2, <1>6, <1>7
<1>11. ASSUME task # Nothing
       PROVE  /\ Len(processed) + 1 <= Len(fetched)
              /\ fetched[Len(processed) + 1] = task
  <2>1. Len(begun) = Len(processed) + 1
    BY <1>2, <1>8, <1>11
  <2>2. begun[Len(processed) + 1] = task
    <3>1. /\ Len(processed) + 1 \in 1..Len(processed) + Len(One(task))
          /\ ~(Len(processed) + 1 <= Len(processed))
          /\ Len(processed) + 1 - Len(processed) = 1
      <4>1. \A k \in Nat : /\ k + 1 \in 1..k + 1 /\ ~(k + 1 <= k)
                           /\ k + 1 - k = 1
        OBVIOUS
      <4>2. QED
        BY <1>6, <1>8, <1>11, <4>1
    <3>2. begun[Len(processed) + 1] = One(task)[Len(processed) + 1 - Len(processed)]
      BY <1>2, <3>1
    <3>3. QED
      BY <1>8, <1>11, <3>1, <3>2
  <2>3. QED
    BY <2>1, <2>2, <1>3, <1>5, <1>6, <1>7
<1>12. Len(processed) <= Len(fetched)
  BY <1>2, <1>3, <1>5, <1>6
<1>13. QED
  BY <1>6, <1>9, <1>10, <1>11, <1>12

(* A step that neither fetches nor answers nor finishes a question only    *)
(* lets the driver ask or give up.                                         *)
LEMMA AnswerKept ==
  ASSUME TypeOK, TaskInv, FetchedInOrder, AnswerInv,
         UNCHANGED <<fetched, processed>>, Answered' = Answered,
         g_Port' # "open" => \A r \in Requests : sender'[r] \notin {"queued", "waiting"},
         \A r \in Requests :
            \/ sender'[r] = sender[r]
            \/ sender[r] = "unsent" /\ sender'[r] = "queued"
            \/ sender[r] \in {"queued", "waiting"} /\ sender'[r] = "over"
  PROVE  AnswerInv'
  BY Places DEF AnswerInv, Undecided

LEMMA AnswerStep ==
  TypeOK /\ TaskInv /\ WaitInv /\ FetchedInOrder /\ AnswerInv /\ [Next]_vars => AnswerInv'
<1> SUFFICES ASSUME TypeOK, TaskInv, WaitInv, FetchedInOrder, AnswerInv, [Next]_vars
             PROVE  AnswerInv'
    OBVIOUS
<1> USE DEF mainVars, fetchVars, workVars, outsideHandler, handlerOnly, outsideMain
<1>1. ASSUME UNCHANGED <<fetched, processed, sender, g_Port>>, Answered' = Answered
      PROVE  AnswerInv'
  BY <1>1 DEF AnswerInv
<1>2. sender \in [Requests -> Settled]
  BY DEF TypeOK
<1>3. CASE DriverStep
  <2>1. UNCHANGED <<fetched, processed>> /\ Answered' = Answered
    BY <1>3 DEF DriverStep, Ask, GiveUp, DriverGone, Answered
  <2>2. ASSUME NEW r \in Requests, Ask(r) PROVE AnswerInv'
    BY <1>2, <2>1, <2>2, AnswerKept DEF Ask
  <2>3. ASSUME NEW r \in Requests, GiveUp(r) PROVE AnswerInv'
    BY <1>2, <2>1, <2>3, AnswerKept DEF GiveUp, AnswerInv
  <2>4. CASE DriverGone
    BY <1>2, <2>1, <2>4, AnswerKept DEF DriverGone, Abandoned
  <2>5. QED
    BY <1>3, <2>2, <2>3, <2>4 DEF DriverStep
<1>4. CASE FetchStep
  <2>1. ASSUME NEW r \in Requests, GetMessage(r) PROVE AnswerInv'
    <3>1. /\ fetched' = Append(fetched, r) /\ Answered' = Answered
          /\ g_Port = "open" /\ g_Port' = "open" /\ sender[r] = "queued"
          /\ sender' = [sender EXCEPT ![r] = "waiting"]
      BY <2>1 DEF GetMessage, Answered
    <3>2. /\ Len(fetched') = Len(fetched) + 1
          /\ fetched'[Len(fetched) + 1] = r
          /\ \A i \in 1..Len(fetched) : fetched'[i] = fetched[i]
      BY <3>1, OrderTypes
    <3>3. \A i \in 1..Len(fetched) : fetched[i] \in Requests /\ fetched[i] # r
      BY <3>1, Places DEF AnswerInv, Undecided
    <3>4. Answered <= Len(fetched) /\ Answered \in Nat
      BY Places DEF Answered, TaskInv, Working
    <3>5. \A i, j \in 1..Len(fetched') : fetched'[i] = fetched'[j] => i = j
      BY <3>2, <3>3, Places DEF AnswerInv
    <3>6. \A i \in 1..Len(fetched') :
            IF i <= Answered THEN sender'[fetched'[i]] \notin Undecided
            ELSE sender'[fetched'[i]] \in {"waiting", "over"}
      BY <1>2, <3>1, <3>2, <3>3, <3>4, Places DEF AnswerInv
    <3>7. QED
      BY <3>1, <3>5, <3>6 DEF AnswerInv
  <2>2. CASE FetchLoop \/ GetMessageFails \/ Push
    BY <1>1, <2>2 DEF FetchLoop, GetMessageFails, Push, Answered
  <2>3. CASE NotifyOne
    BY <1>1, <2>3 DEF NotifyOne, Answered, Woken
  <2>4. QED
    BY <1>4, <2>1, <2>2, <2>3 DEF FetchStep
<1>5. CASE HandlerStep
  <2>1. CASE Reply
    <3>1. /\ task \in Requests /\ task # Nothing /\ replyType \in ReplyTypes
          /\ UNCHANGED <<fetched, g_Port>>
      BY <2>1 DEF Reply, TypeOK
    <3>2. Answered = Len(processed) /\ Answered' = Len(processed) + 1
      <4>1. Answered = Len(processed)
        BY <2>1, Places DEF Reply, Answered
      <4>2. CASE Finish
        <5>1. Len(processed') = Len(processed) + 1 /\ Len(processed') \in Nat
          BY <3>1, <4>2, OrderTypes DEF Finish
        <5>2. QED
          BY <4>1, <4>2, <5>1 DEF Finish, Answered
      <4>3. CASE handler' \in {"trust", "block"} /\ UNCHANGED processed
        BY <4>1, <4>3 DEF Answered
      <4>4. QED
        BY <2>1, <4>2, <4>3 DEF Reply
    <3>3. /\ Answered + 1 <= Len(fetched) /\ fetched[Answered + 1] = task
          /\ Answered \in Nat /\ Len(fetched) \in Nat
          /\ \A i \in 1..Len(fetched) : fetched[i] \in Requests
      BY <3>1, <3>2, Places
    <3>4. sender[task] \in {"waiting", "over"}
      BY <3>3 DEF AnswerInv
    <3>5. sender'[task] \notin Undecided
      BY <1>2, <2>1, <3>1, <3>4 DEF Reply, AnswerInv, Undecided, ReplyTypes
    <3>6. \A r \in Requests : r # task => sender'[r] = sender[r]
      BY <1>2, <2>1, <3>1 DEF Reply
    <3>7. \A i \in 1..Len(fetched) : i # Answered + 1 => fetched[i] # task
      BY <3>3 DEF AnswerInv
    <3>8. \A i \in 1..Len(fetched) :
            IF i <= Answered' THEN sender'[fetched[i]] \notin Undecided
            ELSE sender'[fetched[i]] \in {"waiting", "over"}
      BY <3>2, <3>3, <3>5, <3>6, <3>7 DEF AnswerInv
    <3>9. g_Port # "open" => \A r \in Requests : sender'[r] \notin {"queued", "waiting"}
      BY <3>5, <3>6 DEF AnswerInv, Undecided
    <3>10. QED
      BY <3>1, <3>8, <3>9 DEF AnswerInv
  <2>2. CASE InsertItem \/ Block
    <3>1. Finish /\ task \in Requests /\ handler \in {"insertItem", "block"}
      BY <2>2 DEF InsertItem, Block, TypeOK, TaskInv, Working
    <3>2. Len(processed') = Len(processed) + 1 /\ Len(processed) \in Nat
      BY <3>1, OrderTypes DEF Finish
    <3>3. Answered' = Answered
      BY <3>1, <3>2 DEF Finish, Answered
    <3>4. UNCHANGED <<fetched, sender, g_Port>>
      BY <2>2 DEF InsertItem, Block
    <3>5. QED
      BY <3>3, <3>4 DEF AnswerInv
  <2>3. CASE AcquireRQMutex \/ TestQueue \/ Sleep \/ WaitReturns \/ LeaveOrPop \/ Trust
    BY <1>1, <2>3 DEF AcquireRQMutex, TestQueue, Sleep, WaitReturns, LeaveOrPop, Trust,
                      Answered
  <2>4. CASE Lookup \/ DialogFails \/ UserAnswers \/ DialogTimesOut \/ DialogDestroyed
    BY <1>1, <2>4 DEF Lookup, DialogFails, UserAnswers, DialogTimesOut,
                      DialogDestroyed, CanEnd, GoReply, Answered
  <2>5. QED
    BY <1>5, <2>1, <2>2, <2>3, <2>4 DEF HandlerStep
<1>6. CASE MainStep
  <2>1. ASSUME NEW r \in Requests, OwnAccess(r) PROVE AnswerInv'
    <3>1. UNCHANGED <<fetched, processed>> /\ Answered' = Answered
      BY <2>1 DEF OwnAccess, Answered
    <3>2. QED
      BY <1>2, <2>1, <3>1, AnswerKept DEF OwnAccess
  <2>2. CASE CleanupDriver
    <3>1. UNCHANGED <<fetched, processed>> /\ Answered' = Answered
      BY <2>2 DEF CleanupDriver, Answered
    <3>2. QED
      BY <1>2, <2>2, <3>1, AnswerKept DEF CleanupDriver, Abandoned
  <2>3. CASE NotifyAll
    BY <1>1, <2>3 DEF NotifyAll, Woken, Answered
  <2>4. CASE CreateWindow \/ FillLists \/ ListOperation \/ ListUpdated \/ SaveSettings
    BY <1>1, <2>4 DEF CreateWindow, FillLists, ListOperation, ListUpdated, SaveSettings,
                      Answered
  <2>5. CASE CloseWindow \/ StopRunning \/ Join \/ OwnAccessReturns
    BY <1>1, <2>5 DEF CloseWindow, StopRunning, Join, OwnAccessReturns, Answered
  <2>6. QED
    BY <1>6, <2>1, <2>2, <2>3, <2>4, <2>5 DEF MainStep
<1>7. CASE UNCHANGED vars
  BY <1>1, <1>7 DEF vars, Answered
<1>8. QED
  BY <1>3, <1>4, <1>5, <1>6, <1>7 DEF Next

----------------------------------------------------------------------------
(* The blacklist.                                                          *)

(* The driver is told BLACKLIST before the program is inserted; meanwhile  *)
(* no other question is looked at.                                         *)
ToldIsBlocked ==
  \A r \in Requests :
    sender[r] = "BLACKLIST" =>
      ProgramOf[r] \in g_BlockedPrograms \/ (handler = "block" /\ task = r)

(* A blocked program gets no dialog.                                       *)
BlockedIsDenied ==
  task # Nothing /\ ProgramOf[task] \in g_BlockedPrograms =>
    handler = "lookup" \/ (handler = "reply" /\ replyType = "ACCESS_DENIED")

(* The strengthening of BlockedStaysDenied.                                *)
BlockInv == ToldIsBlocked /\ BlockedIsDenied /\ BlockedStaysDenied

(* A step that neither answers nor finishes a question, nor changes the    *)
(* blacklist.                                                              *)
LEMMA BlockKept ==
  ASSUME TypeOK, TaskInv, FetchedInOrder, AnswerInv, BlockInv,
         UNCHANGED <<processed, g_BlockedPrograms>>,
         handler = "block" => handler' = "block" /\ task' = task,
         BlockedIsDenied',
         \A r \in Requests :
            \/ sender'[r] = sender[r]
            \/ sender[r] \in Undecided /\ sender'[r] \in Undecided \union {"over"}
  PROVE  BlockInv'
<1>1. ToldIsBlocked'
  BY DEF BlockInv, ToldIsBlocked, Undecided
<1>2. \A i \in 1..Len(processed) :
        processed[i] \in Requests /\ sender'[processed[i]] = sender[processed[i]]
  <2>1. ASSUME NEW i \in 1..Len(processed)
        PROVE  processed[i] \in Requests /\ sender[processed[i]] \notin Undecided
    <3>1. i <= Answered /\ i \in 1..Len(fetched) /\ processed[i] = fetched[i]
      BY Places DEF Answered
    <3>2. QED
      BY <3>1, Places DEF AnswerInv
  <2>2. QED
    BY <2>1
<1>3. BlockedStaysDenied'
  BY <1>2 DEF BlockInv, BlockedStaysDenied
<1>4. QED
  BY <1>1, <1>3 DEF BlockInv

(* A step that finishes the question of the handler.                       *)
LEMMA BlockFinish ==
  ASSUME TypeOK, TaskInv, FetchedInOrder, AnswerInv, BlockInv, Finish,
         task \in Requests, task # Nothing,
         \A r \in Requests : r # task => sender'[r] = sender[r],
         ProgramOf[task] \in g_BlockedPrograms =>
           sender'[task] \in {"ACCESS_DENIED", "over"}
  PROVE  BlockedStaysDenied'
<1>1. /\ Len(processed) \in Nat /\ Len(processed') = Len(processed) + 1
      /\ processed'[Len(processed) + 1] = task
      /\ \A i \in 1..Len(processed) : processed'[i] = processed[i]
  BY OrderTypes DEF Finish
<1>2. \A i \in 1..Len(processed) : processed[i] \in Requests /\ processed[i] # task
  BY Places DEF AnswerInv
<1>3. SUFFICES ASSUME NEW i \in 1..Len(processed'), NEW j \in 1..Len(processed'), i < j,
                      ProgramOf[processed'[i]] = ProgramOf[processed'[j]],
                      sender'[processed'[i]] = "BLACKLIST"
               PROVE  sender'[processed'[j]] \in {"ACCESS_DENIED", "over"}
  BY DEF BlockedStaysDenied
<1>4. /\ i \in 1..Len(processed) /\ processed'[i] = processed[i]
      /\ sender[processed[i]] = "BLACKLIST"
  BY <1>1, <1>2, <1>3
<1>5. CASE j \in 1..Len(processed)
  BY <1>1, <1>2, <1>3, <1>4, <1>5 DEF BlockInv, BlockedStaysDenied
<1>6. CASE j = Len(processed) + 1
  <2>1. ProgramOf[processed[i]] \in g_BlockedPrograms
    BY <1>2, <1>4 DEF BlockInv, ToldIsBlocked
  <2>2. QED
    BY <1>1, <1>3, <1>4, <1>6, <2>1
<1>7. QED
  BY <1>1, <1>5, <1>6

LEMMA BlockStep ==
  TypeOK /\ TaskInv /\ WaitInv /\ FetchedInOrder /\ AnswerInv /\ BlockInv /\ [Next]_vars
    => BlockInv'
<1> SUFFICES ASSUME TypeOK, TaskInv, WaitInv, FetchedInOrder, AnswerInv, BlockInv,
                    [Next]_vars
             PROVE  BlockInv'
    OBVIOUS
<1> USE DEF mainVars, fetchVars, workVars, outsideHandler, handlerOnly, outsideMain
<1>1. ASSUME UNCHANGED <<processed, g_BlockedPrograms, task, replyType>>,
             handler' = Woken,
             \A r \in Requests :
                \/ sender'[r] = sender[r]
                \/ sender[r] \in Undecided /\ sender'[r] \in Undecided \union {"over"}
      PROVE  BlockInv'
  <2>1. BlockedIsDenied'
    BY <1>1 DEF BlockInv, BlockedIsDenied, Woken
  <2>2. QED
    BY <1>1, <2>1, BlockKept DEF Woken
<1>2. sender \in [Requests -> Settled]
  BY DEF TypeOK
<1>3. ASSUME UNCHANGED <<processed, g_BlockedPrograms, task, replyType, sender, handler>>
      PROVE  BlockInv'
  BY <1>3 DEF BlockInv, ToldIsBlocked, BlockedIsDenied, BlockedStaysDenied
<1>4. ASSUME UNCHANGED <<processed, g_BlockedPrograms, task, replyType, handler>>,
             \A r \in Requests :
                \/ sender'[r] = sender[r]
                \/ sender[r] \in Undecided /\ sender'[r] \in Undecided \union {"over"}
      PROVE  BlockInv'
  <2>1. BlockedIsDenied'
    BY <1>4 DEF BlockInv, BlockedIsDenied
  <2>2. QED
    BY <1>4, <2>1, BlockKept
<1>5. CASE DriverStep
  BY <1>2, <1>4, <1>5 DEF DriverStep, Ask, GiveUp, DriverGone, Abandoned, Undecided
<1>6. CASE FetchStep
  <2>1. ASSUME NEW r \in Requests, GetMessage(r) PROVE BlockInv'
    BY <1>2, <1>4, <2>1 DEF GetMessage, Undecided
  <2>2. CASE FetchLoop \/ GetMessageFails \/ Push
    BY <1>3, <2>2 DEF FetchLoop, GetMessageFails, Push
  <2>3. CASE NotifyOne
    BY <1>1, <2>3 DEF NotifyOne
  <2>4. QED
    BY <1>6, <2>1, <2>2, <2>3 DEF FetchStep
<1>7. CASE HandlerStep
  <2>1. CASE AcquireRQMutex \/ TestQueue \/ Sleep \/ WaitReturns \/ LeaveOrPop
    <3>1. BlockedIsDenied' /\ handler # "block"
          /\ UNCHANGED <<processed, g_BlockedPrograms, sender>>
      BY <2>1 DEF AcquireRQMutex, TestQueue, Sleep, WaitReturns, LeaveOrPop,
                  BlockedIsDenied, TaskInv, Working
    <3>2. QED
      BY <3>1, BlockKept
  <2>2. CASE Lookup \/ DialogFails
    <3>1. BlockedIsDenied' /\ handler # "block"
          /\ UNCHANGED <<processed, g_BlockedPrograms, sender>>
      BY <2>2 DEF Lookup, DialogFails, IsProgramBlocked, GoReply, BlockedIsDenied
    <3>2. QED
      BY <3>1, BlockKept
  <2>3. CASE UserAnswers \/ DialogTimesOut \/ DialogDestroyed
    <3>1. BlockedIsDenied' /\ handler # "block"
          /\ UNCHANGED <<processed, g_BlockedPrograms, sender>>
      BY <2>3 DEF UserAnswers, DialogTimesOut, DialogDestroyed, CanEnd, GoReply,
                  BlockInv, BlockedIsDenied, TaskInv, Working
    <3>2. QED
      BY <3>1, BlockKept
  <2>4. CASE Trust
    <3>1. BlockedIsDenied' /\ handler # "block"
          /\ UNCHANGED <<processed, g_BlockedPrograms, sender>>
      BY <2>4 DEF Trust, BlockInv, BlockedIsDenied, TaskInv, Working
    <3>2. QED
      BY <3>1, BlockKept
  <2>5. CASE Reply
    <3>1. /\ handler = "reply" /\ task \in Requests /\ task # Nothing
          /\ UNCHANGED g_BlockedPrograms
      BY <2>5 DEF Reply, TypeOK
    <3>2. \A r \in Requests : r # task => sender'[r] = sender[r]
      BY <1>2, <2>5, <3>1 DEF Reply
    <3>3. sender[task] \in {"waiting", "over"}
      <4>1. Answered = Len(processed) /\ Len(processed) + 1 <= Len(fetched)
            /\ fetched[Len(processed) + 1] = task /\ Len(processed) \in Nat
        BY <3>1, Places DEF Answered
      <4>2. Len(processed) + 1 \in 1..Len(fetched) /\ ~(Len(processed) + 1 <= Answered)
        BY <4>1, Places
      <4>3. QED
        BY <4>1, <4>2 DEF AnswerInv
    <3>4. sender'[task] \in {replyType, "over"}
      BY <1>2, <2>5, <3>1, <3>3 DEF Reply, AnswerInv
    <3>5. ToldIsBlocked'
      <4>1. ASSUME NEW r \in Requests, sender'[r] = "BLACKLIST", r # task
            PROVE  ProgramOf[r] \in g_BlockedPrograms'
        BY <3>1, <3>2, <4>1 DEF BlockInv, ToldIsBlocked
      <4>2. ASSUME sender'[task] = "BLACKLIST" PROVE handler' = "block" /\ task' = task
        BY <1>2, <2>5, <3>1, <3>3, <4>2 DEF Reply
      <4>3. QED
        BY <4>1, <4>2 DEF ToldIsBlocked
    <3>6. BlockedIsDenied'
      <4>1. replyType # "ACCESS_DENIED" => ProgramOf[task] \notin g_BlockedPrograms
        BY <3>1 DEF BlockInv, BlockedIsDenied
      <4>2. task' = Nothing
            \/ (task' = task /\ replyType \in {"ADD_TRUSTED", "BLACKLIST"})
        BY <2>5 DEF Reply, Finish
      <4>3. QED
        BY <3>1, <4>1, <4>2 DEF BlockedIsDenied
    <3>7. BlockedStaysDenied'
      <4>1. CASE Finish
        <5>1. ProgramOf[task] \in g_BlockedPrograms =>
                sender'[task] \in {"ACCESS_DENIED", "over"}
          BY <3>1, <3>4 DEF BlockInv, BlockedIsDenied
        <5>2. QED
          BY <3>1, <3>2, <4>1, <5>1, BlockFinish
      <4>2. CASE UNCHANGED processed
        <5>1. \A i \in 1..Len(processed) :
                processed[i] \in Requests /\ processed[i] # task
          BY <3>1, Places DEF AnswerInv
        <5>2. QED
          BY <3>2, <4>2, <5>1 DEF BlockInv, BlockedStaysDenied
      <4>3. QED
        BY <2>5, <4>1, <4>2 DEF Reply
    <3>8. QED
      BY <3>5, <3>6, <3>7 DEF BlockInv
  <2>6. CASE InsertItem \/ Block
    <3>1. /\ handler \in {"insertItem", "block"} /\ task \in Requests /\ task # Nothing
          /\ Finish /\ UNCHANGED sender
      BY <2>6 DEF InsertItem, Block, TypeOK, TaskInv, Working
    <3>2. ProgramOf[task] \notin g_BlockedPrograms
      BY <3>1 DEF BlockInv, BlockedIsDenied
    <3>3. BlockedStaysDenied'
      BY <3>1, <3>2, BlockFinish
    <3>4. BlockedIsDenied' /\ handler' = "acquire"
      BY <3>1 DEF Finish, BlockedIsDenied
    <3>5. ToldIsBlocked'
      BY <2>6, <3>1 DEF InsertItem, Block, BlockInv, ToldIsBlocked
    <3>6. QED
      BY <3>3, <3>4, <3>5 DEF BlockInv
  <2>7. QED
    BY <1>7, <2>1, <2>2, <2>3, <2>4, <2>5, <2>6 DEF HandlerStep
<1>8. CASE MainStep
  <2>1. ASSUME NEW r \in Requests, OwnAccess(r) PROVE BlockInv'
    BY <1>2, <1>4, <2>1 DEF OwnAccess, Undecided
  <2>2. CASE CleanupDriver
    BY <1>2, <1>4, <2>2 DEF CleanupDriver, Abandoned, Undecided
  <2>3. CASE NotifyAll
    BY <1>1, <2>3 DEF NotifyAll
  <2>4. CASE CreateWindow \/ FillLists \/ ListOperation \/ ListUpdated \/ SaveSettings
    BY <1>3, <2>4 DEF CreateWindow, FillLists, ListOperation, ListUpdated, SaveSettings
  <2>5. CASE CloseWindow \/ StopRunning \/ Join \/ OwnAccessReturns
    BY <1>3, <2>5 DEF CloseWindow, StopRunning, Join, OwnAccessReturns
  <2>6. QED
    BY <1>8, <2>1, <2>2, <2>3, <2>4, <2>5 DEF MainStep
<1>9. CASE UNCHANGED vars
  BY <1>3, <1>9 DEF vars
<1>10. QED
  BY <1>5, <1>6, <1>7, <1>8, <1>9 DEF Next

(* Once the driver was told BLACKLIST, every later question about the same *)
(* program is denied or given up on, also those that were already waiting  *)
(* in the queue when the user chose Block program.                         *)
THEOREM BlockedDenied == Spec => []BlockedStaysDenied
<1>1. Init => FetchedInOrder /\ AnswerInv /\ BlockInv
  <2>1. Init => FetchedInOrder
    BY ConcatEmptySeq DEF Init, FetchedInOrder, One
  <2>2. Init => AnswerInv
    BY DEF Init, AnswerInv
  <2>3. Init => BlockInv
    BY DEF Init, BlockInv, ToldIsBlocked, BlockedIsDenied, BlockedStaysDenied
  <2>4. QED
    BY <2>1, <2>2, <2>3
<1>2. BlockInv => BlockedStaysDenied
  BY DEF BlockInv
<1>3. QED
  BY <1>1, <1>2, TypeInit, TypeStep, WaitStep, OrderStep, AnswerStep, BlockStep, PTL
     DEF Spec
==============================================================================

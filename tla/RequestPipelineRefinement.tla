----------------------- MODULE RequestPipelineRefinement -----------------------
(***************************************************************************)
(* The proof that RequestPipeline implements QuestionService, for every    *)
(* set of questions and programs.  It rests on the inductive invariant of  *)
(* RequestPipelineProofs: of the queue, which the handler never pops       *)
(* empty; of the answers, which say what the driver waits for; and of the  *)
(* blacklist.                                                              *)
(***************************************************************************)
EXTENDS RequestPipelineProofs

IInv ==
  TypeOK /\ TaskInv /\ WaitInv /\ FetchedInOrder /\ AnswerInv /\ BlockInv

(* All parts of the inductive invariant hold together.                     *)
LEMMA Inductive == Spec => []IInv
<1>1. Init => IInv
  <2>1. Init => FetchedInOrder
    BY ConcatEmptySeq DEF Init, FetchedInOrder, One
  <2>2. Init => AnswerInv
    BY DEF Init, AnswerInv
  <2>3. Init => BlockInv
    BY DEF Init, BlockInv, ToldIsBlocked, BlockedIsDenied, BlockedStaysDenied
  <2>4. QED
    BY <2>1, <2>2, <2>3, TypeInit DEF IInv
<1>2. IInv /\ [Next]_vars => IInv'
  BY TypeStep, WaitStep, OrderStep, AnswerStep, BlockStep DEF IInv
<1>3. QED
  BY <1>1, <1>2, PTL DEF Spec

----------------------------------------------------------------------------
(* The line of questions.                                                  *)

(* Three sequences, one behind the other.                                 *)
LEMMA ThreeParts ==
  ASSUME NEW S, NEW s \in Seq(S), NEW t \in Seq(S), NEW u \in Seq(S)
  PROVE  /\ s \o t \in Seq(S) /\ t \o u \in Seq(S) /\ (s \o t) \o u \in Seq(S)
         /\ (s \o t) \o u = s \o (t \o u)
<1>1. s \o t \in Seq(S) /\ t \o u \in Seq(S)
  BY ConcatProperties
<1>2. (s \o t) \o u \in Seq(S)
  BY <1>1, ConcatProperties
<1>3. (s \o t) \o u = s \o (t \o u)
  BY ConcatAssociative
<1>4. QED
  BY <1>1, <1>2, <1>3

(* The line and its parts are sequences of questions.                      *)
LEMMA LineTypes ==
  ASSUME TypeOK, TaskInv
  PROVE  /\ Begun \in Seq(Requests) /\ g_RequestQueue \in Seq(Requests)
         /\ One(request) \in Seq(Requests)
         /\ Begun \o g_RequestQueue \in Seq(Requests)
         /\ g_RequestQueue \o One(request) \in Seq(Requests)
         /\ line \in Seq(Requests)
         /\ line = Begun \o (g_RequestQueue \o One(request))
<1>1. Begun \in Seq(Requests)
  <2>1. CASE handler \in {"lookup", "dialog", "reply"}
    <3>1. task \in Requests
      BY <2>1 DEF TypeOK, TaskInv, Working
    <3>2. QED
      BY <2>1, <3>1 DEF Begun
  <2>2. CASE handler \notin {"lookup", "dialog", "reply"}
    BY <2>2 DEF Begun
  <2>3. QED
    BY <2>1, <2>2
<1>2. g_RequestQueue \in Seq(Requests) /\ One(request) \in Seq(Requests)
  BY OrderTypes
<1>3. /\ Begun \o g_RequestQueue \in Seq(Requests)
      /\ g_RequestQueue \o One(request) \in Seq(Requests)
  BY <1>1, <1>2, ThreeParts
<1>4. line \in Seq(Requests) /\ line = Begun \o (g_RequestQueue \o One(request))
  BY <1>1, <1>2, ThreeParts DEF line
<1>5. QED
  BY <1>1, <1>2, <1>3, <1>4

(* A question at the head of the line.                                     *)
LEMMA HeadOfLine ==
  ASSUME NEW S, NEW e \in S, NEW s \in Seq(S)
  PROVE  /\ <<e>> \o s # <<>> /\ Head(<<e>> \o s) = e /\ Tail(<<e>> \o s) = s
  OBVIOUS

(* The steps that leave a question where it is in the line.                *)
unmoved == UNCHANGED <<line, sender, blocked>>

LEMMA SameLine ==
  ASSUME Begun' = Begun, UNCHANGED <<g_RequestQueue, request>>
  PROVE  line' = line
  BY DEF line, One

LEMMA Unmoved == unmoved => UNCHANGED QS!absVars
  BY DEF unmoved, QS!absVars

LEMMA InitRefines == Init => QS!Init
<1>1. ASSUME Init PROVE QS!Init
  <2>1. Begun = <<>> /\ One(request) = <<>> /\ g_RequestQueue = <<>>
    BY <1>1 DEF Init, Begun, One
  <2>2. line = <<>>
    BY <2>1, ConcatEmptySeq DEF line
  <2>3. blocked = {}
    BY <1>1 DEF Init, blocked
  <2>4. QED
    BY <1>1, <2>2, <2>3 DEF Init, QS!Init
<1>2. QED
  BY <1>1

----------------------------------------------------------------------------
(* The driver's steps, and those of the main thread that it sees.          *)

LEMMA AskRefines ==
  ASSUME TypeOK, NEW r \in Requests, Ask(r) \/ OwnAccess(r)
  PROVE  QS!Ask(r)
<1>1. UNCHANGED <<handler, task, g_RequestQueue, request, g_BlockedPrograms>>
  BY DEF Ask, OwnAccess, fetchVars, workVars, outsideMain
<1>2. line' = line /\ blocked' = blocked
  BY <1>1, SameLine DEF Begun, blocked
<1>3. QED
  BY <1>2 DEF Ask, OwnAccess, QS!Ask

LEMMA GiveUpRefines ==
  ASSUME TypeOK, NEW r \in Requests, GiveUp(r)
  PROVE  QS!GiveUp({r})
<1>1. UNCHANGED <<handler, task, g_RequestQueue, request, g_BlockedPrograms>>
  BY DEF GiveUp, fetchVars, workVars
<1>2. line' = line /\ blocked' = blocked
  BY <1>1, SameLine DEF Begun, blocked
<1>3. sender' = [q \in Requests |-> IF q \in {r} THEN "over" ELSE sender[q]]
  BY DEF GiveUp, TypeOK
<1>4. QED
  BY <1>2, <1>3 DEF GiveUp, QS!GiveUp

(* With the port all questions go that are not answered.                   *)
LEMMA PortGoneRefines ==
  ASSUME TypeOK, DriverGone \/ CleanupDriver
  PROVE  \E some \in SUBSET Requests : QS!GiveUp(some)
<1>1. UNCHANGED <<handler, task, g_RequestQueue, request, g_BlockedPrograms>>
  BY DEF DriverGone, CleanupDriver, fetchVars, workVars, outsideMain
<1>2. line' = line /\ blocked' = blocked
  BY <1>1, SameLine DEF Begun, blocked
<1> DEFINE some == {r \in Requests : sender[r] \in {"queued", "waiting"}}
<1>3. sender' = [r \in Requests |-> IF r \in some THEN "over" ELSE sender[r]]
  BY DEF DriverGone, CleanupDriver, Abandoned
<1>4. QS!GiveUp(some)
  BY <1>2, <1>3 DEF QS!GiveUp
<1>5. QED
  BY <1>4

LEMMA MainStepRefines ==
  ASSUME TypeOK, MainStep
  PROVE  [QS!Next]_(QS!absVars)
<1>1. CASE \E r \in Requests : OwnAccess(r)
  BY <1>1, AskRefines DEF QS!Next
<1>2. CASE CleanupDriver
  BY <1>2, PortGoneRefines DEF QS!Next
<1>3. CASE NotifyAll
  <2>1. /\ UNCHANGED <<task, g_RequestQueue, request, g_BlockedPrograms, sender>>
        /\ handler' = Woken
    BY <1>3 DEF NotifyAll, outsideMain, fetchVars
  <2>2. line' = line /\ blocked' = blocked
    BY <2>1, SameLine DEF Begun, blocked, Woken
  <2>3. QED
    BY <2>1, <2>2, Unmoved DEF unmoved
<1>4. CASE \/ CreateWindow \/ FillLists \/ ListOperation \/ ListUpdated \/ SaveSettings
           \/ CloseWindow \/ StopRunning \/ Join \/ OwnAccessReturns
  <2>1. UNCHANGED <<handler, task, g_RequestQueue, request, g_BlockedPrograms, sender>>
    BY <1>4 DEF CreateWindow, FillLists, ListOperation, ListUpdated, SaveSettings,
       CloseWindow, StopRunning, Join, OwnAccessReturns, outsideMain, fetchVars
  <2>2. line' = line /\ blocked' = blocked
    BY <2>1, SameLine DEF Begun, blocked
  <2>3. QED
    BY <2>1, <2>2, Unmoved DEF unmoved
<1>5. QED
  BY <1>1, <1>2, <1>3, <1>4 DEF MainStep

----------------------------------------------------------------------------
(* MessageThread: a question enters the line when it is fetched, and the   *)
(* push moves it on within the line.                                       *)

LEMMA GetMessageRefines ==
  ASSUME TypeOK, TaskInv, NEW r \in Requests, GetMessage(r)
  PROVE  QS!Take(r)
<1>1. UNCHANGED <<handler, task, g_RequestQueue, g_BlockedPrograms>> /\ request' = r
  BY DEF GetMessage, workVars
<1>2. Begun' = Begun /\ blocked' = blocked
  BY <1>1 DEF Begun, blocked
<1>3. One(request) = <<>> /\ One(request)' = <<r>>
  BY <1>1, NothingAssumption DEF GetMessage, TypeOK, One
<1>4. line = Begun \o g_RequestQueue
  BY <1>3, LineTypes, ConcatEmptySeq DEF line
<1>5. line' = line \o <<r>>
  BY <1>1, <1>2, <1>3, <1>4 DEF line
<1>6. line' = Append(line, r)
  BY <1>5, LineTypes, AppendSingleton
<1>7. QED
  BY <1>2, <1>6 DEF GetMessage, QS!Take

LEMMA PushRefines ==
  ASSUME TypeOK, TaskInv, Push
  PROVE  unmoved
<1>1. /\ UNCHANGED <<handler, task, g_BlockedPrograms, sender>>
      /\ g_RequestQueue' = Append(g_RequestQueue, request)
      /\ request \in Requests /\ One(request) = <<request>> /\ One(request)' = <<>>
  BY DEF Push, workVars, TypeOK, One
<1>2. Begun' = Begun /\ blocked' = blocked
  BY <1>1 DEF Begun, blocked
<1>3. g_RequestQueue' = g_RequestQueue \o One(request)
  BY <1>1, LineTypes, AppendSingleton
<1>4. line' = (Begun \o (g_RequestQueue \o One(request))) \o <<>>
  BY <1>1, <1>2, <1>3 DEF line
<1>5. line' = line
  BY <1>4, LineTypes, ConcatEmptySeq
<1>6. QED
  BY <1>1, <1>2, <1>5 DEF unmoved

LEMMA FetchStepRefines ==
  ASSUME TypeOK, TaskInv, FetchStep
  PROVE  [QS!Next]_(QS!absVars)
<1>1. CASE \E r \in Requests : GetMessage(r)
  BY <1>1, GetMessageRefines DEF QS!Next
<1>2. CASE Push
  BY <1>2, PushRefines, Unmoved
<1>3. CASE FetchLoop \/ GetMessageFails \/ NotifyOne
  <2>1. /\ UNCHANGED <<task, g_RequestQueue, request, g_BlockedPrograms, sender>>
        /\ handler' \in {handler, Woken}
    BY <1>3 DEF FetchLoop, GetMessageFails, NotifyOne, workVars
  <2>2. line' = line /\ blocked' = blocked
    BY <2>1, SameLine DEF Begun, blocked, Woken
  <2>3. QED
    BY <2>1, <2>2, Unmoved DEF unmoved
<1>4. QED
  BY <1>1, <1>2, <1>3 DEF FetchStep

----------------------------------------------------------------------------
(* RequestQHandler: the question that it pops stays at the head of the     *)
(* line until the reply.                                                   *)

LEMMA PopRefines ==
  ASSUME TypeOK, TaskInv, WaitInv, LeaveOrPop
  PROVE  unmoved
<1>1. UNCHANGED <<request, sender, g_BlockedPrograms>> /\ handler = "leave"
  BY DEF LeaveOrPop, outsideHandler, fetchVars
<1>2. CASE ~g_Running /\ g_RequestQueue = <<>>
  <2>1. handler' = "done" /\ UNCHANGED <<task, g_RequestQueue>>
    BY <1>2 DEF LeaveOrPop
  <2>2. Begun' = Begun /\ blocked' = blocked
    BY <1>1, <2>1 DEF Begun, blocked
  <2>3. QED
    BY <1>1, <2>1, <2>2, SameLine DEF unmoved
<1>3. CASE ~(~g_Running /\ g_RequestQueue = <<>>)
  <2>1. /\ handler' = "lookup" /\ task' = Head(g_RequestQueue)
        /\ g_RequestQueue' = Tail(g_RequestQueue) /\ g_RequestQueue # <<>>
    BY <1>1, <1>3 DEF LeaveOrPop, WaitInv
  <2>2. Begun = <<>> /\ Begun' = <<Head(g_RequestQueue)>> /\ blocked' = blocked
    BY <1>1, <2>1 DEF Begun, blocked
  <2>3. Begun' \o g_RequestQueue' = g_RequestQueue
    BY <2>1, <2>2, LineTypes, HeadConcatTail
  <2>4. Begun \o g_RequestQueue = g_RequestQueue
    BY <2>2, LineTypes, ConcatEmptySeq
  <2>5. line' = line
    BY <1>1, <2>3, <2>4 DEF line, One
  <2>6. QED
    BY <1>1, <2>2, <2>5 DEF unmoved
<1>4. QED
  BY <1>2, <1>3

LEMMA ReplyRefines ==
  ASSUME IInv, Reply
  PROVE  QS!Drop \/ QS!Answer(replyType)
<1>1. /\ handler = "reply" /\ task \in Requests /\ task # Nothing
      /\ replyType \in ReplyTypes
      /\ UNCHANGED <<g_RequestQueue, request, g_BlockedPrograms>>
  BY DEF IInv, Reply, outsideHandler, fetchVars, TypeOK
<1>2. PICK rest \in Seq(Requests) : rest = g_RequestQueue \o One(request)
  BY LineTypes DEF IInv
<1>3. line = <<task>> \o rest
  BY <1>1, <1>2, LineTypes DEF IInv, Begun
<1>4. line # <<>> /\ Head(line) = task /\ Tail(line) = rest
  BY <1>1, <1>2, <1>3, HeadOfLine
<1>5. handler' \in {"acquire", "trust", "block"}
  BY DEF Reply, Finish
<1>6. line' = Tail(line)
  <2>1. Begun' = <<>> /\ One(request)' = One(request)
    BY <1>1, <1>5 DEF Begun, One
  <2>2. line' = <<>> \o g_RequestQueue \o One(request)
    BY <1>1, <2>1 DEF line
  <2>3. <<>> \o g_RequestQueue = g_RequestQueue
    BY LineTypes, ConcatEmptySeq DEF IInv
  <2>4. QED
    BY <1>2, <1>4, <2>2, <2>3
<1>7. blocked = g_BlockedPrograms
  BY <1>1 DEF blocked
<1>8. CASE g_Port = "open" /\ sender[task] = "waiting"
  <2>1. sender' = [sender EXCEPT ![task] = replyType]
    BY <1>8 DEF Reply
  <2>2. ProgramOf[task] \in blocked => replyType = "ACCESS_DENIED"
    BY <1>1, <1>7 DEF IInv, BlockInv, BlockedIsDenied
  <2>3. blocked' = IF replyType = "BLACKLIST" THEN blocked \union {ProgramOf[task]} ELSE blocked
    <3>1. CASE replyType = "BLACKLIST"
      BY <1>1, <1>7, <1>8, <3>1 DEF Reply, blocked
    <3>2. CASE replyType # "BLACKLIST"
      BY <1>1, <1>7, <1>8, <3>2 DEF Reply, Finish, blocked
    <3>3. QED
      BY <3>1, <3>2
  <2>4. QED
    BY <1>4, <1>6, <1>8, <2>1, <2>2, <2>3 DEF QS!Answer
<1>9. CASE g_Port # "open" \/ sender[task] # "waiting"
  <2>1. sender' = sender /\ handler' = "acquire"
    BY <1>9 DEF Reply, Finish
  <2>2. blocked' = blocked
    BY <1>1, <1>7, <2>1 DEF blocked
  <2>3. sender[task] = "over"
    <3>1. /\ Answered = Len(processed) /\ Answered \in Nat
          /\ Answered + 1 <= Len(fetched) /\ fetched[Answered + 1] = task
          /\ Len(fetched) \in Nat
      BY <1>1, Places DEF IInv, Answered
    <3>2. sender[task] \in {"waiting", "over"}
      BY <3>1 DEF IInv, AnswerInv
    <3>3. QED
      BY <1>1, <1>9, <3>2 DEF IInv, AnswerInv
  <2>4. QED
    BY <1>4, <1>6, <2>1, <2>2, <2>3 DEF QS!Drop
<1>10. QED
  BY <1>8, <1>9

LEMMA HandlerStepRefines ==
  ASSUME IInv, HandlerStep
  PROVE  [QS!Next]_(QS!absVars)
<1>1. CASE LeaveOrPop
  BY <1>1, PopRefines, Unmoved DEF IInv
<1>2. CASE Reply
  <2>1. replyType \in ReplyTypes
    BY <1>2 DEF IInv, Reply, TypeOK
  <2>2. QED
    BY <1>2, <2>1, ReplyRefines DEF QS!Next
<1>3. CASE Block
  <2>1. /\ handler = "block" /\ handler' = "acquire"
        /\ g_BlockedPrograms' = g_BlockedPrograms \union {ProgramOf[task]}
        /\ UNCHANGED <<g_RequestQueue, request, sender>>
    BY <1>3 DEF Block, Finish, outsideHandler, fetchVars
  <2>2. Begun' = Begun /\ blocked' = blocked
    BY <2>1 DEF Begun, blocked
  <2>3. QED
    BY <2>1, <2>2, SameLine, Unmoved DEF unmoved
<1>4. CASE InsertItem
  <2>1. /\ handler = "insertItem" /\ handler' = "acquire"
        /\ UNCHANGED <<g_BlockedPrograms, g_RequestQueue, request, sender>>
    BY <1>4 DEF InsertItem, Finish, outsideHandler, fetchVars
  <2>2. Begun' = Begun /\ blocked' = blocked
    BY <2>1 DEF Begun, blocked
  <2>3. QED
    BY <2>1, <2>2, SameLine, Unmoved DEF unmoved
<1>5. CASE AcquireRQMutex \/ TestQueue \/ Sleep \/ WaitReturns \/ Trust
  <2>1. /\ handler \in {"acquire", "test", "sleep", "asleep", "trust"}
        /\ handler' \in {"acquire", "test", "sleep", "asleep", "leave", "insertItem"}
        /\ UNCHANGED <<task, g_BlockedPrograms, g_RequestQueue, request, sender>>
    BY <1>5 DEF AcquireRQMutex, TestQueue, Sleep, WaitReturns, Trust, outsideHandler,
                handlerOnly, fetchVars
  <2>2. Begun' = Begun /\ blocked' = blocked
    BY <2>1 DEF Begun, blocked
  <2>3. QED
    BY <2>1, <2>2, SameLine, Unmoved DEF unmoved
<1>6. CASE Lookup \/ DialogFails \/ UserAnswers \/ DialogTimesOut \/ DialogDestroyed
  <2>1. /\ handler \in {"lookup", "dialog"} /\ handler' \in {"dialog", "reply"}
        /\ UNCHANGED <<task, g_BlockedPrograms, g_RequestQueue, request, sender>>
    BY <1>6 DEF Lookup, DialogFails, UserAnswers, DialogTimesOut, DialogDestroyed,
                CanEnd, GoReply, outsideHandler, fetchVars
  <2>2. Begun' = Begun /\ blocked' = blocked
    BY <2>1 DEF Begun, blocked
  <2>3. QED
    BY <2>1, <2>2, SameLine, Unmoved DEF unmoved
<1>7. QED
  BY <1>1, <1>2, <1>3, <1>4, <1>5, <1>6 DEF HandlerStep

----------------------------------------------------------------------------
LEMMA NextRefines == IInv /\ [Next]_vars => [QS!Next]_(QS!absVars)
<1> SUFFICES ASSUME IInv, [Next]_vars PROVE [QS!Next]_(QS!absVars)
    OBVIOUS
<1>1. CASE DriverStep
  <2>1. CASE \E r \in Requests : Ask(r)
    BY <2>1, AskRefines DEF QS!Next, IInv
  <2>2. CASE \E r \in Requests : GiveUp(r)
    <3>1. PICK r \in Requests : GiveUp(r)
      BY <2>2
    <3>2. QS!GiveUp({r}) /\ {r} \in SUBSET Requests
      BY <3>1, GiveUpRefines DEF IInv
    <3>3. QED
      BY <3>2 DEF QS!Next
  <2>3. CASE DriverGone
    BY <2>3, PortGoneRefines DEF QS!Next, IInv
  <2>4. QED
    BY <1>1, <2>1, <2>2, <2>3 DEF DriverStep
<1>2. CASE FetchStep \/ MainStep
  BY <1>2, FetchStepRefines, MainStepRefines DEF IInv
<1>3. CASE HandlerStep
  BY <1>3, HandlerStepRefines
<1>4. CASE UNCHANGED vars
  <2>1. UNCHANGED <<handler, task, g_BlockedPrograms, g_RequestQueue, request, sender>>
    BY <1>4 DEF vars, fetchVars, workVars
  <2>2. Begun' = Begun /\ blocked' = blocked
    BY <2>1 DEF Begun, blocked
  <2>3. QED
    BY <2>1, <2>2, SameLine, Unmoved DEF unmoved
<1>5. QED
  BY <1>1, <1>2, <1>3, <1>4 DEF Next

(* The three threads, the queue, the dialog and the port implement         *)
(* QuestionService: for any number of questions and programs, questions    *)
(* are answered in the order in which MessageThread fetched them, each at  *)
(* most once and only while the driver waits, and those of a program after *)
(* its BLACKLIST only with a denial.                                       *)
THEOREM Refinement == Spec => ImplementsQuestionService
  BY Inductive, InitRefines, NextRefines, PTL DEF Spec, ImplementsQuestionService, QS!Spec
==============================================================================

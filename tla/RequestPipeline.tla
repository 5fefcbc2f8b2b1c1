--------------------------- MODULE RequestPipeline ---------------------------
(***************************************************************************)
(* FileController.exe: how a question of the driver travels through the    *)
(* user interface.  MessageThread fetches it and pushes it on              *)
(* g_RequestQueue, RequestQHandler pops it and runs ProcessAccessRequest:  *)
(* blacklist, dialog, reply, bookkeeping.  The main thread runs the main   *)
(* window, takes g_SMutex for its list operations, and shuts down.         *)
(*                                                                         *)
(* A step ends where a thread can block, where it calls out, or where it   *)
(* reads or writes what another thread writes.  The driver is the          *)
(* environment: it asks, gives up on a question, and may disconnect.       *)
(***************************************************************************)
EXTENDS Naturals, Sequences

CONSTANTS
  Requests,   \* the questions of the driver, each asked at most once
  Programs,   \* program paths as the dialog shows them
  ProgramOf   \* the program that a question is about

ASSUME ProgramOfAssumption == ProgramOf \in [Requests -> Programs]

VARIABLES
  g_Running,          \* atomic flag: the main window is still there
  g_RequestQueue,     \* protected by g_RQMutex
  g_BlockedPrograms,  \* the blacklist
  g_DefaultAction,    \* the reply for a timeout, Cancel and a closed dialog
  g_Port,             \* the handle of the driver's port
  waitTimeout,        \* what the build makes of wait(DWORD timeout = INFINITY)
  main,               \* where the main thread is
  own,                \* the question about the main thread's own file access
  msgThread,          \* where MessageThread is
  request,            \* the question that MessageThread has fetched
  handler,            \* where RequestQHandler is
  task,               \* the question that it works on
  dialog,             \* the request dialog on screen
  replyType,          \* the dialog's result, then the reply's ReplyType
  sender,             \* the driver's side of each question
  fetched, processed  \* history: the questions fetched, and done with, in order

mainVars == <<g_Running, g_DefaultAction, main, own>>
fetchVars == <<msgThread, request, fetched>>
workVars == <<handler, task, dialog, replyType, g_BlockedPrograms, processed>>
vars == <<mainVars, fetchVars, workVars, g_RequestQueue, g_Port, waitTimeout, sender>>

----------------------------------------------------------------------------
(* "unknown": a number that is none of the driver's response codes.        *)
ReplyTypes == {"ACCESS_GRANTED", "ACCESS_DENIED", "ADD_TRUSTED", "BLACKLIST", "unknown"}

(* INFINITY is a float; its conversion to DWORD is undefined.  A build may *)
(* wait not at all, for some time or for ever; the first two both return   *)
(* without a notification.                                                 *)
WaitTimeouts == {"returns", "INFINITE"}

NoDialog == [shown |-> FALSE, timer |-> FALSE, owned |-> FALSE]
Nothing == "nothing"

ASSUME NothingAssumption == Nothing \notin Requests

MainStates == {"starting", "init", "pump", "wantSMutex", "ownAccess",
               "ended", "notify", "join", "cleanup", "exited"}
FetchStates == {"loop", "get", "push", "notify", "done"}
HandlerStates == {"acquire", "test", "sleep", "asleep", "leave", "lookup", "dialog",
                  "reply", "trust", "insertItem", "block", "done"}

Init ==
  /\ g_Running = TRUE
  /\ g_RequestQueue = <<>>
  /\ g_BlockedPrograms = {}
  /\ g_DefaultAction = "ACCESS_DENIED"
  /\ g_Port = "open"
  /\ waitTimeout \in WaitTimeouts
  /\ main = "starting"
  /\ own = Nothing
  /\ msgThread = "loop"
  /\ request = Nothing
  /\ handler = "acquire"
  /\ task = Nothing
  /\ dialog = NoDialog
  /\ replyType = Nothing
  /\ sender = [r \in Requests |-> "unsent"]
  /\ fetched = <<>>
  /\ processed = <<>>

(* The handler holds g_RQMutex from EnterCriticalSection on, across its    *)
(* reads of g_Running, until it sleeps or has popped.                      *)
RQMutexFree == handler \notin {"test", "sleep", "leave"}

(* The handler holds g_SMutex while it sends to the list view.             *)
SMutexFree == handler # "insertItem"

(* The main window exists, and its owner can be the request dialog's.      *)
WindowExists == main \in {"init", "pump", "wantSMutex", "ownAccess"}

(* A call that sends a message to the main window returns when the main    *)
(* thread fetches messages, or at once when there is no such window.       *)
WindowAnswers == main = "pump" \/ ~WindowExists

----------------------------------------------------------------------------
(* The driver, as the user interface sees it.                              *)

Ask(r) ==
  /\ g_Port = "open"
  /\ sender[r] = "unsent"
  /\ sender' = [sender EXCEPT ![r] = "queued"]
  /\ UNCHANGED <<mainVars, fetchVars, workVars, g_RequestQueue, g_Port, waitTimeout>>

(* FltSendMessage times out: the answer will find no waiter.               *)
GiveUp(r) ==
  /\ sender[r] \in {"queued", "waiting"}
  /\ sender' = [sender EXCEPT ![r] = "over"]
  /\ UNCHANGED <<mainVars, fetchVars, workVars, g_RequestQueue, g_Port, waitTimeout>>

Abandoned == [r \in Requests |-> IF sender[r] \in {"queued", "waiting"}
                                 THEN "over" ELSE sender[r]]

(* The driver unloads.                                                     *)
DriverGone ==
  /\ g_Port = "open"
  /\ g_Port' = "broken"
  /\ sender' = Abandoned
  /\ UNCHANGED <<mainVars, fetchVars, workVars, g_RequestQueue, waitTimeout>>

----------------------------------------------------------------------------
(* MessageThread.                                                          *)

FetchLoop ==
  /\ msgThread = "loop"
  /\ msgThread' = IF g_Running THEN "get" ELSE "done"
  /\ UNCHANGED <<mainVars, workVars, request, fetched, g_RequestQueue, g_Port,
                 waitTimeout, sender>>

(* FilterGetMessage blocks while the port is open and no question waits.   *)
GetMessage(r) ==
  /\ msgThread = "get"
  /\ g_Port = "open"
  /\ sender[r] = "queued"
  /\ sender' = [sender EXCEPT ![r] = "waiting"]
  /\ request' = r
  /\ fetched' = Append(fetched, r)
  /\ msgThread' = "push"
  /\ UNCHANGED <<mainVars, workVars, g_RequestQueue, g_Port, waitTimeout>>

(* On a broken or closed port it fails, and the loop goes on.              *)
GetMessageFails ==
  /\ msgThread = "get"
  /\ g_Port # "open"
  /\ msgThread' = "loop"
  /\ UNCHANGED <<mainVars, workVars, request, fetched, g_RequestQueue, g_Port,
                 waitTimeout, sender>>

(* The new question overtakes the ones that wait.                          *)
MutantPushFront ==
  /\ msgThread = "push"
  /\ RQMutexFree
  /\ g_RequestQueue' = <<request>> \o g_RequestQueue
  /\ request' = Nothing
  /\ msgThread' = "notify"
  /\ UNCHANGED <<mainVars, workVars, fetched, g_Port, waitTimeout, sender>>

(* notify_one is called only when the queue was not empty.                 *)
MutantNoNotify ==
  /\ msgThread = "push"
  /\ RQMutexFree
  /\ g_RequestQueue' = Append(g_RequestQueue, request)
  /\ request' = Nothing
  /\ msgThread' = IF g_RequestQueue = <<>> THEN "loop" ELSE "notify"
  /\ UNCHANGED <<mainVars, workVars, fetched, g_Port, waitTimeout, sender>>

Push ==
  /\ msgThread = "push"
  /\ RQMutexFree
  /\ g_RequestQueue' = Append(g_RequestQueue, request)
  /\ request' = Nothing
  /\ msgThread' = "notify"
  /\ UNCHANGED <<mainVars, workVars, fetched, g_Port, waitTimeout, sender>>

(* WakeConditionVariable has no memory: only a sleeper wakes.              *)
Woken == IF handler = "asleep" THEN "acquire" ELSE handler

NotifyOne ==
  /\ msgThread = "notify"
  /\ msgThread' = "loop"
  /\ handler' = Woken
  /\ UNCHANGED <<mainVars, request, fetched, task, dialog, replyType, processed,
                 g_BlockedPrograms, g_RequestQueue, g_Port, waitTimeout, sender>>

----------------------------------------------------------------------------
(* RequestQHandler: wait for a question and pop it.                        *)

handlerOnly == <<task, dialog, replyType, g_BlockedPrograms, processed>>
outsideHandler == <<mainVars, fetchVars, g_Port, waitTimeout>>

AcquireRQMutex ==
  /\ handler = "acquire"
  /\ handler' = "test"
  /\ UNCHANGED <<outsideHandler, handlerOnly, g_RequestQueue, sender>>

(* while (g_RequestQueue.empty())                                          *)
MutantTestOnlyQueue ==
  /\ handler = "test"
  /\ handler' = IF g_RequestQueue = <<>> THEN "sleep" ELSE "leave"
  /\ UNCHANGED <<outsideHandler, handlerOnly, g_RequestQueue, sender>>

(* while (g_Running.load() && g_RequestQueue.empty())                      *)
TestQueue ==
  /\ handler = "test"
  /\ handler' = IF g_Running /\ g_RequestQueue = <<>> THEN "sleep" ELSE "leave"
  /\ UNCHANGED <<outsideHandler, handlerOnly, g_RequestQueue, sender>>

(* SleepConditionVariableCS releases the mutex as it falls asleep.         *)
Sleep ==
  /\ handler = "sleep"
  /\ handler' = "asleep"
  /\ UNCHANGED <<outsideHandler, handlerOnly, g_RequestQueue, sender>>

(* The condition is not tested again after a wait.                         *)
MutantWaitWithoutRetest ==
  /\ handler = "asleep"
  /\ handler' = "leave"
  /\ UNCHANGED <<outsideHandler, handlerOnly, g_RequestQueue, sender>>

(* The wait is over without a notification: its time, or spuriously.       *)
WaitReturns ==
  /\ handler = "asleep"
  /\ handler' = "acquire"
  /\ UNCHANGED <<outsideHandler, handlerOnly, g_RequestQueue, sender>>

(* The thread leaves only when it need not drain the queue any more.       *)
LeaveOrPop ==
  /\ handler = "leave"
  /\ IF ~g_Running /\ g_RequestQueue = <<>>
     THEN handler' = "done" /\ UNCHANGED <<task, g_RequestQueue>>
     ELSE /\ handler' = "lookup"
          /\ task' = Head(g_RequestQueue)
          /\ g_RequestQueue' = Tail(g_RequestQueue)
  /\ UNCHANGED <<outsideHandler, dialog, replyType, g_BlockedPrograms, processed, sender>>

----------------------------------------------------------------------------
(* ProcessAccessRequest.                                                   *)

IsProgramBlocked(p) == p \in g_BlockedPrograms

GoReply(t) ==
  /\ handler' = "reply"
  /\ replyType' = t
  /\ dialog' = NoDialog

(* DialogBoxParamW with g_hMainWnd as the owner, which is disabled by a    *)
(* message.  Before the main window exists there is no owner.  SetTimer    *)
(* may fail, and the dialog then stays until somebody answers.             *)
Lookup ==
  /\ handler = "lookup"
  /\ \/ /\ IsProgramBlocked(ProgramOf[task])
        /\ GoReply("ACCESS_DENIED")
     \/ /\ ~IsProgramBlocked(ProgramOf[task])
        /\ main \in {"starting", "pump"}
        /\ \E timer \in BOOLEAN :
             dialog' = [shown |-> TRUE, timer |-> timer, owned |-> WindowExists]
        /\ handler' = "dialog"
        /\ UNCHANGED replyType
  /\ UNCHANGED <<outsideHandler, task, g_BlockedPrograms, processed, g_RequestQueue, sender>>

(* DialogBoxParamW fails: it returns 0 once the owner is gone, and -1, at  *)
(* any time, when the dialog cannot be created.  Both become a ReplyType   *)
(* that the driver does not know.                                          *)
DialogFails ==
  /\ handler = "lookup"
  /\ ~IsProgramBlocked(ProgramOf[task])
  /\ GoReply("unknown")
  /\ UNCHANGED <<outsideHandler, task, g_BlockedPrograms, processed, g_RequestQueue, sender>>

(* The owner is enabled again by a message when the dialog ends.           *)
CanEnd == handler = "dialog" /\ (WindowAnswers \/ ~dialog.owned)

(* One of the four buttons; Cancel and the close box.                      *)
UserAnswers ==
  /\ CanEnd
  /\ \E t \in {"ACCESS_GRANTED", "ACCESS_DENIED", "ADD_TRUSTED", "BLACKLIST",
               g_DefaultAction} : GoReply(t)
  /\ UNCHANGED <<outsideHandler, task, g_BlockedPrograms, processed, g_RequestQueue, sender>>

(* The last WM_TIMER: g_DefaultAction is read now, not when it was shown.  *)
DialogTimesOut ==
  /\ CanEnd
  /\ dialog.timer
  /\ GoReply(g_DefaultAction)
  /\ UNCHANGED <<outsideHandler, task, g_BlockedPrograms, processed, g_RequestQueue, sender>>

(* The dialog goes without a result.                                       *)
MutantDestroyedSilently ==
  /\ handler = "dialog"
  /\ dialog.owned /\ ~WindowExists
  /\ handler' = "reply" /\ dialog' = NoDialog
  /\ UNCHANGED <<outsideHandler, task, replyType, g_BlockedPrograms, processed,
                 g_RequestQueue, sender>>

(* WM_DESTROY: the dialog goes with its owner.                             *)
DialogDestroyed ==
  /\ handler = "dialog"
  /\ dialog.owned /\ ~WindowExists
  /\ GoReply(g_DefaultAction)
  /\ UNCHANGED <<outsideHandler, task, g_BlockedPrograms, processed, g_RequestQueue, sender>>

Finish ==
  /\ handler' = "acquire"
  /\ processed' = Append(processed, task)
  /\ task' = Nothing
  /\ replyType' = Nothing

(* The program is not inserted in g_BlockedPrograms.                       *)
MutantForgetBlock ==
  /\ handler = "block"
  /\ Finish
  /\ UNCHANGED <<outsideHandler, dialog, g_BlockedPrograms, g_RequestQueue, sender>>

(* FilterReplyMessage succeeds when the port is open and the sender still  *)
(* waits; only then is the answer acted upon.                              *)
Reply ==
  /\ handler = "reply"
  /\ \/ /\ g_Port = "open" /\ sender[task] = "waiting"
        /\ sender' = [sender EXCEPT ![task] = replyType]
        /\ \/ replyType = "ADD_TRUSTED" /\ handler' = "trust"
                /\ UNCHANGED <<task, replyType, processed>>
           \/ replyType = "BLACKLIST" /\ handler' = "block"
                /\ UNCHANGED <<task, replyType, processed>>
           \/ replyType \notin {"ADD_TRUSTED", "BLACKLIST"} /\ Finish
     \/ /\ g_Port # "open" \/ sender[task] # "waiting"
        /\ Finish
        /\ UNCHANGED sender
  /\ UNCHANGED <<outsideHandler, dialog, g_BlockedPrograms, g_RequestQueue>>

(* g_SMutex is taken and held while the list view is updated ...           *)
Trust ==
  /\ handler = "trust"
  /\ handler' = "insertItem"
  /\ UNCHANGED <<outsideHandler, handlerOnly, g_RequestQueue, sender>>

(* ... which needs the main thread for SendMessage to its window.          *)
InsertItem ==
  /\ handler = "insertItem"
  /\ WindowAnswers
  /\ Finish
  /\ UNCHANGED <<outsideHandler, dialog, g_BlockedPrograms, g_RequestQueue, sender>>

Block ==
  /\ handler = "block"
  /\ g_BlockedPrograms' = g_BlockedPrograms \union {ProgramOf[task]}
  /\ Finish
  /\ UNCHANGED <<outsideHandler, dialog, g_RequestQueue, sender>>

----------------------------------------------------------------------------
(* The main thread, after both threads have been created.                  *)

outsideMain == <<fetchVars, task, dialog, replyType, g_BlockedPrograms, processed,
                 g_RequestQueue, waitTimeout>>

MainGoto(from, to) ==
  /\ main = from
  /\ main' = to

(* WM_INITDIALOG stores g_hTrustedList, then waits for g_SMutex.           *)
CreateWindow ==
  /\ MainGoto("starting", "init")
  /\ UNCHANGED <<outsideMain, g_Running, g_DefaultAction, own, handler, g_Port, sender>>

(* WM_INITDIALOG fills both lists under the mutex.                         *)
FillLists ==
  /\ SMutexFree
  /\ MainGoto("init", "pump")
  /\ UNCHANGED <<outsideMain, g_Running, g_DefaultAction, own, handler, g_Port, sender>>

(* One of the four list buttons, once the driver has accepted it.          *)
ListOperation ==
  /\ MainGoto("pump", "wantSMutex")
  /\ UNCHANGED <<outsideMain, g_Running, g_DefaultAction, own, handler, g_Port, sender>>

ListUpdated ==
  /\ SMutexFree
  /\ MainGoto("wantSMutex", "pump")
  /\ UNCHANGED <<outsideMain, g_Running, g_DefaultAction, own, handler, g_Port, sender>>

(* OK in the settings dialog: the radio buttons give 1 or 2.               *)
SaveSettings ==
  /\ main = "pump"
  /\ g_DefaultAction' = "unknown"
  /\ UNCHANGED <<outsideMain, g_Running, main, own, handler, g_Port, sender>>

(* The main thread itself reads or writes a protected file: settings.ini,  *)
(* or one that the file dialog opens.  It waits inside the operation, and  *)
(* fetches no messages, until the driver has decided.                      *)
OwnAccess(r) ==
  /\ g_Port = "open"
  /\ sender[r] = "unsent"
  /\ MainGoto("pump", "ownAccess")
  /\ own' = r
  /\ sender' = [sender EXCEPT ![r] = "queued"]
  /\ UNCHANGED <<outsideMain, g_Running, g_DefaultAction, handler, g_Port>>

OwnAccessReturns ==
  /\ main = "ownAccess"
  /\ sender[own] \notin {"queued", "waiting"}
  /\ main' = "pump"
  /\ own' = Nothing
  /\ UNCHANGED <<outsideMain, g_Running, g_DefaultAction, handler, g_Port, sender>>

CloseWindow ==
  /\ MainGoto("pump", "ended")
  /\ UNCHANGED <<outsideMain, g_Running, g_DefaultAction, own, handler, g_Port, sender>>

(* The flag is written without g_RQMutex.                                  *)
StopRunning ==
  /\ MainGoto("ended", "notify")
  /\ g_Running' = FALSE
  /\ UNCHANGED <<outsideMain, g_DefaultAction, own, handler, g_Port, sender>>

NotifyAll ==
  /\ MainGoto("notify", "join")
  /\ handler' = Woken
  /\ UNCHANGED <<outsideMain, g_Running, g_DefaultAction, own, g_Port, sender>>

(* The handler is not joined, like MessageThread.                          *)
MutantNoJoin ==
  /\ MainGoto("join", "cleanup")
  /\ UNCHANGED <<outsideMain, g_Running, g_DefaultAction, own, handler, g_Port, sender>>

(* WaitForSingleObject(mThread, INFINITE); MessageThread is not joined.    *)
Join ==
  /\ handler = "done"
  /\ MainGoto("join", "cleanup")
  /\ UNCHANGED <<outsideMain, g_Running, g_DefaultAction, own, handler, g_Port, sender>>

CleanupDriver ==
  /\ MainGoto("cleanup", "exited")
  /\ g_Port' = "closed"
  /\ sender' = Abandoned
  /\ UNCHANGED <<outsideMain, g_Running, g_DefaultAction, own, handler>>

----------------------------------------------------------------------------
DriverStep == DriverGone \/ \E r \in Requests : Ask(r) \/ GiveUp(r)

FetchStep ==
  \/ FetchLoop \/ GetMessageFails \/ Push \/ NotifyOne
  \/ \E r \in Requests : GetMessage(r)

HandlerStep ==
  \/ AcquireRQMutex \/ TestQueue \/ Sleep \/ WaitReturns \/ LeaveOrPop
  \/ Lookup \/ DialogFails \/ UserAnswers \/ DialogTimesOut \/ DialogDestroyed
  \/ Reply \/ Trust \/ InsertItem \/ Block

MainStep ==
  \/ CreateWindow \/ FillLists \/ ListOperation \/ ListUpdated \/ SaveSettings
  \/ CloseWindow \/ StopRunning \/ NotifyAll \/ Join \/ CleanupDriver
  \/ OwnAccessReturns \/ \E r \in Requests : OwnAccess(r)

Next == DriverStep \/ FetchStep \/ HandlerStep \/ MainStep

Spec == Init /\ [][Next]_vars

(* Threads that can run do run, a timer that was set fires, a wait that    *)
(* has a finite timeout returns, and a message that was sent to the main   *)
(* window is handled when its thread next fetches messages, hence the      *)
(* strong fairness.  A dialog without its owner fails; one that cannot be  *)
(* created need not occur.  The driver gives up on the main thread's own   *)
(* access.                                                                 *)
(* Nobody has to answer a dialog, to close the window, or to ask.          *)
Fairness ==
  /\ WF_vars(FetchLoop) /\ WF_vars(GetMessageFails) /\ WF_vars(Push) /\ WF_vars(NotifyOne)
  /\ WF_vars(AcquireRQMutex) /\ WF_vars(TestQueue) /\ WF_vars(Sleep)
  /\ WF_vars(waitTimeout = "returns" /\ WaitReturns)
  /\ WF_vars(LeaveOrPop) /\ SF_vars(Lookup)
  /\ WF_vars(main # "starting" /\ ~WindowExists /\ DialogFails)
  /\ SF_vars(DialogTimesOut) /\ WF_vars(DialogDestroyed)
  /\ WF_vars(Reply) /\ WF_vars(Trust) /\ WF_vars(InsertItem) /\ WF_vars(Block)
  /\ WF_vars(CreateWindow) /\ WF_vars(FillLists) /\ WF_vars(ListUpdated)
  /\ WF_vars(OwnAccessReturns)
  /\ \A r \in Requests : WF_vars(own = r /\ GiveUp(r))
  /\ WF_vars(StopRunning) /\ WF_vars(NotifyAll) /\ WF_vars(Join) /\ WF_vars(CleanupDriver)

FairSpec == Spec /\ Fairness

----------------------------------------------------------------------------
(* Properties.                                                             *)

Settled == {"unsent", "queued", "waiting", "over"} \union ReplyTypes

TypeOK ==
  /\ g_Running \in BOOLEAN
  /\ g_RequestQueue \in Seq(Requests)
  /\ g_BlockedPrograms \subseteq Programs
  /\ g_DefaultAction \in {"ACCESS_DENIED", "unknown"}
  /\ g_Port \in {"open", "broken", "closed"}
  /\ waitTimeout \in WaitTimeouts
  /\ main \in MainStates
  /\ own \in Requests \union {Nothing} /\ (own # Nothing <=> main = "ownAccess")
  /\ msgThread \in FetchStates
  /\ request \in Requests \union {Nothing} /\ (request # Nothing <=> msgThread = "push")
  /\ handler \in HandlerStates
  /\ task \in Requests \union {Nothing}
  /\ dialog \in [shown : BOOLEAN, timer : BOOLEAN, owned : BOOLEAN]
  /\ replyType \in ReplyTypes \union {Nothing}
  /\ handler \in {"reply", "trust", "block"} => replyType # Nothing /\ task # Nothing
  /\ sender \in [Requests -> Settled]
  /\ fetched \in Seq(Requests)
  /\ processed \in Seq(Requests)

One(x) == IF x = Nothing THEN <<>> ELSE <<x>>

(* Every question that was fetched is processed once, in the order of      *)
(* fetching: none is lost, doubled or overtaken between the two threads.   *)
FetchedInOrder ==
  fetched = processed \o One(task) \o g_RequestQueue \o One(request)

(* RequestQHandler never sleeps on a queue with a question in it, unless   *)
(* the notification is on its way.                                         *)
NoLostQuestion ==
  handler = "asleep" /\ g_RequestQueue # <<>> => msgThread = "notify"

(* front() and pop() are never called on an empty g_RequestQueue, whatever *)
(* ends the wait: a push, a timeout, the shutdown.                         *)
PopsFromNonEmpty ==
  handler = "leave" /\ g_Running => g_RequestQueue # <<>>

(* The port is not closed under a ProcessAccessRequest that will reply     *)
(* on it.                                                                  *)
PortOutlivesHandler == handler # "done" => g_Port # "closed"

(* Once the driver was told BLACKLIST, every later question about the same *)
(* program is denied or given up on, without a dialog.                     *)
BlockedStaysDenied ==
  \A i, j \in 1..Len(processed) :
    i < j /\ ProgramOf[processed[i]] = ProgramOf[processed[j]]
          /\ sender[processed[i]] = "BLACKLIST"
      => sender[processed[j]] \in {"ACCESS_DENIED", "over"}

(* The questions that are fetched and not yet replied to, wherever they    *)
(* are between the two threads, and the programs that the driver was told  *)
(* BLACKLIST about, inserted or just being inserted.                       *)
Begun == IF handler \in {"lookup", "dialog", "reply"} THEN <<task>> ELSE <<>>
line == Begun \o g_RequestQueue \o One(request)
blocked ==
  g_BlockedPrograms \union (IF handler = "block" THEN {ProgramOf[task]} ELSE {})

QS == INSTANCE QuestionService WITH answer <- sender, Answers <- ReplyTypes

(* The threads and their queue implement QuestionService: questions are    *)
(* answered in the order in which they were fetched, each at most once,    *)
(* and a blocked program's only with a denial.                             *)
ImplementsQuestionService == QS!Spec

(* The handler holds g_SMutex and needs the main thread; the main thread   *)
(* needs g_SMutex.                                                         *)
SMutexDeadlock == handler = "insertItem" /\ main \in {"init", "wantSMutex"}

(* A dialog whose SetTimer failed waits for the user.                      *)
UntimedDialog == dialog.shown /\ ~dialog.timer

(* A question in the queue is processed, with or without the user, also    *)
(* when the window has been closed meanwhile; only a deadlock on g_SMutex  *)
(* or a dialog without a timer keeps it.                                   *)
QueuedIsProcessed ==
  \A r \in Requests :
    (\E i \in 1..Len(g_RequestQueue) : g_RequestQueue[i] = r) /\ handler # "done"
      ~> \/ \E i \in 1..Len(processed) : processed[i] = r
         \/ SMutexDeadlock \/ UntimedDialog

(* notify_all came between the handler's look at g_Running and its sleep,  *)
(* as g_Running is not written under g_RQMutex.                            *)
LostShutdown == handler = "asleep" /\ waitTimeout = "INFINITE" /\ main = "join"

(* Closing the main window ends the program; only a dialog without a timer *)
(* or, where the wait has no timeout, a lost notification keeps it.        *)
ExitCompletes == main = "ended" ~> main = "exited" \/ UntimedDialog \/ LostShutdown

(* README.md:98: Block program adds the program to the blacklist until the *)
(* interface closes, and all its further requests are blocked.             *)
BlockTakesEffect ==
  \A r \in Requests :
    task = r /\ replyType = "BLACKLIST"
      ~> ProgramOf[r] \in g_BlockedPrograms \/ ~g_Running \/ g_Port # "open"

(* README.md:96: Add to Trusted adds the program to the trusted list; the  *)
(* list view shows it, and the thread is ready for the next question.      *)
TrustCompletes ==
  \A r \in Requests :
    task = r /\ handler = "trust" ~> \E i \in 1..Len(processed) : processed[i] = r
==============================================================================

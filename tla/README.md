# FileController in TLA+

A verification project for *FileController*: a Windows file-system minifilter
(`src/FileControllerDriver`) that holds reads, writes and deletions of protected
files by untrusted programs, and a desktop program (`src/FileController`) that
asks its user what to do with them. The modules are TLA+, the runs are checked
with TLC, the theorems with TLAPS (`tlapm`).

    tlc -workers 2 -config MCFilterDriver.cfg MCFilterDriver
    tlapm FilterDriverProofs.tla
    tlapm RequestPipelineProofs.tla
    tlapm RequestPipelineRefinement.tla
    tlapm RequestDialogProofs.tla
    tlapm PathNamesProofs.tla
    tlapm ManagerListsProofs.tla

## 1. Inventory

### 1.1 Components

| Component | Where | State | Operations | What makes it correct |
|---|---|---|---|---|
| Access check | `FileController.c:428-716` | the two lists, the callback's stack (`requestType`, `status`, `reply`) | `FileControllerPreOperation`, `IsFileProtected`, `IsProgramTrusted`, `AskUserForPermission` | every operation decided once and in bounded time; only a held one is refused; a timeout refuses; `reply` is set when it is read |
| List messages | `FileController.c:752-956` | `g_ProtectedFilesList`, `g_TrustedProgramsList`, `g_ListLock` | add / remove a file or a program | a list holds what was added and not removed; a removal drops at most one entry |
| Communication port | `FileController.c:719-749` | `gClientPort`, `gServerPort` | connect, disconnect, send, reply | `gClientPort` is the live session or NULL; no waiting operation is handed to another session |
| Load and unload | `FileController.c:264-369` | `gFilterHandle`, the lists | `DriverEntry`, `FileControllerUnload` | nothing runs in an unloaded driver; unloading ends; nothing leaks |
| Instance callbacks | `FileController.c:372-425, 567-580` | none | attach / detach queries | they return a constant |
| Driver helpers | `FileController.c:49-260` | none | process image path; volume instances, cache flush and substring search, which only commented-out code calls | a failed lookup is reported |
| Request pipeline | `cpp.cpp:28-86, 605-729`, `cpp.hpp:51-62` | `g_RequestQueue`, `g_RQMutex`, `g_RQ_CV`, `g_Running`, `g_BlockedPrograms` | `MessageThread`, `RequestQHandler`, `ProcessAccessRequest` | first in, first out, nothing lost or doubled; no sleep on a full queue; the blacklist takes effect |
| Request dialog | `cpp.cpp:382-490` | `timeLeft`, the timer | show, answer, time out, be destroyed | always yields an answer, in the seconds that were set when it opened, unless the timer cannot be set |
| Main window, lists | `cpp.cpp:124-158, 205-380, 545-603` | `g_ProtectedFiles`, `g_TrustedPrograms`, the list views, `g_SMutex` | add / remove buttons | the shown lists are the driver's lists; no deadlock |
| Settings | `cpp.cpp:160-203, 492-543`, `FileController.cpp:50-51, 74-79` | `g_DefaultAction`, `g_TimeoutDuration`, settings.ini | load, edit, save | what the user chose is what the driver is told |
| Start and shutdown | `FileController.cpp:54-125` | the threads, `g_Running` | start threads, run the window, stop, join, clean up | the program ends; the port outlives its users |
| Driver connection | `c_specific.c` | the port handle | connect, send, close | a handle is not used after it was closed |
| Path conversion | `cpp.cpp:18-26, 88-122` | none | DOS path to and from device path | what the window shows converts back to what the driver holds |
| Logging, common controls | `c_common.c` | log file | `Log`, ... | - |
| Resources, build, `.inf` | `*.rc`, `*.sln`, `*.inf` | none | - | - |

### 1.2 How they interact

    program --IRP--> PreOperation --FltSendMessage--> MessageThread --push--> g_RequestQueue
                        ^    |                                                     | pop
                        |    | g_ListLock                                          v
                        |    v                                            ProcessAccessRequest
                        |  lists <--FilterSendMessage-- main thread <--SendMessage--| (g_SMutex)
                        +------------------FilterReplyMessage-----------------------+

* IRP threads and the message callback share the driver's lists under `g_ListLock`
  and `gClientPort` under no lock at all.
* A held IRP thread waits inside `FltSendMessage` for at most 20 s
  (`FileController.h`, `ACCESS_REQUEST_MESSAGE_REPLY_TIMEOUT`).
* `MessageThread` and `RequestQHandler` share the queue under `g_RQMutex` with a
  condition variable; the main thread writes `g_Running` without the mutex.
* `RequestQHandler` and the main thread share `g_SMutex`, and the former sends
  window messages to the latter while it holds it.

### 1.3 What is hard here

Interleavings on `gClientPort` (tested, then used); two lookups that are not one
critical section; answers that come after the timeout; a client that dies with
questions unanswered; unloading under callbacks and a client; a wait whose
timeout is an undefined conversion of a float; a stop flag written outside the
mutex; a mutex held across a cross-thread `SendMessage`; one list kept in three
places, of which two processes may lose theirs at any time; a timeout that wraps;
dialogs shown one by one, by a thread that may be blocked in between, to questions
that each have a deadline; answers of a length that nobody checks. The full list, each at
its line, is `hazards` in `PROJECT.json`.

## 2. Modules

| Module | Role |
|---|---|
| `AccessControl` | abstract: what the driver promises about every operation |
| `FilterDriver` | the driver, its port and lifecycle, with any client |
| `FilterDriverProofs` | theorems about `FilterDriver` |
| `MCFilterDriver` | small instance of `FilterDriver`, four `.cfg` |
| `QuestionService` | abstract: what the desktop program promises to the driver's questions |
| `RequestPipeline` | the desktop program's threads, queue, dialog, blacklist, shutdown |
| `RequestPipelineProofs` | theorems about `RequestPipeline` |
| `RequestPipelineRefinement` | theorem: `RequestPipeline` implements `QuestionService` |
| `MCRequestPipeline` | small instance of `RequestPipeline`, four `.cfg` |
| `PathNames` | the conversions between DOS and device names, as operators |
| `PathNamesProofs` | theorems about the conversions |
| `ManagerLists` | the lists of files and programs in the driver, the vectors and the window; extends `PathNames` |
| `ManagerListsProofs` | theorems about `ManagerLists` |
| `MCManagerLists` | small instance of `ManagerLists`, one `.cfg` |
| `RequestDialog` | the request dialog's countdown, the driver's deadline, the settings |
| `RequestDialogProofs` | theorems about `RequestDialog` |
| `MCRequestDialog` | small instance of `RequestDialog`, three `.cfg` |

`FilterDriver` assumes nothing of its client. The three modules of the desktop
program each take from the driver only what their own questions need: the sender
of a question (`RequestPipeline`), the two lists and the session (`ManagerLists`),
the 20 s and the decision (`RequestDialog`).

### 2.1 AccessControl

Four variables. An operation goes `idle -> filed -> suspect -> held ->
passed | refused`, or leaves as `passed` earlier. The file lookup and the program
lookup are two steps, since the code looks the two lists up in two critical
sections and the lists may change in between. Only a held operation can be
refused, and the trusted set grows by a release only by the released operation's
own program. There is no port, no timeout and no lifecycle at this level.

### 2.2 FilterDriver

Variables and code:

| Variable | Code |
|---|---|
| `phase` | position in `DriverEntry` / `FileControllerUnload`; `draining` and `aborting` are inside `FltUnregisterFilter` |
| `gClientPort` | `gClientPort` |
| `conn` | the Filter Manager's record of each session |
| `protectedFiles`, `trustedPrograms` | the two lists, as the number of entries per name |
| `pc`, `io` | per operation: position in the callback; what the IRP is |
| `sentTo` | the session on whose port the operation waits |
| `status`, `reply` | result of `AskUserForPermission`; the stack variable `reply` |

There is one action per step between two accesses to shared state, in the order
of the code: `PreOperation` (IRP kind, file name), `CheckFile`, `CheckProgram`,
`AskUserForPermission` (up to the NULL test), `SendMessage` (the use of
`gClientPort`), then one of `ReplyMessage`, `TimeOut`, `PortBroken`, then
`Decide` (the switch). `FileControllerMessage` is the four list messages.
`FileControllerConnect`, `CloseHandle`, `FileControllerDisconnect` are the port;
`DriverEntry` to `Unregister` the lifecycle.

Decisions:

* `STATUS_TIMEOUT` is a success code for `NT_SUCCESS`; `status` keeps the two
  apart, because only the test at `FileController.c:707` does.
* Every critical section under `g_ListLock` is one step: it takes no other lock
  and calls nothing that waits.
* A list is a count per name, because `RtlEqualUnicodeString` ignores case, the
  lookup asks for one match and the removal stops at the first.
* The client is *any* program on the port, not only `FileController.exe`: it
  may send any list message at any time, answer any fetched question with any
  code, in any order, or never, and leave at any point. What holds here does not
  rest on the desktop program.
* An answer may be shorter than `ACCESS_REPLY`: `FltSendMessage` succeeds, and
  nobody looks at `replyLength` (`FileController.c:694-713`). `"unset"` in
  `Answers` stands for it, and `Read` is what the switch may then find in the
  uninitialised stack variable: any number. What the code does ensure is
  `UnsetOnlyByAnswer`.
* The image name is queried into 512 bytes (`FileController.c:80`), the string's
  header included. A longer one makes the call fail and the operation pass
  (`CheckFile` with `imaged` false); so the cut to 255 characters in the question
  (`:679-691`) never meets a program's name.
* A failed allocation is "nothing changes". In `Decide` it is the choice not to
  insert, and `MaxCopies` is the point at which the pool is exhausted.
* The Filter Manager is modelled by its contract: one session at a time
  (`MaxConnections = 1`); `FltSendMessage` to a NULL or closed port returns
  `STATUS_PORT_DISCONNECTED`; it returns the same to a sender whose port breaks;
  the 20 s cover the wait for the fetch and for the answer; a connection's slot
  is free after the disconnect callback has closed the client port;
  `FltUnregisterFilter` stops new callbacks, disconnects a client that is still
  there and waits for callbacks and the connection. These definitions carry
  `external` in the map where no line of the repository stands for them.

### 2.3 RequestPipeline

| Variable | Code |
|---|---|
| `g_Running`, `g_RequestQueue`, `g_BlockedPrograms`, `g_DefaultAction` | the globals of that name |
| `g_Port` | the port handle of `c_specific.c` |
| `waitTimeout` | the DWORD that `INFINITY` becomes (`cpp.hpp:59`) |
| `main`, `msgThread`, `handler` | positions of the three threads |
| `own` | the question about a file operation of the main thread itself |
| `request`, `task` | the question in `MessageThread`, in `RequestQHandler` |
| `dialog`, `replyType` | the request dialog; its result |
| `sender` | the driver's side of each question |
| `fetched`, `processed` | history, for the properties only |

A step ends where a thread can block, calls out, or touches what another thread
writes. `RQMutexFree` and `SMutexFree` derive who owns a mutex from the owner's
position.

Decisions:

* `wait(DWORD timeout = INFINITY)` converts a float infinity to DWORD, which is
  undefined. `waitTimeout` is chosen once: the wait returns on its own, or only
  when notified. A spurious return is always possible, the safety properties
  must bear it; only fairness tells the two apart.
* `MessageThread` is never joined; the process may end at any of its steps. Once
  `main = "exited"` the process is gone; the steps that the other threads could
  still take in the model touch only state that nobody looks at.
* `DialogBoxParamW` returns 0 when the owner window is gone and -1, at any time,
  when the dialog cannot be created (`DialogFails`); the driver knows neither and
  passes. It has no owner while the main window does not exist yet. `SetTimer` may fail
  (`cpp.cpp:422`); the dialog then lasts until someone answers.
* `g_DefaultAction` is the built-in denial or, after the settings dialog, a
  number that the driver does not know (`cpp.cpp:517-522`).
* *Cancel* and a closed box return `g_DefaultAction`, read at that time.
* `RequestDlgProc` and `MainDlgProc` run off their end without a return value
  after some messages (`cpp.cpp:445, 475, 370`). The result only tells the dialog
  manager whether to apply its default handling, which does nothing for these.
* The early return for an unknown request type (`cpp.cpp:608`) is left out: the
  driver sends the three known types only. So are failures to create a thread.
* The main window's lists appear only as the time in which the main thread waits
  for `g_SMutex` and as the window that `InsertItem` needs. The request dialog
  disables its owner while it is shown; a list button pressed just before it
  opened (its file dialog or its message to the driver still in progress), or
  just after it closed, still reaches `g_SMutex` while the handler holds it.

* `OwnAccess` is the main thread's own operation on a protected file: a file
  dialog that opens one, or `WritePrivateProfileStringW` on a protected
  settings.ini. The driver asks about it like about any other, and the thread
  fetches no messages until it is decided. A request dialog that is owned by the
  main window disables and enables its owner by messages across threads
  (`WindowAnswers`), so that it can neither open nor end meanwhile.

`QuestionService` is the abstract specification of this module: three variables,
no threads, no mutexes, no windows and no port. Questions are taken in an order
and answered in that order, one at a time, each at most once and only while the
driver waits; those that the driver gave up on are dropped in their turn; from
the answer BLACKLIST on, a question about the same program is only denied. `line` is
the questions taken and not replied to: the handler's own question until its
reply, then `g_RequestQueue`, then the one that `MessageThread` is about to push.
`answer` is `sender`. `blocked` has a program from the reply on, one step before
`g_BlockedPrograms` has it: in between only the handler could look it up, and the
handler is what inserts it.

### 2.4 PathNames

A name is a sequence of a few pieces, cut so that every comparison of the code
falls between pieces: a drive letter with its colon, the separator, a device in
one or more pieces, and what follows. `ConvertToNtPath` and `ConvertToDosPath`
are the two functions; a call of the system that fails for a letter is a letter
outside `DOMAIN DeviceOf`. `ConvertToDosPath` takes the first letter whose device
the name begins with and drops one more character, whatever it is
(`cpp.cpp:118`): with `HarddiskVolume1` before `HarddiskVolume10` a name on the
second becomes garbled. `Text` is what the desktop program makes of a name in a
question. `Unambiguous` says when that does no harm; the properties of
`ManagerLists` have it as their condition, and the instance has names on both
sides of it. A name is in one canonical case, as all comparisons of list entries
ignore it. A name that is a device and nothing else does not occur: the list of
files comes from a file dialog, and a program is a file.

### 2.5 ManagerLists

| Variable | Code |
|---|---|
| `entries` | `g_ProtectedFilesList`, `g_TrustedProgramsList` of the driver |
| `pending`, `lost` | ADD_TRUSTED answers whose sender has yet to insert, or found no memory (history) |
| `session` | the port: `none`, `open`, `closing` (the process is gone, the disconnect callback not run), `broken` (the driver is gone, the handle not closed) |
| `vectors` | `g_ProtectedFiles`, `g_TrustedPrograms` |
| `views` | the items of `g_hProtectedList`, `g_hTrustedList` |
| `main`, `operation` | the main thread, and the accepted list operation it is at |
| `handler`, `program` | `RequestQHandler` after a reply that succeeded |
| `inherited` | history: what the driver had when the program connected |

A button is three steps, as in the code: the driver's list (`Add`, `Remove`), the
vector under `g_SMutex` (`UpdateVector`), the list view (`UpdateView`). *Add to
Trusted* is `ReplyTrusted`, `PushTrusted`, `InsertItem` in the handler and
`InsertTrusted` in the thread that asked, in any order with each other.

Decisions:

* A removal takes all equal names off the vector and one off the driver's list
  and the view (`cpp.cpp:565`, `:595`). The vectors are read by `WM_INITDIALOG`
  only, so the disagreement stays without effect; `HiddenIsNotInForce` would
  fail if the view did what the vector does (the mutant).
* The handler pushes the DOS name to the vector, the buttons the device name, and
  `WM_INITDIALOG` shows the vectors' names unconverted. A button cannot have been
  pressed before, so only the handler's names get there.
* A message that the driver refuses, or that cannot be sent, changes nothing
  but a message box and is no step. `Accepted` is the other case.
* `Kill` may happen in every step, `Reload` in every state without a pending
  insertion, since unloading waits for the callbacks. The desktop program never
  connects again (`c_specific.c:23` is called once).
* `StartFails` is the two early exits after a thread could not be created; a
  refused connection is no step.
* `g_BlockedPrograms` is not here: `RequestPipeline` has it.

`ListsAgree` is the account of a name: entries, insertions on their way and lost
ones, against items, updates on their way and inherited entries. It is stated
while the connection is open and the window is not closed.

`ListsAssumption` says two things about the names that come in. A path of a file
dialog is a DOS path and begins with no device's name; a program name of the
driver is a device path (`ProcessImageFileName`, `FileController.c:92`) and begins
with no drive letter; one that the driver cannot fit in its 512 bytes is not asked
about. Without the first an item could have a text that the conversions take
for another one's.

### 2.6 RequestDialog

| Variable | Code |
|---|---|
| `g_TimeoutDuration`, `g_DefaultAction` | the globals |
| `iniFile` | the two keys of settings.ini |
| `form` | `SettingsDlgProc`, and the step of its OK |
| `dialog` | `RequestDlgProc`'s statics: the question, `timeLeft`, the timer; `due` is a WM_TIMER in the queue |
| `queue` | the questions that wait for their dialog, the handler's own first |
| `reply` | the result of `DialogBoxParamW`, until `FilterReplyMessage` has returned |
| `age`, `outcome` | per question: seconds in `FltSendMessage`; what the driver did |
| `by`, `ahead`, `stalled`, `entered`, `chosen`, `longest`, `dialog.elapsed` | history, for the properties; `stalled` is the seconds of a question's wait with no dialog on screen; `longest` the most that a dialog could last so far, `Deadline` once one has no timer |

Decisions:

* `Tick` is a second. It passes only when no timer message and no timeout of the
  driver is outstanding: threads are fast compared with a second. The WM_TIMER
  of the 20th second and the driver's timeout race, in both orders.
* The clock runs without a dialog too. The handler may be blocked before a dialog
  opens and as it ends (`cpp.cpp:624`: its owner belongs to the main thread, which
  may be in an access of its own or wait for `g_SMutex`), and after the reply
  (`cpp.cpp:641-648`). No step that ends such a block is forced, so the driver's
  20 s may run out at any point of it.
* `AnswerWithoutDialog` is a program on the blacklist and a `DialogBoxParamW` that
  fails. `Reply` is the `FilterReplyMessage`, a step of its own: the driver's
  timeout may come between the end of the dialog and it.
* The queue between the driver and the dialog is immediate; what happens in it
  is `RequestPipeline`'s subject.
* `ToUint` and `ToInt` are the UINT product of `cpp.cpp:515` and the conversion to
  the int `timeLeft` of `:421`. The field's own limit is that of
  `GetDlgItemInt`, any UINT. OK without a number in the field is no step.
* OK is four steps, since the program may be killed between them, and each may
  fail. A dialog that is open meanwhile goes on.
* `SetTimer` may fail; such a dialog stays until somebody answers it.
* An answer code of the settings dialog, 1 or 2, is none of the driver's; the
  driver passes the operation by the default branch of its switch.

## 3. Runs

| Run | Module, cfg | Instance | Shows |
|---|---|---|---|
| `driver_safety` | `MCFilterDriver` | 2 operations, 2 sessions, 1 file, 2 programs, `MaxCopies` 1 | the invariants and that the driver implements `AccessControl` |
| `driver_liveness` | `..._liveness` | 2 operations, 1 session, 1 program, `MaxCopies` 2, fairness | every operation is decided; unloading ends |
| `driver_denied_reply` | `..._denied` | 2 operations, 1 session | a finding (4.1) |
| `driver_unload_lists` | `..._unload` | 2 operations, 1 session | a finding (4.2) |
| `pipeline_safety` | `MCRequestPipeline` | 3 questions of 2 programs | order, no lost question, no pop from an empty queue, the port outlives the handler, a block stays; it implements `QuestionService` |
| `pipeline_liveness` | `..._liveness` | 2 questions of 1 program, fairness | queued questions are processed; closing the window ends the program |
| `pipeline_block` | `..._block` | 2 questions | a finding (4.3) |
| `pipeline_trust` | `..._trust` | 2 questions | a finding (4.4) |
| `lists` | `MCManagerLists` | 4 drives, 1 file, 3 programs, one name twice | the window's items account for the driver's entries; nothing hidden is in force; what is shown can be removed |
| `dialog_settings` | `MCRequestDialog` | 2 questions, timeouts 7, 11 and the built-in 3 | who is late, by the dialogs before it and a blocked handler; a dialog lasts the seconds entered, and never longer |
| `settings_default` | `..._default` | 1 question | a finding (4.5) |
| `settings_restart` | `..._restart` | 1 question | a finding (4.6) |

**Bounds.** Two operations are the least with which one waits on a port while
another is in the lookups or inserts `ADD_TRUSTED`; the driver has no state that
relates three. Two sessions let one replace the other under a waiting operation.
`MaxCopies` 2 is the least with which a name is listed twice and a removal leaves
it listed; 1 makes an exhausted pool frequent. `create` stands for every
operation that is not watched. One file is enough for the safety run, since an
operation looks up exactly one; the theorems hold for any number of everything.
Three questions are the least with one in the reply, one in the queue and one in
`MessageThread`; two of the same program are needed for `BlockedStaysDenied`. The
safety run of the driver uses symmetry over operations and programs,
`dialog_settings` over questions; no run with a liveness property does. Each operation and each question is issued at most
once; repeated ones are the others of the set. A client session is used once; a
reconnection is the next session.

`MCManagerLists` has the least that makes each case happen: a device that extends
another, a letter without a device, a device without a letter, a program that comes by the file dialog and by the
handler, and this one twice; `MaxCopies` bounds the entries of each name.
`MCRequestDialog` counts 3 milliseconds to a second and has 32 numbers in a UINT:
the built-in 3 seconds fit an int (9), 7 (21) are negative as an int, 11 wrap to
1, less than a second; the runs of the findings use 5 (15), which fit. The built-in
3 seconds and the deadline of 4 are as 15 is to 20. Two questions are the least with one behind another; `LateOnlyBehindOthers` counts
the ones before a question, however many.

**Deadlock** is checked for the driver, the lists and the dialog: a driver can
always be loaded again, a program started again. The
pipeline's runs say `CHECK_DEADLOCK FALSE`, because the program ends, and the
deadlock on `g_SMutex` is stated by name (`SMutexDeadlock`).

**Fairness.** Driver: a thread inside the callback runs on; `FltSendMessage`
comes back when its time is over; the Filter Manager calls the disconnect
callback and disconnects at unregistration; an unload that began runs on. Nothing
is assumed of clients: they need not fetch, answer or leave. `EveryRequestDecided`
therefore rests on the timeout alone, as in the code. Pipeline: runnable threads
run; a timer that was set fires; a wait with a finite timeout returns; the window
manager delivers `WM_DESTROY`; the driver gives up on the main thread's own
operation. A message that was sent to the main window is handled when its thread
next fetches messages, and such times may come and go: `Lookup` and
`DialogTimesOut` have strong fairness. `DialogFails` is fair only once the window
is gone, when `DialogBoxParamW` cannot but fail. Nobody has to answer a dialog or close the
window. `ManagerLists` and `RequestDialog` state safety only: their clocks and
steps need no fairness.
Weak fairness is enough for `GetMessageFails`, `Push` and the mutexes, as each
stays enabled or its holder cannot take it again for ever while others wait
without one of the states the properties name; the liveness run checks this.

The two liveness properties of the pipeline name the states in which the code
really does hang, as alternatives: `SMutexDeadlock`, `UntimedDialog` and
`LostShutdown` (the main thread sets `g_Running` and notifies between the
handler's test and its sleep, where the wait has no timeout).

## 4. Findings

1. **`DeniedReplyRefuses`** (`FileController.c:712`). On an error the reply is set
   to DENIED, but the error status is returned and the caller looks at the reply
   only if `NT_SUCCESS(status)`; the operation passes. The comments at `:667` and
   `:712` and `FileController.h:77` say that it is rejected. It happens when the
   client leaves between the NULL test and `FltSendMessage`, or under it.
2. **`UnloadFreesLists`** (`FileController.c:342`). The lists are freed before the
   filter is unregistered; an entry that a callback or a connected client adds in
   between is never freed.
3. **`BlockTakesEffect`** (`cpp.cpp:637`). *Block program* enters the blacklist
   only if the reply reached the driver; after the driver's 20 s it does not, and
   the user's choice is forgotten. README.md:98 promises the blacklist until the
   interface closes.
4. **`TrustCompletes`** (`cpp.cpp:641`). The handler holds `g_SMutex` while it
   sends messages to the main thread's list view; a main thread that waits for
   `g_SMutex` never handles them. Both hang. README.md:96.
5. **`ChosenDefaultIsReturned`** (`cpp.cpp:521`). The settings dialog stores 1 or 2
   as the default action, which the driver does not know: after *Deny* was chosen
   and confirmed, a dialog that runs out or is cancelled lets the operation pass.
   README.md:80, README.md:100.
6. **`SettingsAreLoaded`** (`FileController.cpp:74`). The settings are read into a
   local variable and not used; after a restart the built-in ones are in force.
   README.md:82.

Two more effects of the code are modelled and have no run of their own. An answer shorter than `ACCESS_REPLY` lets the switch read an unset
variable (2.2): `UnsetOnlyByAnswer` says that nothing else does. A timeout whose
milliseconds do not fit, for the UINT product of `cpp.cpp:515` or the int
`timeLeft`, closes the dialog early (2.6): `DialogEndsInTime` says that none
closes it late, and `LastsAsEntered` is about those that fit.

## 5. Proofs

`FilterDriverProofs` proves, for any sets of operations, files, programs, clients
and IRP kinds, from `NoClientAssumption` and `MaxCopiesAssumption` only:

* `TypeCorrect`, `PortCurrent`, `WaitsOnCurrent`, `UnsetByAnswer`, `TimedOutRefused`,
  `StoppedIsQuiet`: the invariants of `driver_safety`, from the lemma that `IInv`
  is one;
* `Refinement`: `Spec => ImplementsAccessControl`.

`IInv` is `TypeOK`, `PortIsCurrent`, `WaitsOnCurrentClient`, `AnswerInv` and
`QuietWhenStopped`. None of the last four is inductive alone. `WaitsOnCurrentClient`
needs `PortIsCurrent`: a second session can connect only when the first is closed,
and a waiting operation's session is then the closed one. `TimeoutRefuses` and
`UnsetOnlyByAnswer` need `AnswerInv`, which says when the stack variables are set: a
timeout and the default reply are written together, `Decide` must still find
them together, and only an answer leaves `reply` as it was. `QuietWhenStopped` needs
`PortIsCurrent` for its first part. The
proof has one step per action, and under it one per conjunct that the action can
disturb.

The refinement maps `protectedFiles` and `trustedPrograms` to the sets of names
with a positive count, and `pc` to `stage`; all of the question, from
`askUser` to `answered`, is `held`. The proof shows that initial states map to
initial states and that, under `IInv`, every step maps to an abstract step or a
stutter: a second copy of a name, and the removal of one of two, are stutters.

`RequestPipelineProofs` proves, for any sets of questions and programs, from
`ProgramOfAssumption` and `NothingAssumption` (the mark for "no question" is no
question) only:

* `TypeCorrect`, `PopsNonEmpty`, `NoQuestionLost`, `PortOutlives`,
  `InOrder`, `BlockedDenied`: the invariants of
  `pipeline_safety`, all of them.

Apart from the types none is inductive alone; each part of the strengthening is in the
proof module:

* `TaskInv` and `WaitInv`: the handler has a question exactly where it works on
  one, and what it knows of the queue at each point of its wait. It tests the queue
  under `g_RQMutex` and sleeps under it, so a push can only come after it sleeps;
  an asleep handler with a filled queue is then one whose notification is the next
  thing `MessageThread` does. `PopsFromNonEmpty` and `NoLostQuestion` follow. This
  would fail if the test and the sleep were two critical sections.
* `PortInv`: the main thread is past the join only when the handler is done.
* `AnswerInv`, for `BlockedStaysDenied`: no question is fetched twice; the
  driver has decided the first `Answered` ones of `fetched`, and waits for the
  rest or has given up on them. It rests on `FetchedInOrder`, which says where in
  `fetched` the handler's question is (`Places`).
* `BlockInv`: a program that got BLACKLIST is in `g_BlockedPrograms` or is just
  being inserted by the handler (`ToldIsBlocked`), and the handler's question of a
  blocked program never reaches a dialog (`BlockedIsDenied`). Because one thread
  both answers and inserts, no lookup lies between the two.

`RequestPipelineRefinement` proves `Refinement`: `Spec => ImplementsQuestionService`,
from the same assumptions and the conjunction of the parts above. Fetching a
question appends it to `line`. Push and pop move a question within `line` and are
stutters, by associativity of concatenation; for the pop the queue must have a
head, which is `WaitInv`. A reply takes the head away: it is `Answer` when the
driver still waits and `Drop` when it has given up, and `AnswerInv` says that
these are the only two cases. That a blocked program is only denied is
`BlockedIsDenied`. The insertion after the reply is a stutter again.

`RequestDialogProofs` proves, for any UINT modulus, length of a second, deadline,
built-in timeout and set of questions, from `NumbersAssumption` only (the modulus
is even, the built-in timeout fits an int):

* `TypeCorrect`, `EndsInTime`, `LastsLong`, `LateBehindOthers`: the properties of
  `dialog_settings`, all of them.

Their strengthening:

* `SettingsInv`: `g_TimeoutDuration` is the UINT product of what was entered last.
* `CountdownInv`: `timeLeft` and the seconds that passed add up to what the dialog
  was shown with, one timer message that is still in the queue left out.
  `DialogEndsInTime` and `LastsAsEntered` read the two ends of this equation.
* `HandlerInv`: a dialog and a reply do not exist at the same time, so the handler
  is at one question at a time.
* `AgeInv`: a question that the driver waits for is in the queue, on screen or
  being replied to, and is no older than what it had to wait for: the dialogs that
  are over, each at most `longest`, the seconds of the present one, and those that
  passed without one (`stalled`). `LateOnlyBehindOthers` multiplies that out at the
  deadline. Queue positions shift with every question that is taken, which is why
  the invariant counts the dialogs that are over by position.

`PathNamesProofs` proves, for any drives and devices, from `DeviceAssumption`
(each letter has a device of its own, and no piece of a device's name is a
separator or a letter):

* `RoundTrip`: the text of an unambiguous name converts back to the name;
* `Injective`: no other name's text does;
* `ChosenText`: a path from a file dialog is the text of the name that it becomes.

The argument is that the first letter whose device a name begins with is the one
whose device ends where the name's separator is: `Unambiguous` says so, and no
device contains a separator. The one character that `ConvertToDosPath` drops is
then that separator, which it has written behind the drive letter already.

`ManagerListsProofs` proves, for any names and any `MaxCopies`, from
`ListsAssumption`, `MaxCopiesAssumption` and those of `PathNames`:

* `TypeCorrect`, `ListsAlwaysAgree`, `HiddenNotInForce`, `ShownRemovable`: the
  invariants of `lists`, all of them.

The inductive invariant is `TypeOK`, `ListsAgree` and three parts. `EmptyInv`: a
process begins with empty vectors and an empty window. `TextsInv`: only a text
that came from a file dialog or from the driver is ever on show. `OperationInv`:
an operation under way was begun on such a text, and a removal on an item that is
still there, so no count goes below zero. `ListsAgree` relates a name to one text;
that no other text on show stands for the same name is `TextsOf`, from the three
theorems of `PathNamesProofs`. `HiddenIsNotInForce` and `ShownIsRemovable` follow
from the account without an induction of their own.

Only model-checked, because they are out of the prover's reach: the liveness
properties (`EveryRequestDecided`, `UnloadCompletes`, `QueuedIsProcessed`,
`ExitCompletes`) and the absence of deadlock. Every safety
property of a passing run is a theorem. The findings are TLC's counterexamples.

## 6. Not modelled

* Instance and post-operation callbacks: they return constants.
* The driver's helpers for volume instances, opening files, flushing caches and
  searching substrings: their only calls are in comments
  (`FileController.c:596-604, 831-852`).
* Logging, resources, project files, the `.inf`.
* The blacklist's key is the shown name of a program: two programs that
  `ConvertToDosPath` garbles to one name share it. `RequestPipeline` has programs with names of their own.
* The progress bar and the texts of the dialogs; the layout of messages.
* What a reloaded driver and a window that still lists everything mean for each
  other: the code has no promise for it. `ManagerLists` has the state, and its
  properties leave it out.

## 7. Plan

Every component with state is modelled, and every safety property of a passing
run is proved. What is left:

1. An abstract specification of the two lists that the user sees, implemented by
   `ManagerLists` for unambiguous names.
2. The composition at the port: a driver whose client is a `QuestionService`
   refuses a blocked program's operations from the answer on.

----------------------------- MODULE FilterDriver -----------------------------
(***************************************************************************)
(* FileControllerDriver: the minifilter of FileController.c with the part  *)
(* of the Filter Manager it stands on (the communication port, the waiting *)
(* FltSendMessage, the draining FltUnregisterFilter).  The client side of  *)
(* the port is any client: it connects, sends list messages, fetches       *)
(* requests, answers the ones it fetched with any reply, a complete one or *)
(* one too short to hold a ReplyType, and goes away.                       *)
(*                                                                         *)
(* g_ListLock is a fast mutex: no critical section blocks, calls out or    *)
(* takes another lock, so each one is one atomic step here.  A list with   *)
(* its first-match removal is a multiset of names up to letter case        *)
(* (RtlEqualUnicodeString with CaseInSensitive = TRUE): a count per name.  *)
(***************************************************************************)
EXTENDS Integers

CONSTANTS
  Requests,    \* the file operations that pass the filter, each settled once
  Files,       \* file names, up to letter case
  Programs,    \* program image names, up to letter case
  Clients,     \* client sessions: one FilterConnectCommunicationPort each
  NoClient,    \* gClientPort = NULL
  Operations,  \* the IRP kinds that the environment issues
  MaxCopies    \* bound: list entries of one name; the pool is exhausted there

ASSUME NoClientAssumption == NoClient \notin Clients
ASSUME MaxCopiesAssumption == MaxCopies \in Nat \ {0}

VARIABLES
  phase,            \* where the driver is between DriverEntry and FltUnregisterFilter
  gClientPort,      \* the connected session, or NoClient
  conn,             \* the Filter Manager's state of each session
  protectedFiles,   \* g_ProtectedFilesList: entries per file name
  trustedPrograms,  \* g_TrustedProgramsList: entries per program name
  pc,               \* where each operation is in FileControllerPreOperation
  io,               \* what each operation is
  sentTo,           \* the session whose port an operation waits on
  status,           \* the NTSTATUS that AskUserForPermission returns
  reply             \* the stack variable ACCESS_REPLY reply, ReplyType

driverVars == <<phase, gClientPort, conn>>
listVars == <<protectedFiles, trustedPrograms>>
askVars == <<sentTo, status, reply>>
vars == <<driverVars, listVars, pc, io, askVars>>

----------------------------------------------------------------------------
(* Constants of the code.                                                  *)

(* The value of requestType per IRP; "none" is 0.  A SET_INFORMATION IRP   *)
(* is a deletion when its class is FileDispositionInformation(Ex).         *)
RequestType(op) ==
  CASE op = "read" -> "FILESYSTEM_READ"
    [] op = "write" -> "FILESYSTEM_WRITE"
    [] op = "disposition" -> "FILESYSTEM_DELETE"
    [] OTHER -> "none"

(* "unknown" is every number that is none of the four RESPONSE_TYPE codes. *)
ReplyTypes == {"ACCESS_GRANTED", "ACCESS_DENIED", "ADD_TRUSTED", "BLACKLIST", "unknown"}
DEFAULT_RESPONSE_TYPE == "ACCESS_DENIED"

(* What a client may answer.  "unset" is an answer shorter than            *)
(* ACCESS_REPLY: FltSendMessage succeeds, reports the length that nobody   *)
(* looks at, and leaves the stack variable reply as it was.                *)
Answers == ReplyTypes \union {"unset"}

Statuses == {"STATUS_SUCCESS", "STATUS_TIMEOUT", "STATUS_PORT_DISCONNECTED"}

(* The success macro: STATUS_TIMEOUT (0x102) counts as success.            *)
NT_SUCCESS(s) == s \in {"STATUS_SUCCESS", "STATUS_TIMEOUT"}

NoIo == [op |-> "none"]
Io == [op : Operations, file : Files, program : Programs,
       named : BOOLEAN, imaged : BOOLEAN]

Final == {"passed", "refused"}
InPort == {"sent", "fetched"}
PcValues == {"idle", "checkFile", "checkProgram", "askUser", "send", "answered"}
            \union InPort \union Final

Phases == {"stopped", "starting", "running", "closing", "freed", "draining",
           "aborting"}
ConnStates == {"none", "open", "closing", "closed"}

Init ==
  /\ phase = "stopped"
  /\ gClientPort = NoClient
  /\ conn = [c \in Clients |-> "none"]
  /\ protectedFiles = [f \in Files |-> 0]
  /\ trustedPrograms = [p \in Programs |-> 0]
  /\ pc = [r \in Requests |-> "idle"]
  /\ io = [r \in Requests |-> NoIo]
  /\ sentTo = [r \in Requests |-> NoClient]
  /\ status = [r \in Requests |-> "unset"]
  /\ reply = [r \in Requests |-> "unset"]

Goto(r, from, to) ==
  /\ pc[r] = from
  /\ pc' = [pc EXCEPT ![r] = to]

----------------------------------------------------------------------------
(* FileControllerPreOperation, one step per access to shared state.        *)

IsFileProtected(f) == protectedFiles[f] > 0

IsProgramTrusted(p) == trustedPrograms[p] > 0

(* The filter sees operations from FltStartFiltering until                 *)
(* FltUnregisterFilter stops new callbacks; the lists are freed before     *)
(* that.  Operations it does not watch, and files whose name cannot be     *)
(* had, pass at once.                                                      *)
PreOperation(r) ==
  /\ phase \in {"running", "closing", "freed"}
  /\ \E d \in Io :
       /\ Goto(r, "idle", IF RequestType(d.op) # "none" /\ d.named
                          THEN "checkFile" ELSE "passed")
       /\ io' = [io EXCEPT ![r] = d]
  /\ UNCHANGED <<driverVars, listVars, askVars>>

(* The result of GetProcessFullImagePath is not looked at.                 *)
MutantNoImageCheck(r) ==
  /\ Goto(r, "checkFile", IF IsFileProtected(io[r].file)
                          THEN "checkProgram" ELSE "passed")
  /\ UNCHANGED <<driverVars, listVars, io, askVars>>

(* IsFileProtected, then GetProcessFullImagePath: when the image name      *)
(* cannot be had the operation passes.                                     *)
CheckFile(r) ==
  /\ Goto(r, "checkFile", IF IsFileProtected(io[r].file) /\ io[r].imaged
                          THEN "checkProgram" ELSE "passed")
  /\ UNCHANGED <<driverVars, listVars, io, askVars>>

CheckProgram(r) ==
  /\ Goto(r, "checkProgram", IF IsProgramTrusted(io[r].program)
                             THEN "passed" ELSE "askUser")
  /\ UNCHANGED <<driverVars, listVars, io, askVars>>

(* The early return forgets the default reply.                             *)
MutantReplyNotSet(r) ==
  /\ Goto(r, "askUser", IF gClientPort = NoClient THEN "answered" ELSE "send")
  /\ IF gClientPort = NoClient
     THEN status' = [status EXCEPT ![r] = "STATUS_SUCCESS"]
     ELSE UNCHANGED status
  /\ UNCHANGED <<driverVars, listVars, io, sentTo, reply>>

(* AskUserForPermission up to FltSendMessage: with no client the reply is  *)
(* the default one.                                                        *)
AskUserForPermission(r) ==
  /\ Goto(r, "askUser", IF gClientPort = NoClient THEN "answered" ELSE "send")
  /\ IF gClientPort = NoClient
     THEN /\ status' = [status EXCEPT ![r] = "STATUS_SUCCESS"]
          /\ reply' = [reply EXCEPT ![r] = DEFAULT_RESPONSE_TYPE]
     ELSE UNCHANGED <<status, reply>>
  /\ UNCHANGED <<driverVars, listVars, io, sentTo>>

(* AskUserForPermission after FltSendMessage: anything but an answer sets  *)
(* the default reply.                                                      *)
Unanswered(r, s) ==
  /\ pc' = [pc EXCEPT ![r] = "answered"]
  /\ status' = [status EXCEPT ![r] = s]
  /\ reply' = [reply EXCEPT ![r] = DEFAULT_RESPONSE_TYPE]

Connected(c) == c \in Clients /\ conn[c] = "open"

(* FltSendMessage queues the request on the client's port.  gClientPort    *)
(* was seen non-NULL a step earlier; the session may be gone by now.       *)
SendMessage(r) ==
  /\ pc[r] = "send"
  /\ IF Connected(gClientPort)
     THEN /\ pc' = [pc EXCEPT ![r] = "sent"]
          /\ sentTo' = [sentTo EXCEPT ![r] = gClientPort]
          /\ UNCHANGED <<status, reply>>
     ELSE /\ Unanswered(r, "STATUS_PORT_DISCONNECTED")
          /\ UNCHANGED sentTo
  /\ UNCHANGED <<driverVars, listVars, io>>

(* The time runs only until the client has fetched the request.            *)
MutantTimeOutUntilFetched(r) ==
  /\ pc[r] = "sent"
  /\ Unanswered(r, "STATUS_TIMEOUT")
  /\ UNCHANGED <<driverVars, listVars, io, sentTo>>

(* The test is !NT_SUCCESS(status) alone, which STATUS_TIMEOUT passes.      *)
MutantTimeOutKeepsReply(r) ==
  /\ pc[r] \in InPort
  /\ pc' = [pc EXCEPT ![r] = "answered"]
  /\ status' = [status EXCEPT ![r] = "STATUS_TIMEOUT"]
  /\ UNCHANGED <<driverVars, listVars, io, sentTo, reply>>

(* The 20 s of ACCESS_REQUEST_MESSAGE_REPLY_TIMEOUT are over.              *)
TimeOut(r) ==
  /\ pc[r] \in InPort
  /\ Unanswered(r, "STATUS_TIMEOUT")
  /\ UNCHANGED <<driverVars, listVars, io, sentTo>>

(* The session's port goes away under the waiting FltSendMessage.          *)
PortBroken(r) ==
  /\ pc[r] \in InPort
  /\ ~Connected(sentTo[r])
  /\ Unanswered(r, "STATUS_PORT_DISCONNECTED")
  /\ UNCHANGED <<driverVars, listVars, io, sentTo>>

(* What the switch may read: an unset stack variable holds anything.       *)
Read(r) == IF reply[r] = "unset" THEN ReplyTypes ELSE {reply[r]}

Refuses(r, t) == NT_SUCCESS(status[r]) /\ t \in {"ACCESS_DENIED", "BLACKLIST"}

(* The switch on the reply.  ADD_TRUSTED inserts a list entry under the    *)
(* lock unless the pool is exhausted, and passes either way; an unknown    *)
(* reply and an error status leave the switch and pass as well.            *)
Decide(r) ==
  /\ \E t \in Read(r) :
       /\ Goto(r, "answered", IF Refuses(r, t) THEN "refused" ELSE "passed")
       /\ \/ UNCHANGED trustedPrograms
          \/ /\ NT_SUCCESS(status[r]) /\ t = "ADD_TRUSTED"
             /\ trustedPrograms[io[r].program] < MaxCopies
             /\ trustedPrograms' = [trustedPrograms EXCEPT ![io[r].program] = @ + 1]
  /\ UNCHANGED <<driverVars, protectedFiles, io, askVars>>

----------------------------------------------------------------------------
(* FileControllerMessage.  A failed allocation changes nothing; the        *)
(* responseType that the client reads is 1 exactly when an entry was       *)
(* inserted or removed.                                                    *)

AddFile(f) ==
  /\ protectedFiles[f] < MaxCopies
  /\ protectedFiles' = [protectedFiles EXCEPT ![f] = @ + 1]
  /\ UNCHANGED trustedPrograms

(* RemoveEntryList after the loop, whether or not an entry was found.      *)
MutantRemoveUnfound(f) ==
  /\ protectedFiles' = [protectedFiles EXCEPT ![f] = @ - 1]
  /\ UNCHANGED trustedPrograms

(* The loop stops at the first entry that matches.                         *)
RemoveFile(f) ==
  /\ protectedFiles[f] > 0
  /\ protectedFiles' = [protectedFiles EXCEPT ![f] = @ - 1]
  /\ UNCHANGED trustedPrograms

AddProgram(p) ==
  /\ trustedPrograms[p] < MaxCopies
  /\ trustedPrograms' = [trustedPrograms EXCEPT ![p] = @ + 1]
  /\ UNCHANGED protectedFiles

RemoveProgram(p) ==
  /\ trustedPrograms[p] > 0
  /\ trustedPrograms' = [trustedPrograms EXCEPT ![p] = @ - 1]
  /\ UNCHANGED protectedFiles

FileControllerMessage(c) ==
  /\ Connected(c)
  /\ \/ \E f \in Files : AddFile(f) \/ RemoveFile(f)
     \/ \E p \in Programs : AddProgram(p) \/ RemoveProgram(p)
  /\ UNCHANGED <<driverVars, pc, io, askVars>>

----------------------------------------------------------------------------
(* The client's side of the port, kept by the Filter Manager.              *)

(* MaxConnections = 2.                                                     *)
MutantTwoConnections(c) ==
  /\ phase \in {"starting", "running"}
  /\ conn[c] = "none"
  /\ conn' = [conn EXCEPT ![c] = "open"]
  /\ gClientPort' = c
  /\ UNCHANGED <<phase, listVars, pc, io, askVars>>

(* The server port takes MaxConnections = 1 session at a time.             *)
FileControllerConnect(c) ==
  /\ phase \in {"starting", "running"}
  /\ conn[c] = "none"
  /\ \A d \in Clients : conn[d] \in {"none", "closed"}
  /\ conn' = [conn EXCEPT ![c] = "open"]
  /\ gClientPort' = c
  /\ UNCHANGED <<phase, listVars, pc, io, askVars>>

(* The client closes its handle or dies.                                   *)
CloseHandle(c) ==
  /\ Connected(c)
  /\ conn' = [conn EXCEPT ![c] = "closing"]
  /\ UNCHANGED <<phase, gClientPort, listVars, pc, io, askVars>>

Unregistering == phase \in {"draining", "aborting"}

(* FltUnregisterFilter disconnects a client that is still there.           *)
UnregisterDisconnects(c) ==
  /\ Unregistering
  /\ CloseHandle(c)

(* gClientPort = NULL is missing.                                          *)
MutantKeepPort(c) ==
  /\ conn[c] = "closing"
  /\ conn' = [conn EXCEPT ![c] = "closed"]
  /\ UNCHANGED <<phase, gClientPort, listVars, pc, io, askVars>>

(* FltCloseClientPort is missing.                                          *)
MutantLeavePortOpen(c) ==
  /\ conn[c] = "closing"
  /\ gClientPort' = NoClient
  /\ UNCHANGED <<phase, conn, listVars, pc, io, askVars>>

(* The disconnect callback: FltCloseClientPort frees the connection.       *)
FileControllerDisconnect(c) ==
  /\ conn[c] = "closing"
  /\ conn' = [conn EXCEPT ![c] = "closed"]
  /\ gClientPort' = NoClient
  /\ UNCHANGED <<phase, listVars, pc, io, askVars>>

(* FilterGetMessage by the client.                                         *)
GetMessage(r) ==
  /\ Connected(sentTo[r])
  /\ Goto(r, "sent", "fetched")
  /\ UNCHANGED <<driverVars, listVars, io, askVars>>

(* FilterReplyMessage by the client, to a message whose sender still       *)
(* waits: FltSendMessage succeeds and AskUserForPermission returns what it *)
(* got, whatever its length.  A later reply finds no waiter and changes    *)
(* nothing here.                                                           *)
ReplyMessage(r, t) ==
  /\ Connected(sentTo[r])
  /\ Goto(r, "fetched", "answered")
  /\ status' = [status EXCEPT ![r] = "STATUS_SUCCESS"]
  /\ reply' = [reply EXCEPT ![r] = t]
  /\ UNCHANGED <<driverVars, listVars, io, sentTo>>

----------------------------------------------------------------------------
(* DriverEntry and FileControllerUnload.                                   *)

ClearLists ==
  /\ protectedFiles' = [f \in Files |-> 0]
  /\ trustedPrograms' = [p \in Programs |-> 0]

(* InitializeListHead, FltRegisterFilter, FltCreateCommunicationPort.  A   *)
(* failure before the port exists undoes the registration: no change.      *)
DriverEntry ==
  /\ phase = "stopped"
  /\ phase' = "starting"
  /\ ClearLists
  /\ UNCHANGED <<gClientPort, conn, pc, io, askVars>>

(* FltStartFiltering, or its failure: the server port is closed and        *)
(* FltUnregisterFilter entered.                                            *)
StartFiltering ==
  /\ phase = "starting"
  /\ phase' \in {"running", "aborting"}
  /\ UNCHANGED <<gClientPort, conn, listVars, pc, io, askVars>>

(* FltCloseCommunicationPort: no new sessions, but the filter still runs.  *)
FileControllerUnload ==
  /\ phase = "running"
  /\ phase' = "closing"
  /\ UNCHANGED <<gClientPort, conn, listVars, pc, io, askVars>>

FreeLists ==
  /\ phase = "closing"
  /\ phase' = "freed"
  /\ ClearLists
  /\ UNCHANGED <<gClientPort, conn, pc, io, askVars>>

(* The unload routine returns without FltUnregisterFilter.                 *)
MutantNoUnregister ==
  /\ phase = "freed"
  /\ phase' = "stopped"
  /\ UNCHANGED <<gClientPort, conn, listVars, pc, io, askVars>>

(* FltUnregisterFilter is entered: no new callbacks.                       *)
BeginUnregister ==
  /\ phase = "freed"
  /\ phase' = "draining"
  /\ UNCHANGED <<gClientPort, conn, listVars, pc, io, askVars>>

(* FltUnregisterFilter returns when no callback runs and no client is      *)
(* connected.                                                              *)
Unregister ==
  /\ Unregistering
  /\ \A r \in Requests : pc[r] \in {"idle"} \union Final
  /\ \A c \in Clients : conn[c] \in {"none", "closed"}
  /\ phase' = "stopped"
  /\ UNCHANGED <<gClientPort, conn, listVars, pc, io, askVars>>

----------------------------------------------------------------------------
RequestStep(r) ==
  \/ PreOperation(r) \/ CheckFile(r) \/ CheckProgram(r)
  \/ AskUserForPermission(r) \/ SendMessage(r)
  \/ TimeOut(r) \/ PortBroken(r) \/ Decide(r)
  \/ GetMessage(r) \/ \E t \in Answers : ReplyMessage(r, t)

ClientStep(c) ==
  \/ FileControllerMessage(c)
  \/ FileControllerConnect(c) \/ CloseHandle(c)
  \/ UnregisterDisconnects(c) \/ FileControllerDisconnect(c)

LifecycleStep ==
  DriverEntry \/ StartFiltering \/ FileControllerUnload
  \/ FreeLists \/ BeginUnregister \/ Unregister

Next ==
  \/ \E r \in Requests : RequestStep(r)
  \/ \E c \in Clients : ClientStep(c)
  \/ LifecycleStep

Spec == Init /\ [][Next]_vars

(* A thread in the callback runs on, FltSendMessage returns when its time  *)
(* is over or its port is gone, the Filter Manager calls the disconnect    *)
(* callback, and an unload that began runs on.  Nobody has to issue I/O,   *)
(* to connect, to answer or to unload.                                     *)
Fairness ==
  /\ \A r \in Requests :
       /\ WF_vars(CheckFile(r)) /\ WF_vars(CheckProgram(r))
       /\ WF_vars(AskUserForPermission(r)) /\ WF_vars(SendMessage(r))
       /\ WF_vars(TimeOut(r)) /\ WF_vars(Decide(r))
  /\ \A c \in Clients : /\ WF_vars(UnregisterDisconnects(c))
                        /\ WF_vars(FileControllerDisconnect(c))
  /\ WF_vars(StartFiltering) /\ WF_vars(FreeLists)
  /\ WF_vars(BeginUnregister) /\ WF_vars(Unregister)

FairSpec == Spec /\ Fairness

----------------------------------------------------------------------------
(* Properties.                                                             *)

TypeOK ==
  /\ phase \in Phases
  /\ gClientPort \in Clients \union {NoClient}
  /\ conn \in [Clients -> ConnStates]
  /\ protectedFiles \in [Files -> 0..MaxCopies]
  /\ trustedPrograms \in [Programs -> 0..MaxCopies]
  /\ pc \in [Requests -> PcValues]
  /\ io \in [Requests -> Io \union {NoIo}]
  /\ \A r \in Requests : pc[r] # "idle" => io[r] \in Io
  /\ sentTo \in [Requests -> Clients \union {NoClient}]
  /\ status \in [Requests -> Statuses \union {"unset"}]
  /\ reply \in [Requests -> Answers]

(* gClientPort is the session that has not been disconnected, and NULL     *)
(* when there is none: no request goes to a client that is gone for good.  *)
PortIsCurrent ==
  \A c \in Clients : gClientPort = c <=> conn[c] \in {"open", "closing"}

(* An operation waits on the current client, or on one whose port is       *)
(* already broken: a second client never takes over a port on which an     *)
(* operation still waits for the first.                                    *)
WaitsOnCurrentClient ==
  \A r \in Requests : pc[r] \in InPort =>
    /\ sentTo[r] \in Clients
    /\ sentTo[r] = gClientPort \/ conn[sentTo[r]] = "closed"

(* FileControllerPreOperation switches on the uninitialised stack variable *)
(* reply only after a client's own answer left it so: no client, a broken  *)
(* port, a timeout and an unload in between all come back with it set.     *)
UnsetOnlyByAnswer ==
  \A r \in Requests : pc[r] = "answered" =>
    /\ status[r] # "unset"
    /\ reply[r] = "unset" => status[r] = "STATUS_SUCCESS" /\ sentTo[r] \in Clients

(* An operation whose question timed out is refused.                       *)
TimeoutRefuses ==
  \A r \in Requests :
    status[r] = "STATUS_TIMEOUT" /\ pc[r] \in Final => pc[r] = "refused"

(* Once the driver has been unloaded, no callback runs in its code and no  *)
(* client holds its port.                                                  *)
QuietWhenStopped ==
  phase = "stopped" =>
    /\ gClientPort = NoClient
    /\ \A c \in Clients : conn[c] \in {"none", "closed"}
    /\ \A r \in Requests : pc[r] \in {"idle"} \union Final

(* What holds of the stack variables at each point of the callback: no     *)
(* status is set before the question is put, an answer alone leaves reply  *)
(* unset after it, and a timeout always comes with the default reply.      *)
AnswerInv ==
  \A r \in Requests :
    /\ pc[r] \notin {"answered"} \union Final => status[r] = "unset"
    /\ pc[r] = "answered" =>
         /\ status[r] # "unset"
         /\ reply[r] = "unset" => status[r] = "STATUS_SUCCESS" /\ sentTo[r] \in Clients
    /\ status[r] = "STATUS_TIMEOUT" =>
         reply[r] = DEFAULT_RESPONSE_TYPE /\ pc[r] \in {"answered", "refused"}

(* The inductive invariant: at every point of every behaviour the port,    *)
(* the waiting operations and the stack variables agree.                   *)
IInv ==
  /\ TypeOK
  /\ PortIsCurrent
  /\ WaitsOnCurrentClient
  /\ AnswerInv
  /\ QuietWhenStopped

(* Every operation that enters the callback is passed or refused in the    *)
(* end, with a client that fetches nothing, answers nothing or dies.       *)
EveryRequestDecided ==
  \A r \in Requests : pc[r] # "idle" ~> pc[r] \in Final

(* An unload that began ends, with operations and a client in the way.     *)
UnloadCompletes == phase = "closing" ~> phase = "stopped"

(* The callback's program counter as the abstract stage.                   *)
stage ==
  [r \in Requests |->
     CASE pc[r] = "checkFile" -> "filed"
       [] pc[r] = "checkProgram" -> "suspect"
       [] pc[r] \in {"askUser", "send", "answered"} \union InPort -> "held"
       [] OTHER -> pc[r]]

AC == INSTANCE AccessControl WITH
        protected <- {f \in Files : IsFileProtected(f)},
        trusted <- {p \in Programs : IsProgramTrusted(p)},
        Watched <- {op \in Operations : RequestType(op) # "none"}

(* The driver implements the access control of AccessControl: settled      *)
(* once, held only when first its file and then its program failed the     *)
(* lookups, refused only when held, trusted only by the operator.          *)
ImplementsAccessControl == AC!Spec

(* The comments at FileController.c:667 and :712 and FileController.h:77:  *)
(* without a client, and when the request did not succeed, the access is   *)
(* denied.                                                                 *)
DeniedReplyRefuses ==
  \A r \in Requests :
    reply[r] = DEFAULT_RESPONSE_TYPE /\ pc[r] \in Final => pc[r] = "refused"

(* The comment at FileController.c:342: unloading frees both lists.        *)
UnloadFreesLists ==
  [][phase = "draining" /\ phase' = "stopped" =>
       /\ \A f \in Files : protectedFiles[f] = 0
       /\ \A p \in Programs : trustedPrograms[p] = 0]_vars
==============================================================================

-------------------------- MODULE FilterDriverProofs --------------------------
(***************************************************************************)
(* What FilterDriver's runs show on two operations and two sessions, for   *)
(* every set of operations, files, programs and sessions.                  *)
(***************************************************************************)
EXTENDS FilterDriver, TLAPS

USE NoClientAssumption, MaxCopiesAssumption

LEMMA InitIInv == Init => IInv
  BY DEF Init, IInv, TypeOK, PortIsCurrent, WaitsOnCurrentClient, AnswerInv,
         QuietWhenStopped, Phases, ConnStates, PcValues, InPort, Final, Io, NoIo,
         Answers

(***************************************************************************)
(* Type correctness.                                                       *)
(***************************************************************************)
LEMMA TypeOKStep == TypeOK /\ [Next]_vars => TypeOK'
<1> SUFFICES ASSUME TypeOK, [Next]_vars PROVE TypeOK'
    OBVIOUS
<1> USE DEF TypeOK, Phases, ConnStates, PcValues, InPort, Final, ReplyTypes,
            Answers, Statuses, DEFAULT_RESPONSE_TYPE, driverVars, listVars, askVars
<1>1. ASSUME NEW r \in Requests, RequestStep(r) PROVE TypeOK'
  <2>1. CASE PreOperation(r)
    BY <2>1 DEF PreOperation, Goto
  <2>2. CASE CheckFile(r)
    BY <2>2 DEF CheckFile, Goto
  <2>3. CASE CheckProgram(r)
    BY <2>3 DEF CheckProgram, Goto
  <2>4. CASE AskUserForPermission(r)
    BY <2>4 DEF AskUserForPermission, Goto
  <2>5. CASE SendMessage(r)
    BY <2>5 DEF SendMessage, Unanswered, Connected
  <2>6. CASE TimeOut(r)
    BY <2>6 DEF TimeOut, Unanswered
  <2>7. CASE PortBroken(r)
    BY <2>7 DEF PortBroken, Unanswered
  <2>8. CASE Decide(r)
    <3>1. io[r] \in Io
      BY <2>8 DEF Decide, Goto
    <3>2. io[r].program \in Programs
      BY <3>1 DEF Io
    <3>3. QED
      BY <2>8, <3>1, <3>2 DEF Decide, Goto
  <2>9. CASE GetMessage(r)
    BY <2>9 DEF GetMessage, Goto
  <2>10. ASSUME NEW t \in Answers, ReplyMessage(r, t) PROVE TypeOK'
    BY <2>10 DEF ReplyMessage, Goto
  <2>11. QED
    BY <1>1, <2>1, <2>2, <2>3, <2>4, <2>5, <2>6, <2>7, <2>8, <2>9, <2>10
       DEF RequestStep
<1>2. ASSUME NEW c \in Clients, ClientStep(c) PROVE TypeOK'
  <2>1. CASE FileControllerMessage(c)
    BY <2>1 DEF FileControllerMessage, AddFile, RemoveFile, AddProgram, RemoveProgram
  <2>2. CASE FileControllerConnect(c)
    BY <2>2 DEF FileControllerConnect
  <2>3. CASE CloseHandle(c)
    BY <2>3 DEF CloseHandle
  <2>4. CASE UnregisterDisconnects(c)
    BY <2>4 DEF UnregisterDisconnects, CloseHandle
  <2>5. CASE FileControllerDisconnect(c)
    BY <2>5 DEF FileControllerDisconnect
  <2>6. QED
    BY <1>2, <2>1, <2>2, <2>3, <2>4, <2>5 DEF ClientStep
<1>3. CASE LifecycleStep
  BY <1>3 DEF LifecycleStep, DriverEntry, ClearLists, StartFiltering,
              FileControllerUnload, FreeLists, BeginUnregister, Unregister
<1>4. CASE UNCHANGED vars
  BY <1>4 DEF vars
<1>5. QED
  BY <1>1, <1>2, <1>3, <1>4 DEF Next

(* The variables of the driver only ever hold values of their types, on    *)
(* every path of the callbacks and of the message handler.                 *)
THEOREM TypeCorrect == Spec => []TypeOK
<1>1. Init => TypeOK
  BY InitIInv DEF IInv
<1>2. QED
  BY <1>1, TypeOKStep, PTL DEF Spec

(***************************************************************************)
(* The inductive invariant.  PortIsCurrent and WaitsOnCurrentClient are    *)
(* disturbed by the steps of the port only, AnswerInv by the steps of an   *)
(* operation only, QuietWhenStopped by the steps that reach or leave       *)
(* "stopped"; TimeoutRefuses is not inductive by itself, AnswerInv is.     *)
(***************************************************************************)

(* A request's step leaves the port and the lifecycle alone, and works on  *)
(* an operation that is under way or on a filter that runs.                *)
LEMMA RequestStepFrame ==
  ASSUME NEW r \in Requests, RequestStep(r)
  PROVE  /\ UNCHANGED driverVars
         /\ phase # "stopped" \/ pc[r] \notin {"idle"} \union Final
  BY DEF RequestStep, PreOperation, CheckFile, CheckProgram, AskUserForPermission,
         SendMessage, TimeOut, PortBroken, Decide, GetMessage, ReplyMessage, Goto,
         driverVars, InPort, Final

(* It moves no other operation.                                            *)
LEMMA RequestStepOthers ==
  ASSUME TypeOK, NEW r \in Requests, RequestStep(r), NEW q \in Requests, q # r
  PROVE  /\ pc'[q] = pc[q] /\ sentTo'[q] = sentTo[q]
         /\ status'[q] = status[q] /\ reply'[q] = reply[q]
<1> USE DEF TypeOK, Goto, Unanswered, askVars
<1>1. CASE PreOperation(r) \/ CheckFile(r) \/ CheckProgram(r)
  BY <1>1 DEF PreOperation, CheckFile, CheckProgram
<1>2. CASE AskUserForPermission(r)
  BY <1>2 DEF AskUserForPermission
<1>3. CASE SendMessage(r)
  BY <1>3 DEF SendMessage
<1>4. CASE TimeOut(r) \/ PortBroken(r)
  BY <1>4 DEF TimeOut, PortBroken
<1>5. CASE Decide(r) \/ GetMessage(r)
  BY <1>5 DEF Decide, GetMessage
<1>6. CASE \E t \in Answers : ReplyMessage(r, t)
  BY <1>6 DEF ReplyMessage
<1>7. QED
  BY <1>1, <1>2, <1>3, <1>4, <1>5, <1>6 DEF RequestStep

(* What a step of an operation does to the operation itself.               *)
LEMMA RequestStepSelf ==
  ASSUME TypeOK, PortIsCurrent, NEW r \in Requests, RequestStep(r),
         WaitsOnCurrentClient, AnswerInv
  PROVE  /\ pc'[r] \in InPort =>
              /\ sentTo'[r] \in Clients
              /\ sentTo'[r] = gClientPort \/ conn[sentTo'[r]] = "closed"
         /\ pc'[r] \notin {"answered"} \union Final => status'[r] = "unset"
         /\ pc'[r] = "answered" =>
              /\ status'[r] # "unset"
              /\ reply'[r] = "unset" =>
                   status'[r] = "STATUS_SUCCESS" /\ sentTo'[r] \in Clients
         /\ status'[r] = "STATUS_TIMEOUT" =>
              reply'[r] = DEFAULT_RESPONSE_TYPE /\ pc'[r] \in {"answered", "refused"}
<1> USE DEF TypeOK, Goto, Unanswered, askVars, InPort, Final, AnswerInv,
            DEFAULT_RESPONSE_TYPE, WaitsOnCurrentClient
<1>1. CASE PreOperation(r) \/ CheckFile(r) \/ CheckProgram(r)
  BY <1>1 DEF PreOperation, CheckFile, CheckProgram
<1>2. CASE AskUserForPermission(r)
  BY <1>2 DEF AskUserForPermission
<1>3. CASE SendMessage(r)
  BY <1>3 DEF SendMessage, Connected
<1>4. CASE TimeOut(r) \/ PortBroken(r)
  BY <1>4 DEF TimeOut, PortBroken
<1>5. CASE Decide(r)
  BY <1>5 DEF Decide, Read, Refuses, NT_SUCCESS
<1>6. CASE GetMessage(r)
  BY <1>6 DEF GetMessage
<1>7. CASE \E t \in Answers : ReplyMessage(r, t)
  BY <1>7 DEF ReplyMessage, Connected
<1>8. QED
  BY <1>1, <1>2, <1>3, <1>4, <1>5, <1>6, <1>7 DEF RequestStep

(* A step of the client or of the lifecycle touches no operation.          *)
LEMMA OtherStepFrame ==
  ASSUME LifecycleStep \/ \E c \in Clients : ClientStep(c)
  PROVE  UNCHANGED <<pc, sentTo, status, reply>>
  BY DEF LifecycleStep, ClientStep, FileControllerMessage, FileControllerConnect,
         CloseHandle, UnregisterDisconnects, FileControllerDisconnect, DriverEntry,
         StartFiltering, FileControllerUnload, FreeLists, BeginUnregister,
         Unregister, askVars


LEMMA PortStep == IInv /\ [Next]_vars => PortIsCurrent'
<1> SUFFICES ASSUME IInv, [Next]_vars PROVE PortIsCurrent'
    OBVIOUS
<1> USE DEF IInv, TypeOK, PortIsCurrent
<1>1. ASSUME NEW r \in Requests, RequestStep(r) PROVE PortIsCurrent'
  BY <1>1, RequestStepFrame DEF driverVars
<1>2. ASSUME NEW c \in Clients, ClientStep(c) PROVE PortIsCurrent'
  <2>1. CASE FileControllerMessage(c)
    BY <2>1 DEF FileControllerMessage, driverVars
  <2>2. CASE FileControllerConnect(c)
    BY <2>2 DEF FileControllerConnect
  <2>3. CASE CloseHandle(c)
    BY <2>3 DEF CloseHandle, Connected
  <2>4. CASE UnregisterDisconnects(c)
    BY <2>4 DEF UnregisterDisconnects, CloseHandle, Connected
  <2>5. CASE FileControllerDisconnect(c)
    BY <2>5 DEF FileControllerDisconnect
  <2>6. QED
    BY <1>2, <2>1, <2>2, <2>3, <2>4, <2>5 DEF ClientStep
<1>3. CASE LifecycleStep
  BY <1>3 DEF LifecycleStep, DriverEntry, StartFiltering, FileControllerUnload,
              FreeLists, BeginUnregister, Unregister
<1>4. CASE UNCHANGED vars
  BY <1>4 DEF vars, driverVars
<1>5. QED
  BY <1>1, <1>2, <1>3, <1>4 DEF Next

(* An open session is gClientPort, so a session that is replaced by a new  *)
(* one is already closed, with the operations that wait on it.             *)
LEMMA WaitsStep == IInv /\ [Next]_vars => WaitsOnCurrentClient'
<1> SUFFICES ASSUME IInv, [Next]_vars PROVE WaitsOnCurrentClient'
    OBVIOUS
<1> USE DEF IInv, TypeOK, PortIsCurrent, WaitsOnCurrentClient
<1>1. ASSUME NEW r \in Requests, RequestStep(r) PROVE WaitsOnCurrentClient'
  BY <1>1, RequestStepFrame, RequestStepOthers, RequestStepSelf DEF driverVars
<1>2. ASSUME NEW c \in Clients, ClientStep(c) PROVE WaitsOnCurrentClient'
  <2>0. UNCHANGED <<pc, sentTo>>
    BY <1>2, OtherStepFrame
  <2>1. CASE FileControllerMessage(c)
    BY <2>0, <2>1 DEF FileControllerMessage, driverVars
  <2>2. CASE FileControllerConnect(c)
    BY <2>0, <2>2 DEF FileControllerConnect
  <2>3. CASE CloseHandle(c) \/ UnregisterDisconnects(c)
    BY <2>0, <2>3 DEF CloseHandle, UnregisterDisconnects, Connected
  <2>4. CASE FileControllerDisconnect(c)
    BY <2>0, <2>4 DEF FileControllerDisconnect
  <2>5. QED
    BY <1>2, <2>1, <2>2, <2>3, <2>4 DEF ClientStep
<1>3. CASE LifecycleStep
  BY <1>3, OtherStepFrame
     DEF LifecycleStep, DriverEntry, StartFiltering, FileControllerUnload,
         FreeLists, BeginUnregister, Unregister
<1>4. CASE UNCHANGED vars
  BY <1>4 DEF vars, driverVars, askVars
<1>5. QED
  BY <1>1, <1>2, <1>3, <1>4 DEF Next

LEMMA AnswerStep == IInv /\ [Next]_vars => AnswerInv'
<1> SUFFICES ASSUME IInv, [Next]_vars PROVE AnswerInv'
    OBVIOUS
<1>1. ASSUME NEW r \in Requests, RequestStep(r) PROVE AnswerInv'
  BY <1>1, RequestStepOthers, RequestStepSelf DEF IInv, AnswerInv
<1>2. CASE LifecycleStep \/ \E c \in Clients : ClientStep(c)
  BY <1>2, OtherStepFrame DEF IInv, AnswerInv
<1>3. CASE UNCHANGED vars
  BY <1>3 DEF vars, askVars, IInv, AnswerInv
<1>4. QED
  BY <1>1, <1>2, <1>3 DEF Next

(* "stopped" is entered by Unregister, which waits for all callbacks and   *)
(* sessions, and nothing but DriverEntry can move there.                   *)
LEMMA QuietStep == IInv /\ [Next]_vars => QuietWhenStopped'
<1> SUFFICES ASSUME IInv, [Next]_vars, phase' = "stopped" PROVE QuietWhenStopped'
    BY DEF QuietWhenStopped
<1> USE DEF IInv, TypeOK, QuietWhenStopped
<1>1. ASSUME NEW r \in Requests, RequestStep(r) PROVE QuietWhenStopped'
  BY <1>1, RequestStepFrame DEF driverVars, RequestStep, PreOperation, CheckFile,
     CheckProgram, AskUserForPermission, SendMessage, TimeOut, PortBroken, Decide,
     GetMessage, ReplyMessage, Goto, InPort, Final
<1>2. ASSUME NEW c \in Clients, ClientStep(c) PROVE QuietWhenStopped'
  BY <1>2, OtherStepFrame
     DEF ClientStep, FileControllerMessage, FileControllerConnect, CloseHandle,
         UnregisterDisconnects, FileControllerDisconnect, Connected, driverVars
<1>3. CASE LifecycleStep
  <2>1. CASE Unregister
    BY <2>1, <1>3, OtherStepFrame DEF Unregister, PortIsCurrent
  <2>2. QED
    BY <1>3, <2>1 DEF LifecycleStep, DriverEntry, StartFiltering,
       FileControllerUnload, FreeLists, BeginUnregister
<1>4. CASE UNCHANGED vars
  BY <1>4 DEF vars, driverVars
<1>5. QED
  BY <1>1, <1>2, <1>3, <1>4 DEF Next

(* The port, the waiting operations and the stack variables agree in every *)
(* reachable state.                                                        *)
LEMMA InductiveInvariant == Spec => []IInv
<1>1. IInv /\ [Next]_vars => IInv'
  BY TypeOKStep, PortStep, WaitsStep, AnswerStep, QuietStep DEF IInv
<1>2. QED
  BY InitIInv, <1>1, PTL DEF Spec

(* gClientPort, written only by the connect and disconnect callbacks, is   *)
(* the live session at every moment: AskUserForPermission never sends to a *)
(* client that was disconnected, nor misses one that is there.             *)
THEOREM PortCurrent == Spec => []PortIsCurrent
  BY InductiveInvariant, PTL DEF IInv

(* No operation waits on a session that another one has replaced while it  *)
(* was open: a reply always comes from the client that was asked.          *)
THEOREM WaitsOnCurrent == Spec => []WaitsOnCurrentClient
  BY InductiveInvariant, PTL DEF IInv

(* FileControllerPreOperation reads its stack variable reply unset only    *)
(* when a client answered, and answered too short: never after a timeout,  *)
(* a broken port or without a client, also when the driver is unloaded.    *)
THEOREM UnsetByAnswer == Spec => []UnsetOnlyByAnswer
<1>1. IInv => UnsetOnlyByAnswer
  BY DEF IInv, AnswerInv, UnsetOnlyByAnswer
<1>2. QED
  BY InductiveInvariant, <1>1, PTL

(* STATUS_TIMEOUT passes NT_SUCCESS, so the default reply that             *)
(* AskUserForPermission sets is switched on and refuses the operation.     *)
THEOREM TimedOutRefused == Spec => []TimeoutRefuses
<1>1. IInv => TimeoutRefuses
  BY DEF IInv, AnswerInv, TimeoutRefuses, Final
<1>2. QED
  BY InductiveInvariant, <1>1, PTL

(* An unloaded driver has no callback in flight and no client.             *)
THEOREM StoppedIsQuiet == Spec => []QuietWhenStopped
  BY InductiveInvariant, PTL DEF IInv


(***************************************************************************)
(* The refinement: every step of the driver is a step of AccessControl or  *)
(* leaves its variables alone.                                             *)
(***************************************************************************)

protectedSet == {f \in Files : IsFileProtected(f)}
trustedSet == {p \in Programs : IsProgramTrusted(p)}

LEMMA InitRefines == Init => AC!Init
<1> SUFFICES ASSUME Init PROVE AC!Init
    OBVIOUS
<1>1. protectedSet = {} /\ trustedSet = {}
  BY DEF Init, protectedSet, trustedSet, IsFileProtected, IsProgramTrusted
<1>2. stage = [r \in Requests |-> "idle"]
  BY DEF Init, stage, InPort
<1>3. QED
  BY <1>1, <1>2 DEF AC!Init, Init, protectedSet, trustedSet, NoIo, AC!NoIo

(* How a list of counts maps to a set: one more entry, one entry less.     *)
LEMMA FileListStep ==
  ASSUME TypeOK, NEW f \in Files, AddFile(f) \/ RemoveFile(f)
  PROVE  protectedSet' \in {protectedSet \union {f}, protectedSet \ {f}}
<1> USE DEF TypeOK, protectedSet, IsFileProtected
<1>1. CASE AddFile(f)
  <2>1. protectedSet' = protectedSet \union {f}
    BY <1>1 DEF AddFile
  <2>2. QED
    BY <2>1
<1>2. CASE RemoveFile(f)
  <2>1. CASE protectedFiles[f] = 1
    <3>1. protectedSet' = protectedSet \ {f}
      BY <1>2, <2>1 DEF RemoveFile
    <3>2. QED
      BY <3>1
  <2>2. CASE protectedFiles[f] # 1
    <3>1. protectedSet' = protectedSet \union {f}
      BY <1>2, <2>2 DEF RemoveFile
    <3>2. QED
      BY <3>1
  <2>3. QED
    BY <2>1, <2>2
<1>3. QED
  BY <1>1, <1>2

LEMMA ProgramListStep ==
  ASSUME TypeOK, NEW p \in Programs, AddProgram(p) \/ RemoveProgram(p)
  PROVE  trustedSet' \in {trustedSet \union {p}, trustedSet \ {p}}
<1> USE DEF TypeOK, trustedSet, IsProgramTrusted
<1>1. CASE AddProgram(p)
  <2>1. trustedSet' = trustedSet \union {p}
    BY <1>1 DEF AddProgram
  <2>2. QED
    BY <2>1
<1>2. CASE RemoveProgram(p)
  <2>1. CASE trustedPrograms[p] = 1
    <3>1. trustedSet' = trustedSet \ {p}
      BY <1>2, <2>1 DEF RemoveProgram
    <3>2. QED
      BY <3>1
  <2>2. CASE trustedPrograms[p] # 1
    <3>1. trustedSet' = trustedSet \union {p}
      BY <1>2, <2>2 DEF RemoveProgram
    <3>2. QED
      BY <3>1
  <2>3. QED
    BY <2>1, <2>2
<1>3. QED
  BY <1>1, <1>2

(* Steps that leave the counts alone leave the sets alone.                 *)
LEMMA SameSets ==
  ASSUME UNCHANGED listVars
  PROVE  UNCHANGED <<protectedSet, trustedSet>>
  BY DEF listVars, protectedSet, trustedSet, IsFileProtected, IsProgramTrusted

LEMMA SameStages ==
  ASSUME UNCHANGED pc
  PROVE  UNCHANGED stage
  BY DEF stage

(* The mapped program counter, point by point.                             *)
LEMMA StageOf ==
  ASSUME TypeOK, NEW r \in Requests
  PROVE  /\ pc[r] = "checkFile" => stage[r] = "filed"
         /\ pc[r] = "checkProgram" => stage[r] = "suspect"
         /\ pc[r] \in {"askUser", "send", "answered"} \union InPort => stage[r] = "held"
         /\ pc[r] \in {"idle"} \union Final => stage[r] = pc[r]
  BY DEF TypeOK, stage, InPort, Final, PcValues

LEMMA StageMoves ==
  ASSUME TypeOK, NEW r \in Requests, NEW to, NEW s, pc' = [pc EXCEPT ![r] = to],
         \/ to = "checkFile" /\ s = "filed"
         \/ to = "checkProgram" /\ s = "suspect"
         \/ to \in {"askUser", "send", "answered"} \union InPort /\ s = "held"
         \/ to \in Final /\ s = to
  PROVE  stage' = [stage EXCEPT ![r] = s]
<1>1. \A q \in Requests : pc'[q] = IF q = r THEN to ELSE pc[q]
  BY DEF TypeOK
<1>2. QED
  BY <1>1 DEF stage, InPort, Final

(* A question put, waited for and answered is one stage: the operation is  *)
(* held throughout.                                                        *)
LEMMA HeldStays ==
  ASSUME TypeOK, NEW r \in Requests, NEW to,
         pc[r] \in {"askUser", "send", "answered"} \union InPort,
         to \in {"askUser", "send", "answered"} \union InPort,
         pc' = [pc EXCEPT ![r] = to]
  PROVE  UNCHANGED stage
<1>1. stage' = [stage EXCEPT ![r] = "held"]
  BY StageMoves
<1>2. stage[r] = "held"
  BY StageOf
<1>3. stage = [q \in Requests |-> stage[q]]
  BY DEF stage
<1>4. QED
  BY <1>1, <1>2, <1>3

LEMMA RequestStepRefines ==
  ASSUME TypeOK, NEW r \in Requests, RequestStep(r)
  PROVE  AC!Next \/ UNCHANGED AC!absVars
<1> USE DEF driverVars, listVars, askVars
<1>1. CASE PreOperation(r)
  <2>1. PICK d \in Io :
          /\ Goto(r, "idle", IF RequestType(d.op) # "none" /\ d.named
                             THEN "checkFile" ELSE "passed")
          /\ io' = [io EXCEPT ![r] = d]
    BY <1>1 DEF PreOperation
  <2>2. d.op \in Operations /\ d \in AC!Io
    BY DEF Io, AC!Io
  <2>3. AC!Concerns(d) <=> RequestType(d.op) # "none" /\ d.named
    BY <2>2 DEF AC!Concerns
  <2>4. AC!Advance(r, "idle", IF AC!Concerns(d) THEN "filed" ELSE "passed")
    <3>1. stage[r] = "idle"
      BY <2>1, StageOf DEF Goto, Final
    <3>2. CASE AC!Concerns(d)
      <4>1. pc[r] = "idle" /\ pc' = [pc EXCEPT ![r] = "checkFile"]
        BY <2>1, <2>3, <3>2 DEF Goto
      <4>2. stage' = [stage EXCEPT ![r] = "filed"]
        BY <4>1, StageMoves
      <4>3. QED
        BY <3>1, <3>2, <4>2 DEF AC!Advance
    <3>3. CASE ~AC!Concerns(d)
      <4>1. pc' = [pc EXCEPT ![r] = "passed"]
        BY <2>1, <2>3, <3>3 DEF Goto
      <4>2. stage' = [stage EXCEPT ![r] = "passed"]
        BY <4>1, StageMoves DEF Final
      <4>3. QED
        BY <3>1, <3>3, <4>2 DEF AC!Advance
    <3>4. QED
      BY <3>2, <3>3
  <2>5. UNCHANGED <<protectedSet, trustedSet>>
    BY <1>1, SameSets DEF PreOperation
  <2>6. AC!Submit(r)
    BY <2>1, <2>2, <2>4, <2>5 DEF AC!Submit, protectedSet, trustedSet
  <2>7. QED
    BY <2>6 DEF AC!Next
<1>2. CASE CheckFile(r)
  <2>1. io[r].file \in Files
    BY <1>2 DEF CheckFile, Goto, TypeOK, Io
  <2>2. AC!Advance(r, "filed", IF io[r].file \in protectedSet /\ io[r].imaged
                               THEN "suspect" ELSE "passed")
    <3>1. stage[r] = "filed"
      BY <1>2, StageOf DEF CheckFile, Goto
    <3>2. CASE io[r].file \in protectedSet /\ io[r].imaged
      <4>1. pc[r] = "checkFile" /\ pc' = [pc EXCEPT ![r] = "checkProgram"]
        BY <1>2, <3>2 DEF CheckFile, Goto, protectedSet
      <4>2. stage' = [stage EXCEPT ![r] = "suspect"]
        BY <4>1, StageMoves
      <4>3. QED
        BY <3>1, <3>2, <4>2 DEF AC!Advance
    <3>3. CASE ~(io[r].file \in protectedSet /\ io[r].imaged)
      <4>1. pc' = [pc EXCEPT ![r] = "passed"]
        BY <1>2, <2>1, <3>3 DEF CheckFile, Goto, protectedSet
      <4>2. stage' = [stage EXCEPT ![r] = "passed"]
        BY <4>1, StageMoves DEF Final
      <4>3. QED
        BY <3>1, <3>3, <4>2 DEF AC!Advance
    <3>4. QED
      BY <3>2, <3>3
  <2>3. UNCHANGED <<protectedSet, trustedSet, io>>
    BY <1>2, SameSets DEF CheckFile
  <2>4. AC!CheckFile(r)
    BY <2>2, <2>3 DEF AC!CheckFile, protectedSet, trustedSet
  <2>5. QED
    BY <2>4 DEF AC!Next
<1>3. CASE CheckProgram(r)
  <2>1. io[r].program \in Programs
    BY <1>3 DEF CheckProgram, Goto, TypeOK, Io
  <2>2. AC!Advance(r, "suspect", IF io[r].program \in trustedSet
                                 THEN "passed" ELSE "held")
    <3>1. stage[r] = "suspect"
      BY <1>3, StageOf DEF CheckProgram, Goto
    <3>2. CASE io[r].program \in trustedSet
      <4>1. pc' = [pc EXCEPT ![r] = "passed"]
        BY <1>3, <3>2 DEF CheckProgram, Goto, trustedSet
      <4>2. stage' = [stage EXCEPT ![r] = "passed"]
        BY <4>1, StageMoves DEF Final
      <4>3. QED
        BY <3>1, <3>2, <4>2 DEF AC!Advance
    <3>3. CASE io[r].program \notin trustedSet
      <4>1. pc[r] = "checkProgram" /\ pc' = [pc EXCEPT ![r] = "askUser"]
        BY <1>3, <2>1, <3>3 DEF CheckProgram, Goto, trustedSet
      <4>2. stage' = [stage EXCEPT ![r] = "held"]
        BY <4>1, StageMoves
      <4>3. QED
        BY <3>1, <3>3, <4>2 DEF AC!Advance
    <3>4. QED
      BY <3>2, <3>3
  <2>3. UNCHANGED <<protectedSet, trustedSet, io>>
    BY <1>3, SameSets DEF CheckProgram
  <2>4. AC!CheckProgram(r)
    BY <2>2, <2>3 DEF AC!CheckProgram, protectedSet, trustedSet
  <2>5. QED
    BY <2>4 DEF AC!Next
<1>4. CASE \/ AskUserForPermission(r) \/ SendMessage(r) \/ TimeOut(r)
           \/ PortBroken(r) \/ GetMessage(r) \/ \E t \in Answers : ReplyMessage(r, t)
  <2>1. UNCHANGED <<listVars, io>>
    BY <1>4 DEF AskUserForPermission, SendMessage, TimeOut, PortBroken, GetMessage,
                ReplyMessage
  <2>2. UNCHANGED stage
    <3>1. CASE AskUserForPermission(r)
      BY <3>1, HeldStays DEF AskUserForPermission, Goto
    <3>2. CASE SendMessage(r)
      BY <3>2, HeldStays DEF SendMessage, Unanswered, InPort
    <3>3. CASE TimeOut(r) \/ PortBroken(r)
      BY <3>3, HeldStays DEF TimeOut, PortBroken, Unanswered
    <3>4. CASE GetMessage(r)
      BY <3>4, HeldStays DEF GetMessage, Goto, InPort
    <3>5. CASE \E t \in Answers : ReplyMessage(r, t)
      BY <3>5, HeldStays DEF ReplyMessage, Goto, InPort
    <3>6. QED
      BY <1>4, <3>1, <3>2, <3>3, <3>4, <3>5
  <2>3. QED
    BY <2>1, <2>2, SameSets DEF AC!absVars, protectedSet, trustedSet
<1>5. CASE Decide(r)
  <2>1. io[r].program \in Programs
    BY <1>5 DEF Decide, Goto, TypeOK, Io
  <2>2. stage[r] = "held"
    BY <1>5, StageOf DEF Decide, Goto
  <2>3. protectedSet' = protectedSet /\ io' = io
    BY <1>5 DEF Decide, protectedSet, IsFileProtected
  <2>4. PICK t \in Read(r) :
          /\ Goto(r, "answered", IF Refuses(r, t) THEN "refused" ELSE "passed")
          /\ \/ UNCHANGED trustedPrograms
             \/ /\ t = "ADD_TRUSTED"
                /\ trustedPrograms' = [trustedPrograms EXCEPT ![io[r].program] = @ + 1]
    BY <1>5 DEF Decide
  <2>5. CASE Refuses(r, t)
    <3>1. trustedSet' = trustedSet
      BY <2>4, <2>5 DEF Refuses, trustedSet, IsProgramTrusted
    <3>2. stage' = [stage EXCEPT ![r] = "refused"]
      <4>1. pc' = [pc EXCEPT ![r] = "refused"]
        BY <2>4, <2>5 DEF Goto
      <4>2. QED
        BY <4>1, StageMoves DEF Final
    <3>3. AC!Refuse(r)
      BY <2>2, <2>3, <3>1, <3>2
         DEF AC!Refuse, AC!Advance, protectedSet, trustedSet
    <3>4. QED
      BY <3>3 DEF AC!Next
  <2>6. CASE ~Refuses(r, t)
    <3>1. stage' = [stage EXCEPT ![r] = "passed"]
      <4>1. pc' = [pc EXCEPT ![r] = "passed"]
        BY <2>4, <2>6 DEF Goto
      <4>2. QED
        BY <4>1, StageMoves DEF Final
    <3>2. trustedSet' \in {trustedSet, trustedSet \union {io[r].program}}
      <4>1. CASE UNCHANGED trustedPrograms
        BY <4>1 DEF trustedSet, IsProgramTrusted
      <4>2. CASE trustedPrograms' = [trustedPrograms EXCEPT ![io[r].program] = @ + 1]
        <5>1. trustedSet' = trustedSet \union {io[r].program}
          BY <2>1, <4>2 DEF TypeOK, trustedSet, IsProgramTrusted
        <5>2. QED
          BY <5>1
      <4>3. QED
        BY <2>4, <4>1, <4>2
    <3>3. AC!Release(r)
      BY <2>2, <2>3, <3>1, <3>2
         DEF AC!Release, AC!Advance, protectedSet, trustedSet
    <3>4. QED
      BY <3>3 DEF AC!Next
  <2>7. QED
    BY <2>5, <2>6
<1>6. QED
  BY <1>1, <1>2, <1>3, <1>4, <1>5 DEF RequestStep

LEMMA ClientStepRefines ==
  ASSUME TypeOK, NEW c \in Clients, ClientStep(c)
  PROVE  AC!Next \/ UNCHANGED AC!absVars
<1>1. CASE FileControllerMessage(c)
  <2>1. UNCHANGED <<stage, io>>
    BY <1>1, SameStages DEF FileControllerMessage
  <2>2. ASSUME NEW f \in Files, AddFile(f) \/ RemoveFile(f) PROVE AC!ChangePolicy
    <3>1. protectedSet' \in {protectedSet \union {f}, protectedSet \ {f}}
      BY <2>2, FileListStep
    <3>2. trustedSet' = trustedSet
      BY <2>2 DEF AddFile, RemoveFile, trustedSet, IsProgramTrusted
    <3>3. QED
      BY <2>1, <3>1, <3>2 DEF AC!ChangePolicy, protectedSet, trustedSet
  <2>3. ASSUME NEW p \in Programs, AddProgram(p) \/ RemoveProgram(p)
        PROVE  AC!ChangePolicy
    <3>1. trustedSet' \in {trustedSet \union {p}, trustedSet \ {p}}
      BY <2>3, ProgramListStep
    <3>2. protectedSet' = protectedSet
      BY <2>3 DEF AddProgram, RemoveProgram, protectedSet, IsFileProtected
    <3>3. QED
      BY <2>1, <3>1, <3>2 DEF AC!ChangePolicy, protectedSet, trustedSet
  <2>4. QED
    BY <1>1, <2>2, <2>3 DEF FileControllerMessage, AC!Next
<1>2. CASE ~FileControllerMessage(c)
  <2>1. UNCHANGED <<listVars, pc, io>>
    BY <1>2 DEF ClientStep, FileControllerConnect, CloseHandle, UnregisterDisconnects,
                FileControllerDisconnect
  <2>2. QED
    BY <2>1, SameSets, SameStages DEF AC!absVars, protectedSet, trustedSet
<1>3. QED
  BY <1>1, <1>2

LEMMA LifecycleStepRefines ==
  ASSUME TypeOK, LifecycleStep
  PROVE  AC!Next \/ UNCHANGED AC!absVars
<1>1. UNCHANGED <<stage, io>>
  BY SameStages DEF LifecycleStep, DriverEntry, StartFiltering, FileControllerUnload,
                    FreeLists, BeginUnregister, Unregister
<1>2. CASE ClearLists
  <2>1. protectedSet' = {} /\ trustedSet' = {}
    BY <1>2 DEF ClearLists, protectedSet, trustedSet, IsFileProtected, IsProgramTrusted
  <2>2. AC!ChangePolicy
    BY <1>1, <2>1 DEF AC!ChangePolicy, protectedSet, trustedSet
  <2>3. QED
    BY <2>2 DEF AC!Next
<1>3. CASE UNCHANGED listVars
  BY <1>1, <1>3, SameSets DEF AC!absVars, protectedSet, trustedSet
<1>4. QED
  BY <1>2, <1>3 DEF LifecycleStep, DriverEntry, StartFiltering, FileControllerUnload,
                    FreeLists, BeginUnregister, Unregister

LEMMA NextRefines == TypeOK /\ [Next]_vars => [AC!Next]_(AC!absVars)
<1> SUFFICES ASSUME TypeOK, [Next]_vars PROVE AC!Next \/ UNCHANGED AC!absVars
    OBVIOUS
<1>1. CASE UNCHANGED vars
  BY <1>1, SameSets, SameStages DEF vars, AC!absVars, protectedSet, trustedSet
<1>2. QED
  BY <1>1, RequestStepRefines, ClientStepRefines, LifecycleStepRefines DEF Next

(* The filter with its port, sessions, timeouts and unloading implements   *)
(* the access control: for any number of operations and clients, each one  *)
(* is settled once, is held only after both lookups went against it, and   *)
(* is refused only when held.                                              *)
THEOREM Refinement == Spec => ImplementsAccessControl
<1>1. Spec => []TypeOK
  BY TypeCorrect
<1>2. QED
  BY <1>1, InitRefines, NextRefines, PTL DEF Spec, ImplementsAccessControl, AC!Spec

==============================================================================

---------------------------- MODULE RequestDialog ----------------------------
(***************************************************************************)
(* The request dialog against the clock, and the settings that govern it.  *)
(* Questions are shown one at a time; each has a deadline of its own in    *)
(* the driver, which runs from the moment it is put.  The settings dialog  *)
(* changes the timeout and the default action at any time, also while a    *)
(* request dialog is on screen: they belong to different threads.  What it *)
(* saves is there when the program is started again.                       *)
(*                                                                         *)
(* The clock ticks once a second, and the driver's seconds pass whatever   *)
(* the program does.  A dialog on screen handles its timer message before  *)
(* the next tick; the handler without one may be blocked for any time: by  *)
(* the main thread, whose window owns the dialog, before it opens and as   *)
(* it ends, and by g_SMutex and the list view after Add to Trusted.        *)
(***************************************************************************)
EXTENDS Integers, Sequences

CONSTANTS
  Questions,       \* the questions of the driver, each put once
  Seconds,         \* what the user may type as timeout
  MsPerSecond,     \* 1000 in the code
  Modulus,         \* 2^32: UINT and ULONG
  DefaultTimeout,  \* 15: seconds, built in
  Deadline         \* 20: seconds that the driver waits for an answer

ASSUME NumbersAssumption ==
  /\ MsPerSecond \in Nat \ {0}
  /\ Modulus \in Nat /\ Modulus % 2 = 0
  /\ DefaultTimeout \in Nat \ {0} /\ DefaultTimeout * MsPerSecond < Modulus \div 2
  /\ Deadline \in Nat \ {0}
  /\ Seconds \subseteq 0..(Modulus - 1)

VARIABLES
  running,            \* the program
  g_TimeoutDuration,  \* in milliseconds
  g_DefaultAction,    \* what a dialog without an answer returns
  iniFile,            \* settings.ini: its two keys
  form,               \* the settings dialog
  queue,              \* the questions that wait for their dialog, the handler's own first
  dialog,             \* the request dialog on screen
  reply,              \* the result of the last one, until the driver has it
  age,                \* per question that waits, for how long it has
  outcome,            \* per question, what the driver did
  by,                 \* history: who decided that
  ahead,              \* history: how many were before a waiting one when it was put
  stalled,            \* history: the seconds of its wait with no dialog on screen
  entered,            \* history: the timeout last confirmed, in seconds
  chosen,             \* history: the default action last confirmed, or the built-in one
  longest             \* history: the most that a dialog could last; Deadline without a timer

settingsVars == <<g_TimeoutDuration, g_DefaultAction, iniFile, form, entered, chosen>>
handlerVars == <<queue, dialog, reply>>
waitVars == <<age, ahead, stalled>>
questionVars == <<outcome, by, waitVars>>
vars == <<running, settingsVars, handlerVars, questionVars, longest>>

----------------------------------------------------------------------------
(* The settings dialog's 1 and 2 are no response codes of the driver.      *)
Responses == {"ACCESS_GRANTED", "ACCESS_DENIED", "ADD_TRUSTED", "BLACKLIST"}
Actions == {"ACCESS_DENIED", "1", "2"}

(* The driver's switch: what is no refusal passes.                         *)
Decided(code) == IF code \in {"ACCESS_DENIED", "BLACKLIST"} THEN "refused" ELSE "passed"

Absent == 0 - 1
NoForm == [at |-> "closed", allow |-> FALSE]
NoDialog == [task |-> "none"]
NoReply == [task |-> "none"]

MutantToUint(n) == n  \* the product is kept in a wider type
ToUint(n) == n % Modulus
ToInt(u) == IF u >= Modulus \div 2 THEN u - Modulus ELSE u

BuiltInTimeout == DefaultTimeout * MsPerSecond
BuiltInAction == "ACCESS_DENIED"

Init ==
  /\ running = FALSE
  /\ g_TimeoutDuration = BuiltInTimeout
  /\ g_DefaultAction = BuiltInAction
  /\ entered = DefaultTimeout
  /\ chosen = "builtin"
  /\ iniFile = [Timeout |-> Absent, DefaultAction |-> "2"]
  /\ form = NoForm
  /\ queue = <<>>
  /\ dialog = NoDialog
  /\ reply = NoReply
  /\ age = [q \in Questions |-> 0]
  /\ outcome = [q \in Questions |-> "unsent"]
  /\ by = [q \in Questions |-> "nobody"]
  /\ ahead = [q \in Questions |-> 0]
  /\ stalled = [q \in Questions |-> 0]
  /\ longest = 0

----------------------------------------------------------------------------
(* Start and end of the program.                                           *)

(* LoadSettings fills a variable of wWinMain that nothing reads; the       *)
(* globals keep the values that they are built with.                       *)
Start ==
  /\ ~running
  /\ running' = TRUE
  /\ UNCHANGED <<settingsVars, handlerVars, questionVars, longest>>

(* Killed at any point, or closed: the port is gone, and the driver passes *)
(* what was waiting on it.  The next start finds the built-in values.      *)
ProgramEnds ==
  /\ running
  /\ running' = FALSE
  /\ g_TimeoutDuration' = BuiltInTimeout
  /\ g_DefaultAction' = BuiltInAction
  /\ entered' = DefaultTimeout
  /\ chosen' = "builtin"
  /\ form' = NoForm
  /\ queue' = <<>>
  /\ dialog' = NoDialog
  /\ reply' = NoReply
  /\ outcome' = [q \in Questions |-> IF outcome[q] = "waiting" THEN "passed" ELSE outcome[q]]
  /\ age' = [q \in Questions |-> 0]
  /\ ahead' = [q \in Questions |-> 0]
  /\ stalled' = [q \in Questions |-> 0]
  /\ UNCHANGED <<iniFile, by, longest>>

----------------------------------------------------------------------------
(* SettingsDlgProc, in the main thread.                                    *)

outsideForm == <<running, handlerVars, questionVars, longest>>

OpenSettings ==
  /\ running
  /\ form.at = "closed"
  /\ form' = [form EXCEPT !.at = "open"]
  /\ UNCHANGED <<outsideForm, g_TimeoutDuration, g_DefaultAction, iniFile, entered, chosen>>

(* The fields show the settings in force, which only this thread changes:  *)
(* whole seconds, and Deny for all that is not 1.  The user may change     *)
(* both.  OK without a number in the field does nothing.                   *)
ConfirmTimeout ==
  /\ form.at = "open"
  /\ \E seconds \in Seconds \union {g_TimeoutDuration \div MsPerSecond} :
       /\ g_TimeoutDuration' = ToUint(seconds * MsPerSecond)
       /\ entered' = seconds
  /\ \E allow \in BOOLEAN : form' = [at |-> "action", allow |-> allow]
  /\ UNCHANGED <<outsideForm, g_DefaultAction, iniFile, chosen>>

ConfirmAction ==
  /\ form.at = "action"
  /\ g_DefaultAction' = IF form.allow THEN "1" ELSE "2"
  /\ chosen' = IF form.allow THEN "allow" ELSE "deny"
  /\ form' = [at |-> "save", allow |-> FALSE]
  /\ UNCHANGED <<outsideForm, g_TimeoutDuration, iniFile, entered>>

(* The folder may be unavailable; the two keys are written one after the   *)
(* other, and whether that succeeds is not looked at.                      *)
SaveTimeout ==
  /\ form.at = "save"
  /\ \/ form' = NoForm /\ UNCHANGED iniFile
     \/ /\ form' = [form EXCEPT !.at = "saveAction"]
        /\ \/ UNCHANGED iniFile
           \/ iniFile' = [iniFile EXCEPT !.Timeout = g_TimeoutDuration \div MsPerSecond]
  /\ UNCHANGED <<outsideForm, g_TimeoutDuration, g_DefaultAction, entered, chosen>>

SaveAction ==
  /\ form.at = "saveAction"
  /\ form' = NoForm
  /\ \/ UNCHANGED iniFile
     \/ iniFile' = [iniFile EXCEPT !.DefaultAction = g_DefaultAction]
  /\ UNCHANGED <<outsideForm, g_TimeoutDuration, g_DefaultAction, entered, chosen>>

CancelSettings ==
  /\ form.at = "open"
  /\ form' = NoForm
  /\ UNCHANGED <<outsideForm, g_TimeoutDuration, g_DefaultAction, iniFile, entered, chosen>>

----------------------------------------------------------------------------
(* The driver, and the questions on their way to the handler.              *)

Before == Len(queue) + (IF dialog = NoDialog THEN 0 ELSE 1)

(* The question overtakes the ones that wait.                              *)
MutantPut(q) ==
  /\ running
  /\ outcome[q] = "unsent"
  /\ outcome' = [outcome EXCEPT ![q] = "waiting"]
  /\ ahead' = [ahead EXCEPT ![q] = Before]
  /\ queue' = <<q>> \o queue
  /\ UNCHANGED <<running, settingsVars, dialog, reply, age, by, stalled, longest>>

Put(q) ==
  /\ running
  /\ outcome[q] = "unsent"
  /\ outcome' = [outcome EXCEPT ![q] = "waiting"]
  /\ ahead' = [ahead EXCEPT ![q] = Before]
  /\ queue' = Append(queue, q)
  /\ UNCHANGED <<running, settingsVars, dialog, reply, age, by, stalled, longest>>

Settle(q, code, who) ==
  /\ outcome' = [outcome EXCEPT ![q] = Decided(code)]
  /\ by' = [by EXCEPT ![q] = who]
  /\ age' = [age EXCEPT ![q] = 0]
  /\ ahead' = [ahead EXCEPT ![q] = 0]
  /\ stalled' = [stalled EXCEPT ![q] = 0]

(* FltSendMessage returns STATUS_TIMEOUT, and the default reply refuses.   *)
TimeOut(q) ==
  /\ outcome[q] = "waiting" /\ age[q] = Deadline
  /\ Settle(q, "ACCESS_DENIED", "driver")
  /\ UNCHANGED <<running, settingsVars, handlerVars, longest>>

----------------------------------------------------------------------------
(* ProcessAccessRequest and RequestDlgProc, in the thread of               *)
(* RequestQHandler.                                                        *)

outsideDialog == <<running, settingsVars, questionVars>>

(* Seconds until the timer closes a dialog that is shown now.              *)
TimerRuns ==
  IF ToInt(g_TimeoutDuration) <= 0 THEN 1
  ELSE (g_TimeoutDuration + MsPerSecond - 1) \div MsPerSecond

(* The handler has replied to one question and turns to the next.          *)
NextQuestion ==
  /\ dialog = NoDialog /\ reply = NoReply
  /\ queue # <<>>
  /\ queue' = Tail(queue)

(* A blocked program is denied, and DialogBoxParamW may fail: its 0 or -1  *)
(* is no response code of the driver.                                      *)
AnswerWithoutDialog ==
  /\ NextQuestion
  /\ \E code \in {"ACCESS_DENIED", "unknown"} :
       reply' = [task |-> Head(queue), code |-> code, by |-> "handler"]
  /\ UNCHANGED <<outsideDialog, dialog, longest>>

(* WM_INITDIALOG.  timeLeft is an int.  Also a question that the driver no *)
(* longer waits for is shown.  SetTimer may fail.                          *)
ShowDialog ==
  /\ NextQuestion
  /\ \E timer \in BOOLEAN :
       /\ dialog' = [task |-> Head(queue), timeLeft |-> ToInt(g_TimeoutDuration),
                     timer |-> timer, due |-> FALSE, elapsed |-> 0, entered |-> entered]
       /\ LET lasts == IF timer THEN TimerRuns ELSE Deadline
          IN longest' = IF lasts > longest THEN lasts ELSE longest
  /\ UNCHANGED <<outsideDialog, reply>>

EndDialog(code, who) ==
  /\ dialog' = NoDialog
  /\ reply' = [task |-> dialog.task, code |-> code, by |-> who]
  /\ UNCHANGED <<outsideDialog, queue, longest>>

EndWithDefault == EndDialog(g_DefaultAction, chosen)

(* DialogBoxParamW has returned: FilterReplyMessage finds the sender       *)
(* waiting or not.                                                         *)
Reply ==
  /\ reply # NoReply
  /\ reply' = NoReply
  /\ IF outcome[reply.task] = "waiting" THEN Settle(reply.task, reply.code, reply.by)
     ELSE UNCHANGED questionVars
  /\ UNCHANGED <<running, settingsVars, queue, dialog, longest>>

(* A button; Cancel and the close box.                                     *)
UserAnswers ==
  /\ dialog # NoDialog
  /\ (\E code \in Responses : EndDialog(code, "user")) \/ EndWithDefault

(* One step more than the timeout has seconds.                             *)
MutantWmTimer ==
  /\ dialog # NoDialog /\ dialog.due
  /\ IF dialog.timeLeft - MsPerSecond < 0 THEN EndWithDefault
     ELSE /\ dialog' = [dialog EXCEPT !.due = FALSE, !.timeLeft = @ - MsPerSecond]
          /\ UNCHANGED <<outsideDialog, queue, reply, longest>>

(* The setting is looked at again, not the copy of it.                     *)
MutantLiveTimeout ==
  /\ dialog # NoDialog /\ dialog.due
  /\ IF dialog.elapsed * MsPerSecond >= ToInt(g_TimeoutDuration) THEN EndWithDefault
     ELSE /\ dialog' = [dialog EXCEPT !.due = FALSE, !.timeLeft = @ - MsPerSecond]
          /\ UNCHANGED <<outsideDialog, queue, reply, longest>>

(* WM_TIMER, every 1000 ms.                                                *)
WmTimer ==
  /\ dialog # NoDialog /\ dialog.due
  /\ IF dialog.timeLeft - MsPerSecond <= 0 THEN EndWithDefault
     ELSE /\ dialog' = [dialog EXCEPT !.due = FALSE, !.timeLeft = @ - MsPerSecond]
          /\ UNCHANGED <<outsideDialog, queue, reply, longest>>

----------------------------------------------------------------------------
(* A second passes, when no timer message and no timeout of the driver is  *)
(* outstanding: for the dialog on screen, or, when there is none, for the  *)
(* questions behind a handler that is blocked.                             *)
Tick ==
  /\ dialog # NoDialog => ~dialog.due
  /\ \A q \in Questions : outcome[q] = "waiting" => age[q] < Deadline
  /\ age' = [q \in Questions |-> IF outcome[q] = "waiting" THEN age[q] + 1 ELSE 0]
  /\ IF dialog = NoDialog
     THEN /\ stalled' = [q \in Questions |-> IF outcome[q] = "waiting" THEN stalled[q] + 1
                                             ELSE stalled[q]]
          /\ UNCHANGED dialog
     ELSE /\ dialog' = IF dialog.timer THEN [dialog EXCEPT !.due = TRUE, !.elapsed = @ + 1]
                       ELSE dialog
          /\ UNCHANGED stalled
  /\ UNCHANGED <<running, settingsVars, queue, reply, outcome, by, ahead, longest>>

----------------------------------------------------------------------------
SettingsStep ==
  \/ Start \/ ProgramEnds \/ OpenSettings \/ ConfirmTimeout
  \/ ConfirmAction \/ SaveTimeout \/ SaveAction \/ CancelSettings

QuestionStep ==
  \/ AnswerWithoutDialog \/ ShowDialog \/ UserAnswers \/ WmTimer \/ Reply \/ Tick
  \/ \E q \in Questions : Put(q) \/ TimeOut(q)

Next == SettingsStep \/ QuestionStep

Spec == Init /\ [][Next]_vars

----------------------------------------------------------------------------
(* Properties.                                                             *)

Forms == [at : {"closed", "open", "action", "save", "saveAction"},
          allow : BOOLEAN]

Dialogs == [task : Questions, timeLeft : ToInt(Modulus \div 2)..(Modulus \div 2 - 1),
            timer : BOOLEAN, due : BOOLEAN, elapsed : 0..Modulus, entered : 0..(Modulus - 1)]

Deciders == {"user", "builtin", "allow", "deny", "handler"}

Replies == [task : Questions, code : Responses \union Actions \union {"unknown"}, by : Deciders]

TypeOK ==
  /\ running \in BOOLEAN
  /\ g_TimeoutDuration \in 0..(Modulus - 1)
  /\ g_DefaultAction \in Actions
  /\ iniFile \in [Timeout : (0..(Modulus - 1)) \union {Absent}, DefaultAction : {"1", "2"}]
  /\ form \in Forms
  /\ queue \in Seq(Questions)
  /\ dialog \in Dialogs \union {NoDialog}
  /\ reply \in Replies \union {NoReply}
  /\ age \in [Questions -> 0..Deadline]
  /\ outcome \in [Questions -> {"unsent", "waiting", "passed", "refused"}]
  /\ by \in [Questions -> Deciders \union {"nobody", "driver"}]
  /\ ahead \in [Questions -> Nat]
  /\ stalled \in [Questions -> Nat]
  /\ entered \in 0..(Modulus - 1)
  /\ chosen \in {"builtin", "allow", "deny"}
  /\ longest \in Nat

(* A question that the driver is about to give up on had so many dialogs   *)
(* before it that they and its own, and the seconds for which the handler  *)
(* was blocked with no dialog on screen, add up to the driver's wait.  So  *)
(* with the built-in 15 and 20 seconds a question that finds no other is   *)
(* late only by 5 seconds of a blocked handler, and the second in a row    *)
(* may be late without any.                                                *)
LateOnlyBehindOthers ==
  \A q \in Questions :
    outcome[q] = "waiting" /\ age[q] = Deadline =>
      (ahead[q] + 1) * longest + stalled[q] >= Deadline

(* The timer closes a dialog after the seconds that were in force when it  *)
(* was shown, and no less than one; a change of the settings meanwhile     *)
(* does not count.  This holds of timeouts whose milliseconds fit an int.  *)
LastsAsEntered ==
  [][WmTimer /\ dialog.entered * MsPerSecond < Modulus \div 2 =>
       (dialog' = NoDialog <=>
          dialog.elapsed = (IF dialog.entered = 0 THEN 1 ELSE dialog.entered))]_vars

(* Whatever timeout was entered, also one that wraps or is negative as an  *)
(* int, a dialog whose timer could be set is on screen for the seconds     *)
(* entered at most, and for one at least: none stays longer or for ever.   *)
DialogEndsInTime ==
  dialog # NoDialog =>
    dialog.elapsed <= (IF dialog.entered = 0 THEN 1 ELSE dialog.entered)

(* The README on the settings window: when the timer runs out, the request *)
(* window returns the chosen default action.                               *)
ChosenDefaultIsReturned ==
  \A q \in Questions : by[q] = "deny" => outcome[q] = "refused"

(* The README on the settings window: the settings are loaded when the     *)
(* program is started.                                                     *)
SettingsAreLoaded ==
  running /\ chosen = "builtin" /\ form = NoForm /\ iniFile.Timeout # Absent =>
    g_TimeoutDuration = ToUint(iniFile.Timeout * MsPerSecond)
==============================================================================

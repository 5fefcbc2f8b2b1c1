------------------------- MODULE RequestDialogProofs -------------------------
(***************************************************************************)
(* What RequestDialog's runs show on one choice of numbers, for every      *)
(* modulus, length of a second, deadline, built-in timeout, and set of     *)
(* questions.                                                              *)
(***************************************************************************)
EXTENDS RequestDialog, SequenceTheorems, TLAPS

(* The timeout in force is the one confirmed last, as a UINT.              *)
SettingsInv ==
  /\ g_TimeoutDuration = ToUint(entered * MsPerSecond)
  /\ form.at \in {"save", "saveAction"} => g_DefaultAction \in {"1", "2"}

(* What timeLeft was when the dialog was shown.                            *)
Initial(d) == ToInt(ToUint(d.entered * MsPerSecond))

(* How many WM_TIMER messages the dialog has handled and survived.         *)
Handled(d) == d.elapsed - (IF d.due THEN 1 ELSE 0)

(* timeLeft and the seconds that passed add up to what the dialog was      *)
(* shown with, and longest covers that.                                    *)
CountdownInv ==
  dialog # NoDialog =>
    /\ dialog.timeLeft = Initial(dialog) - Handled(dialog) * MsPerSecond
    /\ Handled(dialog) \in Nat
    /\ Handled(dialog) > 0 => dialog.timeLeft > 0
    /\ IF dialog.timer THEN longest >= 1 /\ longest * MsPerSecond >= Initial(dialog)
       ELSE dialog.elapsed = 0 /\ ~dialog.due /\ longest >= Deadline

(* A dialog opens only when the last one's result has gone to the driver.  *)
HandlerInv == dialog = NoDialog \/ reply = NoReply

(* The dialog on screen, and how long it is there.                         *)
Busy == IF dialog = NoDialog THEN 0 ELSE 1
Lasted == IF dialog = NoDialog THEN 0 ELSE dialog.elapsed

(* The dialogs that were ahead of a queued question and are over.          *)
Over(q, i) == ahead[q] + 1 - i - Busy

(* A question that the driver waits for is in the queue, on screen or has  *)
(* its reply under way, and is no older than the dialogs that it had to    *)
(* wait for and the seconds without a dialog.                              *)
Queued(q, i) ==
  /\ queue[i] = q /\ Over(q, i) \in Nat
  /\ age[q] <= Over(q, i) * longest + Lasted + stalled[q]
OnScreen(q) ==
  /\ dialog # NoDialog /\ dialog.task = q
  /\ age[q] <= ahead[q] * longest + dialog.elapsed + stalled[q]
Replying(q) ==
  /\ reply # NoReply /\ reply.task = q
  /\ age[q] <= (ahead[q] + 1) * longest + stalled[q]
Waits(q) == OnScreen(q) \/ Replying(q) \/ \E i \in 1..Len(queue) : Queued(q, i)
AgeInv ==
  /\ \A q \in Questions : outcome[q] # "waiting" => age[q] = 0
  /\ \/ longest >= Deadline
     \/ \A q \in Questions : outcome[q] = "waiting" => Waits(q)

----------------------------------------------------------------------------
(* Numbers.                                                                *)

LEMMA Halves ==
  /\ MsPerSecond \in Nat \ {0}
  /\ Modulus \in Nat \ {0}
  /\ Modulus \div 2 \in Nat \ {0}
  /\ Modulus = 2 * (Modulus \div 2)
  /\ Deadline \in Nat \ {0}
  /\ DefaultTimeout \in Nat \ {0}
  /\ BuiltInTimeout \in 1..((Modulus \div 2) - 1)
  /\ Seconds \subseteq 0..(Modulus - 1)
<1>1. DefaultTimeout * MsPerSecond \in Nat \ {0}
  BY NumbersAssumption
<1>2. QED
  BY <1>1, NumbersAssumption DEF BuiltInTimeout

(* Multiplication is monotone, and what it orders is ordered.              *)
LEMMA TimesNat ==
  ASSUME NEW a \in Nat, NEW b \in Nat
  PROVE  a * b \in Nat
  OBVIOUS

LEMMA TimesMonotone ==
  ASSUME NEW a \in Nat, NEW b \in Nat, NEW c \in Nat, b <= c
  PROVE  a * b <= a * c
  OBVIOUS

(* Multiplication distributes over a sum.                                  *)
LEMMA TimesSum ==
  ASSUME NEW a \in Nat, NEW b \in Nat, NEW c \in Nat
  PROVE  a * (b + c) = b * a + a * c
  OBVIOUS

(* What b dialogs of at most a seconds and the first c seconds of another  *)
(* one add up to, if they are among the d dialogs before it and itself.    *)
LEMMA TimesTogether ==
  ASSUME NEW a \in Nat, NEW b \in Nat, NEW busy \in 0..1, NEW d \in Nat, NEW c \in Nat,
         b + busy <= d, c <= a * busy
  PROVE  b * a + c <= (d + 1) * a
<1>1. a * (b + busy) = b * a + a * busy
  BY TimesSum
<1>2. a * (b + busy) <= a * (d + 1)
  BY TimesMonotone
<1>3. a * (d + 1) = (d + 1) * a
  OBVIOUS
<1>4. b * a \in Nat /\ a * busy \in Nat /\ a * (d + 1) \in Nat
  BY TimesNat
<1> DEFINE past == b * a
           present == a * busy
           all == a * (d + 1)
<1>5. /\ past \in Nat /\ present \in Nat /\ all \in Nat
      /\ past + present <= all /\ c <= present
  BY <1>1, <1>2, <1>4
<1> HIDE DEF past, present, all
<1>6. past + c <= all
  BY <1>5
<1>7. QED
  BY <1>3, <1>6 DEF past, all

LEMMA TimesOrders ==
  ASSUME NEW a \in Int, NEW b \in Int, a * MsPerSecond < b * MsPerSecond
  PROVE  a < b
<1>1. SUFFICES ASSUME b <= a PROVE FALSE
  OBVIOUS
<1>2. a - b \in Nat /\ (a - b) * MsPerSecond \in Nat
  BY <1>1, Halves
<1>3. QED
  BY <1>2, Halves

(* ToUint yields a UINT and keeps one, ToInt keeps what fits an int.       *)
LEMMA UintOf ==
  ASSUME NEW n \in Nat
  PROVE  /\ ToUint(n) \in 0..(Modulus - 1)
         /\ n < Modulus => ToUint(n) = n
  BY Halves DEF ToUint

LEMMA IntOf ==
  ASSUME NEW u \in 0..(Modulus - 1)
  PROVE  /\ ToInt(u) \in ToInt(Modulus \div 2)..((Modulus \div 2) - 1)
         /\ ToInt(u) \in Int
         /\ ToInt(u) > 0 => ToInt(u) = u
         /\ u < Modulus \div 2 => ToInt(u) = u
  BY Halves DEF ToInt

(* The built-in timeout is positive as an int, and so are its seconds.     *)
LEMMA BuiltInFits ==
  /\ BuiltInTimeout \in Nat /\ BuiltInTimeout < Modulus
  /\ DefaultTimeout \in 0..(Modulus - 1)
<1>1. DefaultTimeout * MsPerSecond >= DefaultTimeout
  BY Halves
<1>2. QED
  BY <1>1, Halves DEF BuiltInTimeout

(* The seconds that the settings dialog shows are no more than the         *)
(* milliseconds in force.                                                  *)
LEMMA DivisionShrinks ==
  ASSUME NEW u \in 0..(Modulus - 1)
  PROVE  u \div MsPerSecond \in 0..(Modulus - 1)
  BY Halves

(* The timer runs until timeLeft is used up.                               *)
LEMMA TimerCovers ==
  ASSUME g_TimeoutDuration \in 0..(Modulus - 1)
  PROVE  /\ TimerRuns \in Nat \ {0}
         /\ TimerRuns * MsPerSecond >= ToInt(g_TimeoutDuration)
  <1> DEFINE n == g_TimeoutDuration + MsPerSecond - 1
  <1>1. CASE ToInt(g_TimeoutDuration) <= 0
    BY <1>1, IntOf, Halves DEF TimerRuns
  <1>2. CASE ToInt(g_TimeoutDuration) > 0
    <2>1. ToInt(g_TimeoutDuration) = g_TimeoutDuration /\ g_TimeoutDuration > 0
      BY <1>2, IntOf
    <2>2. n \in Nat /\ n = MsPerSecond * (n \div MsPerSecond) + (n % MsPerSecond)
      BY <2>1, Halves
    <2>3. n % MsPerSecond \in 0..(MsPerSecond - 1) /\ n \div MsPerSecond \in Nat
      BY <2>2, Halves
    <2>4. TimerRuns = n \div MsPerSecond
      BY <1>2, IntOf DEF TimerRuns
    <2>5. MsPerSecond * TimerRuns >= g_TimeoutDuration
      BY <2>2, <2>3, <2>4, Halves
    <2>6. TimerRuns # 0
      BY <2>1, <2>5, Halves
    <2>7. QED
      BY <2>1, <2>3, <2>4, <2>5, <2>6, Halves
  <1>3. QED
    BY <1>1, <1>2, IntOf

----------------------------------------------------------------------------
(* Type correctness, which needs the countdown to bound a dialog's         *)
(* seconds.                                                                *)

LEMMA DialogIsNone == NoDialog \notin Dialogs
<1>1. SUFFICES ASSUME NEW d \in Dialogs PROVE d # NoDialog
  OBVIOUS
<1>2. "timer" \in DOMAIN d /\ "timer" \notin DOMAIN NoDialog
  BY DEF Dialogs, NoDialog
<1>3. QED
  BY <1>2

LEMMA ReplyIsNone == NoReply \notin Replies
<1>1. SUFFICES ASSUME NEW r \in Replies PROVE r # NoReply
  OBVIOUS
<1>2. "code" \in DOMAIN r /\ "code" \notin DOMAIN NoReply
  BY DEF Replies, NoReply
<1>3. QED
  BY <1>2

(* A dialog that is shown starts with the timeout in force.                *)
LEMMA ShownDialog ==
  ASSUME TypeOK, SettingsInv, ShowDialog
  PROVE  /\ dialog' \in Dialogs
         /\ dialog'.elapsed = 0 /\ ~dialog'.due
         /\ dialog'.task = queue[1]
         /\ dialog'.timeLeft = Initial(dialog')
         /\ dialog'.timeLeft = ToInt(g_TimeoutDuration)
         /\ dialog'.timer \in BOOLEAN
         /\ longest' \in Nat /\ longest' >= longest
         /\ IF dialog'.timer THEN longest' >= TimerRuns ELSE longest' >= Deadline
<1> DEFINE d(timer) == [task |-> Head(queue), timeLeft |-> ToInt(g_TimeoutDuration),
                        timer |-> timer, due |-> FALSE, elapsed |-> 0, entered |-> entered]
<1>1. Head(queue) = queue[1] /\ Head(queue) \in Questions
  BY DEF TypeOK, ShowDialog, NextQuestion
<1>2. /\ ToInt(g_TimeoutDuration) \in ToInt(Modulus \div 2)..((Modulus \div 2) - 1)
      /\ entered \in 0..(Modulus - 1)
      /\ 0 \in 0..Modulus
  BY IntOf, Halves DEF TypeOK
<1>3. PICK timer \in BOOLEAN : dialog' = d(timer)
                            /\ longest' = LET lasts == IF timer THEN TimerRuns ELSE Deadline
                                          IN IF lasts > longest THEN lasts ELSE longest
  BY DEF ShowDialog
<1>4. d(timer) \in Dialogs
  BY <1>1, <1>2 DEF Dialogs
<1>5. longest \in Nat /\ TimerRuns \in Nat /\ Deadline \in Nat
  BY TimerCovers, Halves DEF TypeOK
<1>6. dialog'.timeLeft = Initial(dialog')
  BY <1>3 DEF Initial, SettingsInv
<1>7. QED
  BY <1>1, <1>3, <1>4, <1>5, <1>6

(* A dialog that goes on after WM_TIMER, and one that a second passes for. *)
LEMMA TimedDialog ==
  ASSUME TypeOK, dialog # NoDialog
  PROVE  /\ dialog \in Dialogs
         /\ dialog.timeLeft \in Int /\ dialog.elapsed \in Nat /\ dialog.due \in BOOLEAN
         /\ dialog.timer \in BOOLEAN /\ dialog.entered \in 0..(Modulus - 1)
         /\ dialog.task \in Questions
         /\ ToUint(dialog.entered * MsPerSecond) \in 0..(Modulus - 1)
         /\ Initial(dialog) \in Int /\ Initial(dialog) < Modulus \div 2
<1>1. dialog \in Dialogs
  BY DEF TypeOK
<1>2. ToInt(Modulus \div 2) \in Int
  BY Halves DEF ToInt
<1>3. /\ dialog.timeLeft \in Int /\ dialog.elapsed \in Nat /\ dialog.due \in BOOLEAN
      /\ dialog.timer \in BOOLEAN /\ dialog.entered \in 0..(Modulus - 1)
      /\ dialog.task \in Questions
  BY <1>1, <1>2, Halves DEF Dialogs
<1>4. dialog.entered * MsPerSecond \in Nat
  BY <1>3, Halves
<1>5. ToUint(dialog.entered * MsPerSecond) \in 0..(Modulus - 1)
  BY <1>4, UintOf
<1>6. QED
  BY <1>1, <1>3, <1>5, IntOf, Halves DEF Initial

(* Seconds pass only while there is time left.                             *)
LEMMA HandledIsBounded ==
  ASSUME TypeOK, CountdownInv, dialog # NoDialog
  PROVE  /\ Handled(dialog) < Modulus \div 2
         /\ dialog.timer => Handled(dialog) < longest
<1>1. /\ dialog.timeLeft = Initial(dialog) - Handled(dialog) * MsPerSecond
      /\ Handled(dialog) \in Nat
      /\ Handled(dialog) > 0 => dialog.timeLeft > 0
      /\ dialog.timer => longest >= 1 /\ longest * MsPerSecond >= Initial(dialog)
  BY DEF CountdownInv
<1>2. longest \in Nat
  BY DEF TypeOK
<1>3. CASE Handled(dialog) = 0
  BY <1>1, <1>2, <1>3, Halves
<1>4. CASE Handled(dialog) > 0
  <2>1. Handled(dialog) * MsPerSecond < Initial(dialog)
    BY <1>1, <1>4, TimedDialog, Halves
  <2>2. dialog.timer => Handled(dialog) * MsPerSecond < longest * MsPerSecond
    BY <1>1, <1>2, <2>1, TimedDialog, Halves
  <2>3. Handled(dialog) * MsPerSecond >= Handled(dialog)
    BY <1>1, <1>4, Halves
  <2>4. Handled(dialog) < Modulus \div 2
    BY <1>1, <2>1, <2>3, TimedDialog, Halves
  <2>5. QED
    BY <1>1, <1>2, <2>2, <2>4, TimesOrders
<1>5. QED
  BY <1>1, <1>3, <1>4

(* What a dialog has lasted is covered by longest, and by the seconds that *)
(* were entered for it.                                                    *)
LEMMA ElapsedIsBounded ==
  ASSUME TypeOK, CountdownInv, dialog # NoDialog
  PROVE  dialog.elapsed <= longest
<1>1. longest \in Nat
  BY DEF TypeOK
<1>2. CASE dialog.timer
  BY <1>1, <1>2, TimedDialog, HandledIsBounded DEF CountdownInv, Handled
<1>3. CASE ~dialog.timer
  BY <1>1, <1>3, TimedDialog DEF CountdownInv
<1>4. QED
  BY <1>2, <1>3

LEMMA ToUintShrinks ==
  ASSUME NEW n \in Nat
  PROVE  ToUint(n) <= n /\ ToInt(ToUint(n)) <= n
<1>1. ToUint(n) \in 0..(Modulus - 1) /\ ToUint(n) <= n
  <2>1. n < Modulus => ToUint(n) = n
    BY UintOf
  <2>2. ToUint(n) \in 0..(Modulus - 1)
    BY UintOf
  <2>3. QED
    BY <2>1, <2>2, Halves
<1>2. ToInt(ToUint(n)) <= ToUint(n) /\ ToInt(ToUint(n)) \in Int
  BY <1>1, Halves DEF ToInt
<1>3. QED
  BY <1>1, <1>2

LEMMA EndsInTimeStep == TypeOK /\ CountdownInv => DialogEndsInTime
<1>1. SUFFICES ASSUME TypeOK, CountdownInv, dialog # NoDialog
               PROVE  dialog.elapsed <= (IF dialog.entered = 0 THEN 1 ELSE dialog.entered)
  BY DEF DialogEndsInTime
<1> DEFINE k == Handled(dialog)
<1>2. /\ dialog.entered \in Nat /\ dialog.elapsed \in Nat /\ dialog.due \in BOOLEAN
      /\ dialog.entered * MsPerSecond \in Nat
  <2>1. dialog.entered \in Nat
    BY <1>1, TimedDialog, Halves
  <2>2. QED
    BY <1>1, <2>1, TimedDialog, Halves
<1>3. /\ k \in Nat /\ dialog.elapsed <= k + 1
      /\ dialog.timeLeft = Initial(dialog) - k * MsPerSecond
      /\ k > 0 => dialog.timeLeft > 0
  BY <1>1, <1>2 DEF CountdownInv, Handled
<1>4. k > 0 => k < dialog.entered
  <2>1. SUFFICES ASSUME k > 0 PROVE k < dialog.entered
    OBVIOUS
  <2>2. Initial(dialog) <= dialog.entered * MsPerSecond /\ Initial(dialog) \in Int
    BY <1>1, <1>2, ToUintShrinks, TimedDialog DEF Initial
  <2>3. k * MsPerSecond \in Nat
    BY <1>3, Halves
  <2>4. k * MsPerSecond < dialog.entered * MsPerSecond
    BY <1>2, <1>3, <2>1, <2>2, <2>3
  <2>5. QED
    BY <1>2, <1>3, <2>4, TimesOrders
<1>5. QED
  BY <1>2, <1>3, <1>4

LEMMA TypeInit == Init => TypeOK /\ SettingsInv /\ CountdownInv
<1> SUFFICES ASSUME Init PROVE TypeOK /\ SettingsInv /\ CountdownInv
  OBVIOUS
<1>1. TypeOK
  <2>1. /\ BuiltInTimeout \in 0..(Modulus - 1)
        /\ DefaultTimeout \in 0..(Modulus - 1)
        /\ 0 \in 0..Deadline
        /\ <<>> \in Seq(Questions)
    BY BuiltInFits, Halves, EmptySeq
  <2>2. QED
    BY <2>1 DEF Init, TypeOK, Actions, Absent, Forms, NoForm, BuiltInAction, Deciders
<1>2. ToUint(DefaultTimeout * MsPerSecond) = BuiltInTimeout
  BY BuiltInFits, UintOf DEF BuiltInTimeout
<1>3. QED
  BY <1>1, <1>2 DEF Init, SettingsInv, CountdownInv, NoForm

(* A dialog ends in one of three ways; its result is a reply.              *)
LEMMA DialogEnds ==
  ASSUME TypeOK, NEW code \in Responses \union Actions, NEW who \in Deciders,
         EndDialog(code, who), dialog # NoDialog
  PROVE  TypeOK'
<1>1. dialog.task \in Questions
  BY TimedDialog
<1>2. reply' \in Replies
  BY <1>1 DEF EndDialog, Replies
<1>3. QED
  BY <1>2 DEF TypeOK, EndDialog, outsideDialog, settingsVars, questionVars, waitVars

LEMMA DefaultEnds ==
  ASSUME TypeOK, EndWithDefault, dialog # NoDialog
  PROVE  TypeOK'
  BY DialogEnds DEF TypeOK, EndWithDefault, Deciders

(* What a step that settles a question does to it and to the others.       *)
LEMMA Settled ==
  ASSUME TypeOK, NEW r \in Questions, NEW code, NEW who \in Deciders \union {"driver"},
         Settle(r, code, who)
  PROVE  /\ outcome' \in [Questions -> {"unsent", "waiting", "passed", "refused"}]
         /\ by' \in [Questions -> Deciders \union {"nobody", "driver"}]
         /\ age' \in [Questions -> 0..Deadline]
         /\ ahead' \in [Questions -> Nat] /\ stalled' \in [Questions -> Nat]
         /\ outcome'[r] # "waiting" /\ age'[r] = 0
         /\ \A q \in Questions : q # r =>
              /\ outcome'[q] = outcome[q] /\ age'[q] = age[q]
              /\ ahead'[q] = ahead[q] /\ stalled'[q] = stalled[q]
<1>1. 0 \in 0..Deadline /\ 0 \in Nat
  BY Halves
<1>2. QED
  BY <1>1 DEF TypeOK, Settle, Decided

(* A dialog that goes on has as much time left as the countdown says.      *)
LEMMA DialogGoesOn ==
  ASSUME TypeOK, CountdownInv, dialog # NoDialog, dialog.due,
         dialog.timeLeft - MsPerSecond > 0,
         dialog' = [dialog EXCEPT !.due = FALSE, !.timeLeft = @ - MsPerSecond],
         longest' = longest
  PROVE  dialog' \in Dialogs /\ CountdownInv'
<1> DEFINE k == Handled(dialog)
<1>1. /\ dialog'.timeLeft = dialog.timeLeft - MsPerSecond /\ ~dialog'.due
      /\ dialog'.elapsed = dialog.elapsed /\ dialog'.entered = dialog.entered
      /\ dialog'.timer = dialog.timer
  BY TimedDialog DEF Dialogs
<1>2. dialog'.timeLeft \in ToInt(Modulus \div 2)..((Modulus \div 2) - 1)
  BY <1>1, TimedDialog, Halves DEF Dialogs, ToInt
<1>3. dialog' \in Dialogs
  BY <1>1, <1>2, TimedDialog DEF Dialogs
<1>4. k \in Nat /\ Handled(dialog') = k + 1 /\ (k + 1) * MsPerSecond = k * MsPerSecond + MsPerSecond
  BY <1>1, TimedDialog, Halves DEF CountdownInv, Handled
<1>5. dialog'.timeLeft = Initial(dialog') - (k + 1) * MsPerSecond
  BY <1>1, <1>4, TimedDialog, Halves DEF CountdownInv, Initial
<1>6. dialog'.timeLeft > 0
  BY <1>1, TimedDialog, Halves
<1>7. IF dialog'.timer THEN longest' >= 1 /\ longest' * MsPerSecond >= Initial(dialog')
      ELSE dialog'.elapsed = 0 /\ ~dialog'.due /\ longest' >= Deadline
  BY <1>1 DEF CountdownInv, Initial
<1>8. QED
  BY <1>3, <1>4, <1>5, <1>6, <1>7 DEF CountdownInv

(* A second passes, and the dialog's timer has not fired yet.              *)
LEMMA DialogTicks ==
  ASSUME TypeOK, CountdownInv, Tick, dialog # NoDialog
  PROVE  dialog' \in Dialogs /\ CountdownInv'
<1> USE DEF Tick
<1>1. CASE ~dialog.timer
  BY <1>1, TimedDialog DEF CountdownInv, Initial, Handled
<1>2. CASE dialog.timer
  <2>1. /\ dialog'.timeLeft = dialog.timeLeft /\ dialog'.due
        /\ dialog'.elapsed = dialog.elapsed + 1 /\ dialog'.entered = dialog.entered
        /\ dialog'.timer = dialog.timer
    BY <1>2, TimedDialog DEF Dialogs
  <2>2. Handled(dialog) = dialog.elapsed /\ Handled(dialog') = dialog.elapsed
    BY <2>1, TimedDialog DEF Handled
  <2>3. dialog.elapsed + 1 \in 0..Modulus
    BY <2>2, HandledIsBounded, TimedDialog, Halves
  <2>4. dialog' \in Dialogs
    BY <1>2, <2>3, TimedDialog DEF Dialogs
  <2>5. QED
    BY <1>2, <2>1, <2>2, <2>4 DEF CountdownInv, Initial
<1>3. QED
  BY <1>1, <1>2, TimedDialog

LEMMA CountdownStep == TypeOK /\ SettingsInv /\ CountdownInv /\ [Next]_vars => CountdownInv'
<1> SUFFICES ASSUME TypeOK, SettingsInv, CountdownInv, [Next]_vars PROVE CountdownInv'
  OBVIOUS
<1>1. CASE UNCHANGED <<dialog, longest>>
  BY <1>1 DEF CountdownInv, Initial, Handled
<1>2. CASE dialog' = NoDialog
  BY <1>2 DEF CountdownInv, NoDialog
<1>3. CASE ShowDialog
  <2>1. Handled(dialog') = 0 /\ 0 * MsPerSecond = 0
    BY <1>3, ShownDialog, Halves DEF Handled
  <2>2. dialog'.timeLeft = ToInt(g_TimeoutDuration) /\ Initial(dialog') \in Int
    BY <1>3, IntOf, ShownDialog DEF TypeOK
  <2>3. ASSUME dialog'.timer
        PROVE  longest' >= 1 /\ longest' * MsPerSecond >= Initial(dialog')
    <3>1. /\ TimerRuns \in Nat \ {0} /\ TimerRuns * MsPerSecond >= Initial(dialog')
          /\ longest' \in Nat /\ longest' >= TimerRuns
      BY <1>3, <2>2, <2>3, TimerCovers, ShownDialog DEF TypeOK
    <3>2. MsPerSecond * TimerRuns <= MsPerSecond * longest'
      BY <3>1, Halves, TimesMonotone
    <3>3. QED
      BY <2>2, <3>1, <3>2, Halves
  <2>4. QED
    BY <1>3, <2>1, <2>2, <2>3, ShownDialog DEF CountdownInv
<1>4. CASE Tick
  BY <1>1, <1>4, DialogTicks DEF Tick
<1>5. CASE UserAnswers
  BY <1>2, <1>5 DEF UserAnswers, EndWithDefault, EndDialog
<1>6. CASE WmTimer
  BY <1>2, <1>6, DialogGoesOn, TimedDialog, Halves DEF WmTimer, EndWithDefault, EndDialog
<1>7. CASE \E q \in Questions : Put(q) \/ TimeOut(q)
  BY <1>1, <1>7 DEF Put, TimeOut, handlerVars
<1>8. CASE AnswerWithoutDialog \/ Reply
  BY <1>1, <1>8 DEF AnswerWithoutDialog, Reply
<1>9. CASE SettingsStep
  BY <1>1, <1>2, <1>9 DEF SettingsStep, Start, ProgramEnds, OpenSettings, ConfirmTimeout,
     ConfirmAction, SaveTimeout, SaveAction, CancelSettings, outsideForm, handlerVars
<1>10. QED
  BY <1>1, <1>3, <1>4, <1>5, <1>6, <1>7, <1>8, <1>9 DEF Next, QuestionStep, vars, handlerVars

LEMMA FormMoves ==
  ASSUME NEW f \in Forms, NEW at \in {"closed", "open", "action", "save", "saveAction"}
  PROVE  [f EXCEPT !.at = at] \in Forms
  BY DEF Forms

LEMMA TypeStep == TypeOK /\ SettingsInv /\ CountdownInv /\ [Next]_vars => TypeOK'
<1> SUFFICES ASSUME TypeOK, SettingsInv, CountdownInv, [Next]_vars PROVE TypeOK'
  OBVIOUS
<1> USE DEF settingsVars, handlerVars, questionVars, waitVars, outsideForm, outsideDialog
<1>1. CASE SettingsStep
  <2> USE DEF TypeOK, Actions, Absent
  <2>0. NoForm \in Forms
    BY DEF NoForm, Forms
  <2>1. CASE Start \/ OpenSettings \/ CancelSettings
    <3>1. form' \in Forms
      BY <2>0, <2>1, FormMoves DEF Start, OpenSettings, CancelSettings
    <3>2. QED
      BY <2>1, <3>1 DEF Start, OpenSettings, CancelSettings
  <2>2. CASE ProgramEnds
    <3>1. /\ BuiltInTimeout \in 0..(Modulus - 1)
          /\ DefaultTimeout \in 0..(Modulus - 1)
          /\ 0 \in 0..Deadline
          /\ <<>> \in Seq(Questions)
      BY BuiltInFits, Halves, EmptySeq
    <3>2. form' \in Forms
      BY <2>0, <2>2 DEF ProgramEnds
    <3>3. QED
      BY <2>2, <3>1, <3>2 DEF ProgramEnds, BuiltInAction
  <2>3. CASE ConfirmTimeout
    <3>0. g_TimeoutDuration \div MsPerSecond \in 0..(Modulus - 1)
      BY DivisionShrinks
    <3>1. PICK seconds \in Seconds \union {g_TimeoutDuration \div MsPerSecond} :
            g_TimeoutDuration' = ToUint(seconds * MsPerSecond) /\ entered' = seconds
      BY <2>3 DEF ConfirmTimeout
    <3>2. seconds \in 0..(Modulus - 1)
      BY <3>0, <3>1, Halves
    <3>3. seconds * MsPerSecond \in Nat
      BY <3>2, Halves
    <3>4. g_TimeoutDuration' \in 0..(Modulus - 1) /\ entered' \in 0..(Modulus - 1)
      BY <3>1, <3>2, <3>3, UintOf
    <3>5. QED
      BY <2>3, <3>4 DEF ConfirmTimeout, Forms
  <2>4. CASE ConfirmAction
    BY <2>4 DEF ConfirmAction, Forms
  <2>5. CASE SaveTimeout
    <3>1. g_TimeoutDuration \div MsPerSecond \in 0..(Modulus - 1)
      BY DivisionShrinks
    <3>2. form' \in Forms
      BY <2>0, <2>5, FormMoves DEF SaveTimeout
    <3>3. iniFile' \in [Timeout : (0..(Modulus - 1)) \union {Absent}, DefaultAction : {"1", "2"}]
      BY <2>5, <3>1 DEF SaveTimeout
    <3>4. QED
      BY <2>5, <3>2, <3>3 DEF SaveTimeout
  <2>6. CASE SaveAction
    BY <2>0, <2>6 DEF SaveAction, SettingsInv
  <2>7. QED
    BY <1>1, <2>1, <2>2, <2>3, <2>4, <2>5, <2>6 DEF SettingsStep
<1>2. CASE QuestionStep
  <2>1. CASE ShowDialog
    <3>1. /\ dialog' \in Dialogs /\ longest' \in Nat
          /\ queue' \in Seq(Questions)
      BY <2>1, ShownDialog, HeadTailProperties DEF ShowDialog, NextQuestion, TypeOK
    <3>2. QED
      BY <2>1, <3>1 DEF ShowDialog, TypeOK
  <2>2. CASE UserAnswers
    <3>1. ASSUME NEW code \in Responses, EndDialog(code, "user") PROVE TypeOK'
      BY <2>2, <3>1, DialogEnds DEF UserAnswers, Deciders
    <3>2. QED
      BY <2>2, <3>1, DefaultEnds DEF UserAnswers
  <2>3. CASE WmTimer
    <3>1. CASE dialog.timeLeft - MsPerSecond <= 0
      BY <2>3, <3>1, DefaultEnds DEF WmTimer
    <3>2. CASE ~(dialog.timeLeft - MsPerSecond <= 0)
      <4>1. dialog.timeLeft - MsPerSecond > 0
        BY <2>3, <3>2, TimedDialog, Halves DEF WmTimer
      <4>2. dialog' \in Dialogs
        BY <2>3, <3>2, <4>1, DialogGoesOn DEF WmTimer
      <4>3. QED
        BY <2>3, <3>2, <4>2 DEF WmTimer, TypeOK
    <3>3. QED
      BY <3>1, <3>2
  <2>4. CASE Tick
    <3>1. ASSUME NEW q \in Questions
          PROVE  (IF outcome[q] = "waiting" THEN age[q] + 1 ELSE 0) \in 0..Deadline
      <4>1. age[q] \in 0..Deadline /\ Deadline \in Nat
        BY Halves DEF TypeOK
      <4>2. outcome[q] = "waiting" => age[q] < Deadline
        BY <2>4 DEF Tick
      <4>3. QED
        BY <4>1, <4>2
    <3>2. age' \in [Questions -> 0..Deadline]
      BY <2>4, <3>1 DEF Tick
    <3>3. stalled' \in [Questions -> Nat]
      <4>1. CASE dialog = NoDialog
        BY <2>4, <4>1 DEF Tick, TypeOK
      <4>2. CASE dialog # NoDialog
        BY <2>4, <4>2 DEF Tick, TypeOK
      <4>3. QED
        BY <4>1, <4>2
    <3>4. dialog' \in Dialogs \union {NoDialog}
      BY <2>4, DialogTicks DEF Tick, TypeOK
    <3>5. QED
      BY <2>4, <3>2, <3>3, <3>4 DEF Tick, TypeOK
  <2>5. CASE \E q \in Questions : Put(q)
    <3>1. PICK q \in Questions : Put(q)
      BY <2>5
    <3>2. queue' \in Seq(Questions) /\ Len(queue) \in Nat
      BY <3>1, AppendProperties, LenProperties DEF Put, TypeOK
    <3>3. ahead' \in [Questions -> Nat]
      BY <3>1, <3>2 DEF Put, Before, TypeOK
    <3>4. QED
      BY <3>1, <3>2, <3>3 DEF Put, TypeOK
  <2>6. CASE \E q \in Questions : TimeOut(q)
    BY <2>6, Settled DEF TimeOut, TypeOK
  <2>7. CASE AnswerWithoutDialog
    <3>1. queue' \in Seq(Questions) /\ Head(queue) \in Questions
      BY <2>7, HeadTailProperties DEF AnswerWithoutDialog, NextQuestion, TypeOK
    <3>2. reply' \in Replies
      BY <2>7, <3>1 DEF AnswerWithoutDialog, Replies, Actions, Deciders
    <3>3. QED
      BY <2>7, <3>1, <3>2 DEF AnswerWithoutDialog, TypeOK
  <2>8. CASE Reply
    <3>1. reply.task \in Questions /\ reply.by \in Deciders
      BY <2>8 DEF Reply, Replies, TypeOK
    <3>2. CASE outcome[reply.task] = "waiting"
      BY <2>8, <3>1, <3>2, Settled DEF Reply, TypeOK
    <3>3. CASE outcome[reply.task] # "waiting"
      BY <2>8, <3>3 DEF Reply, TypeOK
    <3>4. QED
      BY <3>2, <3>3
  <2>9. QED
    BY <1>2, <2>1, <2>2, <2>3, <2>4, <2>5, <2>6, <2>7, <2>8 DEF QuestionStep
<1>3. CASE UNCHANGED vars
  BY <1>3 DEF vars, TypeOK
<1>4. QED
  BY <1>1, <1>2, <1>3 DEF Next

LEMMA SettingsKept == TypeOK /\ SettingsInv /\ [Next]_vars => SettingsInv'
<1> SUFFICES ASSUME TypeOK, SettingsInv, [Next]_vars PROVE SettingsInv'
  OBVIOUS
<1> USE DEF SettingsInv, settingsVars, outsideForm, outsideDialog
<1>1. CASE UNCHANGED settingsVars
  BY <1>1
<1>2. CASE SettingsStep
  <2>1. CASE ProgramEnds
    <3>1. ToUint(DefaultTimeout * MsPerSecond) = BuiltInTimeout
      BY BuiltInFits, UintOf DEF BuiltInTimeout
    <3>2. QED
      BY <2>1, <3>1 DEF ProgramEnds, NoForm
  <2>2. CASE ~ProgramEnds
    BY <1>2, <2>2 DEF SettingsStep, Start, OpenSettings, ConfirmTimeout, ConfirmAction,
       SaveTimeout, SaveAction, CancelSettings, NoForm, TypeOK, Forms
  <2>3. QED
    BY <2>1, <2>2
<1>3. CASE QuestionStep
  BY <1>1, <1>3 DEF QuestionStep, AnswerWithoutDialog, ShowDialog, UserAnswers, WmTimer,
     Reply, Tick, Put, TimeOut, EndWithDefault, EndDialog
<1>4. QED
  BY <1>1, <1>2, <1>3 DEF Next, vars

(* The variables of the dialog and of the settings only ever hold values   *)
(* of their types: no arithmetic on the timeout leaves UINT or int.        *)
THEOREM TypeCorrect == Spec => []TypeOK
<1>1. QED
  BY TypeInit, TypeStep, SettingsKept, CountdownStep, PTL DEF Spec

(* Whatever timeout was entered, also one that wraps or is negative as an  *)
(* int, the timer lets no dialog stay longer than the seconds entered for  *)
(* it, or one.                                                             *)
THEOREM EndsInTime == Spec => []DialogEndsInTime
<1>1. QED
  BY EndsInTimeStep, TypeInit, TypeStep, SettingsKept, CountdownStep, PTL DEF Spec

(* A dialog whose timeout fits an int is closed by the timer after exactly *)
(* the seconds that were in force when it was shown, and no less than one, *)
(* whatever the settings dialog does meanwhile.                            *)
THEOREM LastsLong == Spec => LastsAsEntered
<1> DEFINE Lasts == WmTimer /\ dialog.entered * MsPerSecond < Modulus \div 2 =>
                      (dialog' = NoDialog <=>
                         dialog.elapsed = (IF dialog.entered = 0 THEN 1 ELSE dialog.entered))
<1>1. TypeOK /\ CountdownInv => Lasts
  <2> SUFFICES ASSUME TypeOK, CountdownInv, WmTimer,
                      dialog.entered * MsPerSecond < Modulus \div 2
               PROVE  dialog' = NoDialog <=>
                         dialog.elapsed = (IF dialog.entered = 0 THEN 1 ELSE dialog.entered)
    OBVIOUS
  <2> DEFINE k == Handled(dialog)
  <2>1. dialog # NoDialog /\ dialog.due
    BY DEF WmTimer
  <2>2. /\ dialog.entered \in Nat /\ dialog.elapsed \in Nat /\ dialog.timeLeft \in Int
        /\ dialog.entered * MsPerSecond \in Nat
    BY <2>1, TimedDialog, Halves
  <2>3. Initial(dialog) = dialog.entered * MsPerSecond
    <3>1. ToUint(dialog.entered * MsPerSecond) = dialog.entered * MsPerSecond
      BY <2>2, UintOf, Halves
    <3>2. QED
      BY <2>2, <3>1, IntOf, Halves DEF Initial
  <2>4. /\ k \in Nat /\ dialog.elapsed = k + 1
        /\ dialog.timeLeft = dialog.entered * MsPerSecond - k * MsPerSecond
        /\ k > 0 => dialog.timeLeft > 0
    BY <2>1, <2>2, <2>3 DEF CountdownInv, Handled
  <2>5. k > 0 => k < dialog.entered
    <3>1. k > 0 => k * MsPerSecond < dialog.entered * MsPerSecond
      BY <2>2, <2>4, Halves
    <3>2. QED
      BY <2>2, <2>4, <3>1, TimesOrders
  <2>6. dialog.timeLeft - MsPerSecond <= 0 <=> dialog.entered <= dialog.elapsed
    <3>1. dialog.timeLeft - MsPerSecond = (dialog.entered - dialog.elapsed) * MsPerSecond
      BY <2>2, <2>4, Halves
    <3>2. CASE dialog.entered <= dialog.elapsed
      <4>1. dialog.elapsed - dialog.entered \in Nat
        BY <2>2, <3>2
      <4>2. (dialog.elapsed - dialog.entered) * MsPerSecond \in Nat
        BY <4>1, Halves
      <4>3. QED
        BY <2>2, <3>1, <3>2, <4>2, Halves
    <3>3. CASE dialog.entered > dialog.elapsed
      <4>1. dialog.entered - dialog.elapsed \in Nat \ {0}
        BY <2>2, <3>3
      <4>2. (dialog.entered - dialog.elapsed) * MsPerSecond \in Nat \ {0}
        BY <4>1, Halves
      <4>3. QED
        BY <2>2, <3>1, <3>3, <4>2, Halves
    <3>4. QED
      BY <2>2, <3>2, <3>3
  <2>7. dialog' = NoDialog <=> dialog.timeLeft - MsPerSecond <= 0
    <3>1. CASE dialog.timeLeft - MsPerSecond <= 0
      BY <3>1 DEF WmTimer, EndWithDefault, EndDialog
    <3>2. CASE ~(dialog.timeLeft - MsPerSecond <= 0)
      <4>1. dialog.timeLeft - MsPerSecond > 0
        BY <2>2, <3>2, Halves
      <4>2. dialog' \in Dialogs
        BY <2>1, <3>2, <4>1, DialogGoesOn DEF WmTimer
      <4>3. QED
        BY <3>2, <4>2, DialogIsNone
    <3>3. QED
      BY <3>1, <3>2
  <2>8. QED
    BY <2>2, <2>4, <2>5, <2>6, <2>7
<1>2. QED
  BY <1>1, TypeInit, TypeStep, SettingsKept, CountdownStep, PTL DEF Spec, LastsAsEntered

----------------------------------------------------------------------------
(* The handler has one question at a time.                                 *)

LEMMA HandlerInit == Init => HandlerInv
  BY DEF Init, HandlerInv

LEMMA HandlerStep == HandlerInv /\ [Next]_vars => HandlerInv'
<1> SUFFICES ASSUME HandlerInv, [Next]_vars PROVE HandlerInv'
  OBVIOUS
<1>1. CASE dialog' = NoDialog \/ reply' = NoReply
  BY <1>1 DEF HandlerInv
<1>2. CASE UNCHANGED <<dialog, reply>>
  BY <1>2 DEF HandlerInv
<1>3. CASE ShowDialog \/ AnswerWithoutDialog
  BY <1>1, <1>3 DEF ShowDialog, AnswerWithoutDialog, NextQuestion
<1>4. CASE UserAnswers \/ WmTimer
  BY <1>1, <1>4 DEF UserAnswers, WmTimer, EndWithDefault, EndDialog, HandlerInv
<1>5. CASE Reply
  BY <1>1, <1>5 DEF Reply
<1>6. CASE Tick
  BY <1>2, <1>6 DEF Tick, HandlerInv
<1>7. CASE \E q \in Questions : Put(q) \/ TimeOut(q)
  BY <1>2, <1>7 DEF Put, TimeOut, handlerVars
<1>8. CASE SettingsStep
  BY <1>1, <1>2, <1>8 DEF SettingsStep, Start, ProgramEnds, OpenSettings, ConfirmTimeout,
     ConfirmAction, SaveTimeout, SaveAction, CancelSettings, outsideForm, handlerVars
<1>9. QED
  BY <1>2, <1>3, <1>4, <1>5, <1>6, <1>7, <1>8 DEF Next, QuestionStep, vars, handlerVars

----------------------------------------------------------------------------
(* Questions that come too late.                                           *)

LEMMA LongestGrows == TypeOK /\ SettingsInv /\ [Next]_vars => longest' \in Nat /\ longest' >= longest
<1> SUFFICES ASSUME TypeOK, SettingsInv, [Next]_vars
             PROVE  longest' \in Nat /\ longest' >= longest
  OBVIOUS
<1>1. longest \in Nat
  BY DEF TypeOK
<1>2. CASE ShowDialog
  BY <1>2, ShownDialog
<1>3. CASE UNCHANGED longest
  BY <1>1, <1>3
<1>4. CASE QuestionStep /\ ~ShowDialog
  BY <1>3, <1>4 DEF QuestionStep, AnswerWithoutDialog, UserAnswers, WmTimer, Reply, Tick,
     Put, TimeOut, EndWithDefault, EndDialog
<1>5. CASE SettingsStep
  BY <1>3, <1>5 DEF SettingsStep, Start, ProgramEnds, OpenSettings, ConfirmTimeout,
     ConfirmAction, SaveTimeout, SaveAction, CancelSettings, outsideForm
<1>6. QED
  BY <1>2, <1>3, <1>4, <1>5 DEF Next, vars

(* What a dialog has lasted counts at most once for longest.               *)
LEMMA LastedIsBounded ==
  ASSUME TypeOK, CountdownInv
  PROVE  Busy \in 0..1 /\ Lasted \in Nat /\ Lasted <= Busy * longest /\ Lasted <= longest
<1>1. longest \in Nat
  BY DEF TypeOK
<1>2. CASE dialog = NoDialog
  BY <1>1, <1>2 DEF Busy, Lasted
<1>3. CASE dialog # NoDialog
  BY <1>1, <1>3, TimedDialog, ElapsedIsBounded DEF Busy, Lasted
<1>4. QED
  BY <1>2, <1>3

(* A question is about to be given up only after enough others.            *)
LEMMA TooLate ==
  ASSUME TypeOK, CountdownInv, AgeInv
  PROVE  LateOnlyBehindOthers
<1> SUFFICES ASSUME NEW q \in Questions, outcome[q] = "waiting", age[q] = Deadline
             PROVE  (ahead[q] + 1) * longest + stalled[q] >= Deadline
  BY DEF LateOnlyBehindOthers
<1>1. /\ ahead[q] \in Nat /\ stalled[q] \in Nat /\ longest \in Nat
      /\ age[q] \in Nat /\ Deadline \in Nat /\ Len(queue) \in Nat
  BY Halves, LenProperties DEF TypeOK
<1>2. CASE longest >= Deadline
  <2>1. longest * 1 <= longest * (ahead[q] + 1)
    BY <1>1, TimesMonotone
  <2>2. QED
    BY <1>1, <1>2, <2>1
<1>3. CASE OnScreen(q)
  <2>1. dialog # NoDialog /\ age[q] <= ahead[q] * longest + dialog.elapsed + stalled[q]
    BY <1>3 DEF OnScreen
  <2>2. dialog.elapsed \in Nat /\ dialog.elapsed <= longest
    BY <2>1, TimedDialog, ElapsedIsBounded
  <2> DEFINE before == ahead[q] * longest
  <2>3. before \in Nat /\ (ahead[q] + 1) * longest = before + longest
    BY <1>1
  <2>4. age[q] <= before + dialog.elapsed + stalled[q]
    BY <2>1
  <2> HIDE DEF before
  <2>5. before + longest + stalled[q] >= Deadline
    BY <1>1, <2>2, <2>3, <2>4
  <2>6. QED
    BY <2>3, <2>5
<1>4. CASE Replying(q)
  BY <1>4 DEF Replying
<1>5. ASSUME NEW i \in 1..Len(queue), Queued(q, i)
      PROVE  (ahead[q] + 1) * longest + stalled[q] >= Deadline
  <2>1. /\ queue[i] = q /\ Over(q, i) \in Nat
        /\ age[q] <= Over(q, i) * longest + Lasted + stalled[q]
    BY <1>5 DEF Queued
  <2>d. Busy \in 0..1 /\ Lasted \in Nat
    BY LastedIsBounded
  <2>e. Lasted <= longest * Busy
    BY <1>1, <2>d, LastedIsBounded
  <2>f. Over(q, i) + Busy <= ahead[q]
    BY <1>1, <2>d DEF Over
  <2> DEFINE had == Over(q, i) * longest
             most == (ahead[q] + 1) * longest
  <2>2. had + Lasted <= most
    BY <1>1, <2>1, <2>d, <2>e, <2>f, TimesTogether
  <2>a. had \in Nat
    BY <1>1, <2>1, TimesNat
  <2>b. ahead[q] + 1 \in Nat
    BY <1>1
  <2>c. most \in Nat
    BY <1>1, <2>b, TimesNat
  <2>3. had \in Nat /\ most \in Nat
    BY <2>a, <2>c
  <2>4. age[q] <= had + Lasted + stalled[q]
    BY <2>1
  <2> HIDE DEF had, most
  <2>5. most + stalled[q] >= Deadline
    BY <1>1, <2>d, <2>2, <2>3, <2>4
  <2>6. QED
    BY <2>5 DEF most
<1>6. QED
  BY <1>1, <1>2, <1>3, <1>4, <1>5 DEF AgeInv, Waits

(* A question that is not waited for has no age.                           *)
LEMMA AgelessStep ==
  ASSUME TypeOK, AgeInv, [Next]_vars, NEW q \in Questions, outcome'[q] # "waiting"
  PROVE  age'[q] = 0
<1>1. outcome[q] # "waiting" => age[q] = 0
  BY DEF AgeInv
<1>2. CASE UNCHANGED <<outcome, age>>
  BY <1>1, <1>2
<1>3. ASSUME NEW code, NEW who, NEW r \in Questions, Settle(r, code, who)
      PROVE  age'[q] = 0
  BY <1>1, <1>3 DEF Settle, TypeOK
<1>4. CASE UserAnswers \/ WmTimer
  BY <1>2, <1>4 DEF UserAnswers, WmTimer, EndWithDefault, EndDialog, outsideDialog,
     questionVars, waitVars
<1>5. CASE Reply
  <2>1. reply.task \in Questions
    BY <1>5 DEF Reply, Replies, TypeOK
  <2>2. QED
    BY <1>2, <1>3, <1>5, <2>1 DEF Reply, questionVars, waitVars
<1>6. CASE ShowDialog \/ AnswerWithoutDialog
  BY <1>2, <1>6 DEF ShowDialog, AnswerWithoutDialog, outsideDialog, questionVars, waitVars
<1>7. CASE \E r \in Questions : Put(r) \/ TimeOut(r)
  BY <1>1, <1>3, <1>7 DEF Put, TimeOut, TypeOK
<1>8. CASE Tick \/ ProgramEnds
  BY <1>1, <1>8 DEF Tick, ProgramEnds
<1>9. CASE SettingsStep /\ ~ProgramEnds
  BY <1>2, <1>9 DEF SettingsStep, Start, OpenSettings, ConfirmTimeout, ConfirmAction,
     SaveTimeout, SaveAction, CancelSettings, outsideForm, questionVars, waitVars
<1>10. QED
  BY <1>2, <1>4, <1>5, <1>6, <1>7, <1>8, <1>9 DEF Next, QuestionStep, vars, questionVars, waitVars

LEMMA Factors ==
  ASSUME TypeOK, SettingsInv, [Next]_vars, NEW n \in Nat
  PROVE  /\ n * longest \in Nat /\ n * longest' \in Nat
         /\ n * longest <= n * longest'
         /\ (n + 1) * longest = n * longest + longest
<1>1. longest \in Nat /\ longest' \in Nat /\ longest <= longest'
  BY LongestGrows DEF TypeOK
<1>2. n * longest <= n * longest'
  BY <1>1, TimesMonotone
<1>3. (n + 1) * longest = n * longest + longest
  BY <1>1
<1>4. n * longest \in Nat /\ n * longest' \in Nat
  BY <1>1, TimesNat
<1>5. QED
  BY <1>2, <1>3, <1>4

(* Neither the question, nor the handler, nor the queue before it moves.   *)
LEMMA StillWaits ==
  ASSUME TypeOK, SettingsInv, [Next]_vars, NEW q \in Questions, Waits(q),
         UNCHANGED <<dialog, reply, longest>>,
         age'[q] = age[q], ahead'[q] = ahead[q], stalled'[q] = stalled[q],
         Len(queue') >= Len(queue), Len(queue') \in Nat,
         \A i \in 1..Len(queue) : queue'[i] = queue[i]
  PROVE  Waits(q)'
<1>1. CASE OnScreen(q) \/ Replying(q)
  BY <1>1 DEF Waits, OnScreen, Replying
<1>2. ASSUME NEW i \in 1..Len(queue), Queued(q, i) PROVE Waits(q)'
  <2>1. i \in 1..Len(queue')
    BY LenProperties DEF TypeOK
  <2>2. Over(q, i)' = Over(q, i) /\ Lasted' = Lasted
    BY DEF Over, Busy, Lasted
  <2>3. Queued(q, i)'
    BY <1>2, <2>2 DEF Queued
  <2>4. QED
    BY <2>1, <2>3 DEF Waits
<1>3. QED
  BY <1>1, <1>2 DEF Waits

(* The handler takes the first question: the others move up, and have no   *)
(* dialog more that is over.                                               *)
LEMMA NextWaits ==
  ASSUME TypeOK, SettingsInv, [Next]_vars, NextQuestion, NEW q \in Questions, Waits(q),
         UNCHANGED <<age, ahead, stalled>>,
         dialog' # NoDialog => dialog'.elapsed = 0
  PROVE  \/ /\ queue[1] = q
            /\ age'[q] <= ahead'[q] * longest' + stalled'[q]
         \/ Waits(q)'
<1>1. dialog = NoDialog /\ reply = NoReply /\ queue' = Tail(queue) /\ queue # <<>>
  BY DEF NextQuestion
<1>2. /\ Len(queue) \in Nat /\ Len(queue') = Len(queue) - 1
      /\ \A i \in 1..Len(queue') : queue'[i] = queue[i + 1]
  BY <1>1, HeadTailProperties, LenProperties DEF TypeOK
<1>3. age[q] \in Nat /\ ahead[q] \in Nat /\ stalled[q] \in Nat
  BY Halves DEF TypeOK
<1>4. PICK i \in 1..Len(queue) : Queued(q, i)
  BY <1>1 DEF Waits, OnScreen, Replying
<1> DEFINE n == ahead[q] + 1 - i
<1>5. queue[i] = q /\ n \in Nat /\ age[q] <= n * longest + stalled[q]
  <2>1. Over(q, i) = n /\ Lasted = 0
    BY <1>1, <1>2, <1>3 DEF Over, Busy, Lasted
  <2>2. Over(q, i) \in Nat /\ age[q] <= Over(q, i) * longest + Lasted + stalled[q] /\ queue[i] = q
    BY <1>4 DEF Queued
  <2>3. n \in Nat
    BY <2>1, <2>2
  <2> HIDE DEF n
  <2>4. n * longest \in Nat
    BY <2>3, Factors
  <2>5. QED
    BY <1>3, <2>1, <2>2, <2>3, <2>4
<1>6. age[q] <= n * longest' + stalled[q] /\ n * longest' \in Nat
  <2>1. n \in Nat /\ age[q] <= n * longest + stalled[q]
    BY <1>5
  <2> HIDE DEF n
  <2>2. n * longest \in Nat /\ n * longest' \in Nat /\ n * longest <= n * longest'
    BY <2>1, Factors
  <2>3. QED
    BY <1>3, <2>1, <2>2
<1>7. CASE i = 1
  <2>1. n = ahead[q]
    BY <1>3, <1>7
  <2>2. QED
    BY <1>5, <1>6, <1>7, <2>1
<1>8. CASE i > 1
  <2>1. i - 1 \in 1..Len(queue') /\ queue'[i - 1] = q
    BY <1>2, <1>5, <1>8
  <2>2. (Busy' = 0 \/ Busy' = 1) /\ Lasted' = 0
    BY DEF Busy, Lasted
  <2>3. Over(q, i - 1)' = n \/ Over(q, i - 1)' = n + 1
    <3>1. Over(q, i - 1)' = ahead[q] + 1 - (i - 1) - Busy'
      BY DEF Over
    <3>2. QED
      BY <1>2, <1>3, <2>2, <3>1
  <2>4. (n + 1) * longest' = n * longest' + longest' /\ longest' \in Nat
    BY <1>5, LongestGrows
  <2>5. Queued(q, i - 1)'
    <3>1. age'[q] = age[q] /\ stalled'[q] = stalled[q]
      OBVIOUS
    <3> HIDE DEF n
    <3>2. age[q] <= Over(q, i - 1)' * longest' + stalled[q] /\ Over(q, i - 1)' * longest' \in Nat
      <4>1. CASE Over(q, i - 1)' = n
        BY <1>6, <4>1
      <4>2. CASE Over(q, i - 1)' = n + 1
        <5>1. PICK m \in Nat : m = n * longest'
          BY <1>6
        <5>2. age[q] <= m + stalled[q]
          BY <1>6, <5>1
        <5>3. Over(q, i - 1)' * longest' = m + longest'
          BY <2>4, <4>2, <5>1
        <5>4. longest' \in Nat
          BY <2>4
        <5>5. age[q] <= m + longest' + stalled[q] /\ m + longest' \in Nat
          BY <1>3, <5>1, <5>2, <5>4
        <5>6. QED
          BY <5>3, <5>5
      <4>3. QED
        BY <2>3, <4>1, <4>2
    <3>3. Over(q, i - 1)' \in Nat
      BY <1>5, <2>3 DEF n
    <3>4. QED
      BY <1>3, <2>1, <2>2, <3>1, <3>2, <3>3 DEF Queued
  <2>6. QED
    BY <2>1, <2>5 DEF Waits
<1>9. QED
  BY <1>2, <1>7, <1>8

(* The first question goes on screen.                                      *)
LEMMA ShownWaits ==
  ASSUME TypeOK, SettingsInv, [Next]_vars, ShowDialog, NEW q \in Questions, Waits(q)
  PROVE  Waits(q)'
<1>1. /\ dialog' # NoDialog /\ dialog'.elapsed = 0 /\ dialog'.task = queue[1]
      /\ UNCHANGED <<age, ahead, stalled>> /\ NextQuestion
  BY ShownDialog, DialogIsNone DEF ShowDialog, outsideDialog, questionVars, waitVars
<1>2. CASE queue[1] = q /\ age'[q] <= ahead'[q] * longest' + stalled'[q]
  <2>1. ahead'[q] * longest' \in Nat /\ stalled'[q] \in Nat /\ age'[q] \in Nat
    <3>1. ahead[q] \in Nat /\ stalled[q] \in Nat /\ age[q] \in Nat
      BY Halves DEF TypeOK
    <3>2. QED
      BY <1>1, <3>1, Factors
  <2>2. OnScreen(q)'
    BY <1>1, <1>2, <2>1 DEF OnScreen
  <2>3. QED
    BY <2>2 DEF Waits
<1>3. QED
  BY <1>1, <1>2, NextWaits

(* The first question is answered without a dialog.                        *)
LEMMA AnsweredWaits ==
  ASSUME TypeOK, SettingsInv, [Next]_vars, AnswerWithoutDialog, NEW q \in Questions, Waits(q)
  PROVE  Waits(q)'
<1>1. /\ dialog' = NoDialog /\ longest' = longest
      /\ UNCHANGED <<age, ahead, stalled>> /\ NextQuestion
  BY DEF AnswerWithoutDialog, NextQuestion, outsideDialog, questionVars, waitVars
<1>2. reply' # NoReply /\ reply'.task = queue[1]
  <2>1. Head(queue) = queue[1] /\ Head(queue) \in Questions
    BY <1>1 DEF TypeOK, NextQuestion
  <2>2. reply' \in Replies /\ reply'.task = queue[1]
    BY <2>1 DEF AnswerWithoutDialog, Replies, Actions, Deciders
  <2>3. QED
    BY <2>2, ReplyIsNone
<1>3. CASE queue[1] = q /\ age'[q] <= ahead'[q] * longest' + stalled'[q]
  <2>1. ahead'[q] \in Nat /\ stalled'[q] \in Nat /\ age'[q] \in Nat /\ longest' \in Nat
    BY <1>1, Halves DEF TypeOK
  <2>2. /\ (ahead'[q] + 1) * longest' = ahead'[q] * longest' + longest'
        /\ ahead'[q] * longest' \in Nat
    BY <2>1
  <2>3. Replying(q)'
    BY <1>2, <1>3, <2>1, <2>2 DEF Replying
  <2>4. QED
    BY <2>3 DEF Waits
<1>4. QED
  BY <1>1, <1>3, NextWaits

(* A dialog ends: it has lasted for longest at most.                       *)
LEMMA EndedWaits ==
  ASSUME TypeOK, SettingsInv, CountdownInv, HandlerInv, [Next]_vars, dialog # NoDialog,
         NEW code \in Responses \union Actions, NEW who \in Deciders, EndDialog(code, who),
         NEW q \in Questions, Waits(q)
  PROVE  Waits(q)'
<1>1. /\ dialog' = NoDialog /\ UNCHANGED <<queue, longest, age, ahead, stalled>>
      /\ reply = NoReply /\ reply' # NoReply /\ reply'.task = dialog.task
  <2>1. reply' \in Replies /\ reply'.task = dialog.task
    BY TimedDialog DEF EndDialog, Replies
  <2>2. QED
    BY <2>1, ReplyIsNone DEF EndDialog, HandlerInv, outsideDialog, questionVars, waitVars
<1>2. /\ age[q] \in Nat /\ ahead[q] \in Nat /\ stalled[q] \in Nat /\ longest \in Nat
      /\ Len(queue) \in Nat /\ Lasted \in Nat /\ Lasted <= longest
  BY Halves, LenProperties, LastedIsBounded DEF TypeOK
<1>3. CASE OnScreen(q)
  <2>1. age[q] <= ahead[q] * longest + longest + stalled[q]
    <3>1. PICK m \in Nat : m = ahead[q] * longest
      BY <1>2, TimesNat
    <3>2. age[q] <= m + dialog.elapsed + stalled[q]
      BY <1>3, <3>1 DEF OnScreen
    <3>3. dialog.elapsed \in Nat /\ dialog.elapsed <= longest
      BY TimedDialog, ElapsedIsBounded
    <3>4. age[q] <= m + longest + stalled[q]
      BY <1>2, <3>2, <3>3
    <3>5. QED
      BY <3>1, <3>4
  <2>2. (ahead[q] + 1) * longest = ahead[q] * longest + longest
    BY <1>2
  <2>3. Replying(q)'
    BY <1>1, <1>3, <2>1, <2>2 DEF Replying, OnScreen
  <2>4. QED
    BY <2>3 DEF Waits
<1>4. ASSUME NEW i \in 1..Len(queue), Queued(q, i) PROVE Waits(q)'
  <2>1. Over(q, i)' = Over(q, i) + 1 /\ Lasted' = 0 /\ Over(q, i) \in Nat
    <3>1. Busy = 1 /\ Busy' = 0 /\ Lasted' = 0
      BY <1>1 DEF Busy, Lasted
    <3>2. Over(q, i) \in Nat
      BY <1>4 DEF Queued
    <3>3. Over(q, i) = ahead[q] + 1 - i - Busy /\ Over(q, i)' = ahead[q] + 1 - i - Busy'
      BY <1>1 DEF Over
    <3>4. QED
      BY <1>2, <3>1, <3>2, <3>3
  <2>2. PICK m \in Nat : m = Over(q, i) * longest
    BY <2>1, Factors
  <2>3. age[q] <= m + longest + stalled[q]
    <3>1. age[q] <= m + Lasted + stalled[q]
      BY <1>4, <2>2 DEF Queued
    <3>2. QED
      BY <1>2, <3>1
  <2>a. (Over(q, i) + 1) * longest = m + longest
    BY <2>1, <2>2, Factors
  <2>b. Over(q, i)' * longest' = m + longest
    BY <1>1, <2>1, <2>a
  <2>c. age'[q] <= Over(q, i)' * longest' + Lasted' + stalled'[q]
    BY <1>1, <1>2, <2>1, <2>3, <2>b
  <2>d. queue'[i] = q /\ Over(q, i)' \in Nat
    BY <1>1, <1>4, <2>1 DEF Queued
  <2>4. Queued(q, i)'
    BY <2>c, <2>d DEF Queued
  <2>5. QED
    BY <1>1, <2>4 DEF Waits
<1>5. QED
  BY <1>1, <1>3, <1>4 DEF Waits, Replying

(* The reply has reached the driver.                                       *)
LEMMA ReplyWaits ==
  ASSUME TypeOK, SettingsInv, [Next]_vars, Reply,
         NEW q \in Questions, outcome'[q] = "waiting", outcome[q] = "waiting" => Waits(q)
  PROVE  Waits(q)'
<1>1. reply.task \in Questions /\ reply.by \in Deciders
  BY DEF Reply, Replies, TypeOK
<1>2. /\ q # reply.task /\ outcome[q] = "waiting"
      /\ age'[q] = age[q] /\ ahead'[q] = ahead[q] /\ stalled'[q] = stalled[q]
  <2>1. CASE outcome[reply.task] = "waiting"
    BY <1>1, <2>1, Settled DEF Reply
  <2>2. CASE outcome[reply.task] # "waiting"
    BY <2>2 DEF Reply, questionVars, waitVars
  <2>3. QED
    BY <2>1, <2>2
<1>3. UNCHANGED <<queue, dialog, longest>>
  BY DEF Reply
<1>4. CASE OnScreen(q)
  BY <1>2, <1>3, <1>4 DEF Waits, OnScreen
<1>5. ASSUME NEW i \in 1..Len(queue), Queued(q, i) PROVE Waits(q)'
  BY <1>2, <1>3, <1>5 DEF Waits, Queued, Over, Busy, Lasted
<1>6. QED
  BY <1>2, <1>4, <1>5 DEF Waits, Replying

(* A second: the question becomes older by as much, and so does the dialog *)
(* on screen or else the handler's delay.                                  *)
LEMMA TickedWaits ==
  ASSUME TypeOK, SettingsInv, CountdownInv, HandlerInv, [Next]_vars, Tick,
         dialog # NoDialog => dialog.timer,
         NEW q \in Questions, outcome[q] = "waiting", Waits(q)
  PROVE  Waits(q)'
<1>1. age'[q] = age[q] + 1 /\ UNCHANGED <<queue, reply, ahead, longest>>
  BY DEF Tick
<1>2. /\ age[q] \in Nat /\ ahead[q] \in Nat /\ stalled[q] \in Nat /\ longest \in Nat
      /\ ahead[q] * longest \in Nat /\ (ahead[q] + 1) * longest \in Nat
  <2>1. age[q] \in Nat /\ ahead[q] \in Nat /\ stalled[q] \in Nat /\ longest \in Nat
    BY Halves DEF TypeOK
  <2>2. QED
    BY <2>1, TimesNat
<1>3. CASE dialog = NoDialog
  <2>1. dialog' = NoDialog /\ stalled'[q] = stalled[q] + 1
    BY <1>3 DEF Tick, TypeOK
  <2>2. CASE Replying(q)
    <3>1. PICK m \in Nat : m = (ahead[q] + 1) * longest /\ m = (ahead'[q] + 1) * longest'
      BY <1>1, <1>2
    <3>2. age[q] <= m + stalled[q] /\ reply' # NoReply /\ reply'.task = q
      BY <1>1, <2>2, <3>1 DEF Replying
    <3>3. age'[q] <= m + stalled'[q]
      BY <1>1, <1>2, <2>1, <3>2
    <3>4. Replying(q)'
      BY <3>1, <3>2, <3>3 DEF Replying
    <3>5. QED
      BY <3>4 DEF Waits
  <2>3. ASSUME NEW i \in 1..Len(queue), Queued(q, i) PROVE Waits(q)'
    <3>1. Over(q, i)' = Over(q, i) /\ Lasted' = 0 /\ Lasted = 0
      BY <1>1, <1>3, <2>1 DEF Over, Busy, Lasted
    <3>2. Over(q, i) \in Nat /\ Over(q, i) * longest \in Nat
      BY <2>3, Factors DEF Queued
    <3>3. PICK m \in Nat : m = Over(q, i) * longest /\ m = Over(q, i)' * longest'
      BY <1>1, <3>1, <3>2
    <3>4. queue[i] = q /\ age[q] <= m + stalled[q]
      BY <1>2, <2>3, <3>1, <3>3 DEF Queued
    <3>5. age'[q] <= m + Lasted' + stalled'[q]
      BY <1>1, <1>2, <2>1, <3>1, <3>4
    <3>6. Queued(q, i)'
      BY <1>1, <3>1, <3>2, <3>3, <3>4, <3>5 DEF Queued
    <3>7. QED
      BY <1>1, <3>6 DEF Waits
  <2>4. QED
    BY <1>3, <2>2, <2>3 DEF Waits, OnScreen
<1>4. CASE dialog # NoDialog
  <2>1. /\ dialog' # NoDialog /\ dialog'.task = dialog.task
        /\ dialog'.elapsed = dialog.elapsed + 1 /\ dialog.elapsed \in Nat
        /\ stalled'[q] = stalled[q]
    <3>1. dialog' # NoDialog
      BY <1>4, DialogTicks, DialogIsNone
    <3>2. dialog'.task = dialog.task /\ dialog'.elapsed = dialog.elapsed + 1
      BY <1>4, TimedDialog DEF Tick, Dialogs
    <3>3. QED
      BY <1>4, <3>1, <3>2, TimedDialog DEF Tick
  <2>2. CASE OnScreen(q)
    <3>1. dialog.task = q /\ age[q] <= ahead[q] * longest + dialog.elapsed + stalled[q]
      BY <2>2 DEF OnScreen
    <3>2. PICK m \in Nat : m = ahead[q] * longest /\ m = ahead'[q] * longest'
      BY <1>1, <1>2
    <3>3. age'[q] <= m + dialog'.elapsed + stalled'[q]
      BY <1>1, <1>2, <2>1, <3>1, <3>2
    <3>4. age'[q] <= ahead'[q] * longest' + dialog'.elapsed + stalled'[q]
      BY <3>2, <3>3
    <3>5. OnScreen(q)'
      BY <2>1, <3>1, <3>4 DEF OnScreen
    <3>6. QED
      BY <3>5 DEF Waits
  <2>3. ASSUME NEW i \in 1..Len(queue), Queued(q, i) PROVE Waits(q)'
    <3>1. Over(q, i)' = Over(q, i) /\ Lasted' = Lasted + 1 /\ Lasted \in Nat
      BY <1>1, <1>4, <2>1 DEF Over, Busy, Lasted
    <3>2. Over(q, i) \in Nat /\ Over(q, i) * longest \in Nat
      BY <2>3, Factors DEF Queued
    <3>3. queue[i] = q /\ age[q] <= Over(q, i) * longest + Lasted + stalled[q]
      BY <2>3 DEF Queued
    <3>4. PICK m \in Nat : m = Over(q, i) * longest /\ m = Over(q, i)' * longest'
      BY <1>1, <3>1, <3>2
    <3>5. age'[q] <= m + Lasted' + stalled'[q]
      <4>1. age[q] <= m + Lasted + stalled[q]
        BY <3>3, <3>4
      <4>2. age[q] \in Nat /\ stalled[q] \in Nat /\ age'[q] = age[q] + 1 /\ stalled'[q] = stalled[q]
        BY <1>1, <1>2, <2>1
      <4>3. QED
        BY <3>1, <4>1, <4>2
    <3>6. Over(q, i)' \in Nat
      BY <3>1, <3>2
    <3>7. Queued(q, i)'
      BY <1>1, <3>3, <3>4, <3>5, <3>6 DEF Queued
    <3>8. QED
      BY <1>1, <3>7 DEF Waits
  <2>4. QED
    BY <1>4, <2>2, <2>3 DEF Waits, Replying, HandlerInv
<1>5. QED
  BY <1>3, <1>4

(* A question is put: nothing that was ahead of it is over.                *)
LEMMA PutWaits ==
  ASSUME TypeOK, SettingsInv, CountdownInv, [Next]_vars, NEW q \in Questions, Put(q), age[q] = 0
  PROVE  Waits(q)'
<1>1. PICK i \in 1..Len(queue') :
        /\ Len(queue) \in Nat /\ i = Len(queue) + 1 /\ queue'[i] = q
  BY AppendProperties, LenProperties DEF Put, TypeOK
<1>2. /\ UNCHANGED <<dialog, age, stalled, longest>> /\ stalled[q] \in Nat
      /\ ahead'[q] = Len(queue) + Busy
  BY DEF Put, Before, TypeOK, Busy
<1>3. Busy' = Busy /\ Lasted' = Lasted
  BY <1>2 DEF Busy, Lasted
<1>4. Over(q, i)' = 0
  BY <1>1, <1>2, <1>3, LastedIsBounded DEF Over
<1>5. 0 * longest' = 0
  BY LongestGrows
<1>6. Queued(q, i)'
  BY LastedIsBounded, <1>1, <1>2, <1>3, <1>4, <1>5 DEF Queued
<1>7. QED
  BY <1>1, <1>6 DEF Waits

LEMMA AgeInit == Init => AgeInv
  BY DEF Init, AgeInv

LEMMA AgeStep == TypeOK /\ SettingsInv /\ CountdownInv /\ HandlerInv /\ AgeInv /\ [Next]_vars => AgeInv'
<1> SUFFICES ASSUME TypeOK, SettingsInv, CountdownInv, HandlerInv, AgeInv, [Next]_vars
             PROVE  AgeInv'
  OBVIOUS
<1>1. \A q \in Questions : outcome'[q] # "waiting" => age'[q] = 0
  BY AgelessStep
<1>2. ASSUME ~(longest' >= Deadline), NEW q \in Questions, outcome'[q] = "waiting"
      PROVE  Waits(q)'
  <2>1. ~(longest >= Deadline)
    BY <1>2, LongestGrows, Halves DEF TypeOK
  <2>2. outcome[q] = "waiting" => Waits(q)
    BY <2>1 DEF AgeInv
  <2>3. Len(queue) \in Nat
    BY LenProperties DEF TypeOK
  <2>4. CASE UNCHANGED <<dialog, reply, longest, queue, age, ahead, stalled, outcome>>
    BY <1>2, <2>2, <2>3, <2>4, StillWaits
  <2>5. CASE ShowDialog
    BY <1>2, <2>2, <2>5, ShownWaits DEF ShowDialog, outsideDialog, questionVars
  <2>6. CASE AnswerWithoutDialog
    BY <1>2, <2>2, <2>6, AnsweredWaits DEF AnswerWithoutDialog, outsideDialog, questionVars
  <2>7. CASE Reply
    BY <1>2, <2>2, <2>7, ReplyWaits
  <2>8. ASSUME dialog # NoDialog, NEW code \in Responses \union Actions, NEW who \in Deciders,
               EndDialog(code, who)
        PROVE  Waits(q)'
    BY <1>2, <2>2, <2>8, EndedWaits DEF EndDialog, outsideDialog, questionVars
  <2>9. ASSUME dialog # NoDialog, EndWithDefault PROVE Waits(q)'
    BY <2>8, <2>9 DEF EndWithDefault, TypeOK, Deciders
  <2>10. CASE UserAnswers
    BY <2>8, <2>9, <2>10 DEF UserAnswers, Deciders
  <2>11. CASE WmTimer
    <3>1. CASE dialog.timeLeft - MsPerSecond <= 0
      BY <2>9, <2>11, <3>1 DEF WmTimer
    <3>2. CASE ~(dialog.timeLeft - MsPerSecond <= 0)
      <4>1. dialog.timeLeft - MsPerSecond > 0
        BY <2>11, <3>2, TimedDialog, Halves DEF WmTimer
      <4>2. dialog' # NoDialog
        BY <2>11, <3>2, <4>1, DialogGoesOn, DialogIsNone DEF WmTimer
      <4>3. /\ dialog # NoDialog /\ dialog'.task = dialog.task /\ dialog'.elapsed = dialog.elapsed
            /\ UNCHANGED <<longest, queue, reply, age, ahead, stalled, outcome>>
        BY <2>11, <3>2, TimedDialog DEF WmTimer, Dialogs, outsideDialog, questionVars, waitVars
      <4>4. Waits(q)
        BY <1>2, <2>2, <4>3
      <4>5. QED
        BY <4>2, <4>3, <4>4 DEF Waits, OnScreen, Replying, Queued, Over, Busy, Lasted
    <3>3. QED
      BY <3>1, <3>2
  <2>12. CASE Tick
    <3>1. dialog # NoDialog => dialog.timer
      BY <2>1 DEF CountdownInv
    <3>2. QED
      BY <1>2, <2>2, <2>12, <3>1, TickedWaits DEF Tick
  <2>13. CASE Put(q)
    <3>1. age[q] = 0
      BY <2>13 DEF Put, AgeInv
    <3>2. QED
      BY <2>13, <3>1, PutWaits
  <2>14. ASSUME NEW r \in Questions, r # q, Put(r) PROVE Waits(q)'
    <3>1. /\ Len(queue') = Len(queue) + 1
          /\ \A i \in 1..Len(queue) : queue'[i] = queue[i]
      BY <2>14, AppendProperties DEF Put, TypeOK
    <3>2. /\ UNCHANGED <<dialog, reply, longest, age, stalled>>
          /\ ahead'[q] = ahead[q] /\ outcome[q] = "waiting"
      BY <1>2, <2>14 DEF Put, TypeOK
    <3>3. QED
      BY <2>2, <2>3, <3>1, <3>2, StillWaits
  <2>15. ASSUME NEW r \in Questions, TimeOut(r) PROVE Waits(q)'
    <3>1. /\ UNCHANGED <<dialog, reply, longest, queue>> /\ outcome[q] = "waiting"
          /\ age'[q] = age[q] /\ ahead'[q] = ahead[q] /\ stalled'[q] = stalled[q]
      BY <1>2, <2>15, Settled DEF TimeOut, handlerVars
    <3>2. QED
      BY <2>2, <2>3, <3>1, StillWaits
  <2>16. CASE ProgramEnds
    BY <1>2, <2>16 DEF ProgramEnds, TypeOK
  <2>17. CASE SettingsStep /\ ~ProgramEnds
    BY <2>4, <2>17 DEF SettingsStep, Start, OpenSettings, ConfirmTimeout, ConfirmAction,
       SaveTimeout, SaveAction, CancelSettings, outsideForm, handlerVars, questionVars, waitVars
  <2>18. QED
    BY <2>4, <2>5, <2>6, <2>7, <2>10, <2>11, <2>12, <2>13, <2>14, <2>15, <2>16, <2>17
       DEF Next, QuestionStep, vars, handlerVars, questionVars, waitVars
<1>3. QED
  BY <1>1, <1>2 DEF AgeInv

(* A question that the driver is about to give up on had others before it  *)
(* whose dialogs, with its own and the seconds for which the handler was   *)
(* blocked without one, last as long as the driver waits: no question is   *)
(* late for any other reason, whatever the settings are changed to.        *)
THEOREM LateBehindOthers == Spec => []LateOnlyBehindOthers
BY TooLate, TypeInit, TypeStep, SettingsKept, CountdownStep, HandlerInit, HandlerStep,
   AgeInit, AgeStep, PTL DEF Spec

==============================================================================

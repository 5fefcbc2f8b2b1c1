--------------------------- MODULE QuestionService ---------------------------
(***************************************************************************)
(* What the user interface promises to the driver's questions, with the    *)
(* threads, mutexes, windows and the port hidden: they are taken in order  *)
(* and answered in that order, one at a time and each at most once, while  *)
(* the driver waits; and from the answer BLACKLIST on, questions about the *)
(* same program are only denied.                                           *)
(***************************************************************************)
EXTENDS Sequences

CONSTANTS
  Requests,   \* the questions of the driver, each asked at most once
  ProgramOf,  \* the program that a question is about
  Answers     \* what they can be answered with

VARIABLES
  line,       \* the questions taken and not yet answered, the oldest first
  answer,     \* what has become of each question
  blocked     \* the programs that BLACKLIST was answered for

absVars == <<line, answer, blocked>>

Init ==
  /\ line = <<>>
  /\ answer = [r \in Requests |-> "unsent"]
  /\ blocked = {}

Ask(r) ==
  /\ answer[r] = "unsent"
  /\ answer' = [answer EXCEPT ![r] = "queued"]
  /\ UNCHANGED <<line, blocked>>

(* The driver gives up on some of the questions that are not answered yet. *)
GiveUp(some) ==
  /\ \A r \in some : answer[r] \in {"queued", "waiting"}
  /\ answer' = [r \in Requests |-> IF r \in some THEN "over" ELSE answer[r]]
  /\ UNCHANGED <<line, blocked>>

Take(r) ==
  /\ answer[r] = "queued"
  /\ answer' = [answer EXCEPT ![r] = "waiting"]
  /\ line' = Append(line, r)
  /\ UNCHANGED blocked

(* The oldest question is answered, if the driver still waits for it.      *)
Answer(t) ==
  /\ line # <<>>
  /\ answer[Head(line)] = "waiting"
  /\ ProgramOf[Head(line)] \in blocked => t = "ACCESS_DENIED"
  /\ answer' = [answer EXCEPT ![Head(line)] = t]
  /\ blocked' = IF t = "BLACKLIST" THEN blocked \union {ProgramOf[Head(line)]} ELSE blocked
  /\ line' = Tail(line)

Drop ==
  /\ line # <<>>
  /\ answer[Head(line)] = "over"
  /\ line' = Tail(line)
  /\ UNCHANGED <<answer, blocked>>

Next ==
  \/ \E r \in Requests : Ask(r) \/ Take(r)
  \/ \E some \in SUBSET Requests : GiveUp(some)
  \/ \E t \in Answers : Answer(t)
  \/ Drop

Spec == Init /\ [][Next]_absVars
==============================================================================

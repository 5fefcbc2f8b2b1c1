---------------------------- MODULE AccessControl ----------------------------
(***************************************************************************)
(* What the filter driver promises about every file operation, with the    *)
(* communication port, the client sessions, the timeouts and the driver's  *)
(* lifecycle hidden: an operation is settled at most once, it is held for  *)
(* the user only when its file was found protected and, later, its program *)
(* was found untrusted, and only a held operation can be refused.          *)
(***************************************************************************)
CONSTANTS
  Requests,    \* the file operations that pass the filter, each settled once
  Files,       \* file names, up to letter case
  Programs,    \* program image names, up to letter case
  Operations,  \* the operations that the environment issues
  Watched      \* the operations that the filter looks at

VARIABLES
  protected,   \* the files on the protection list
  trusted,     \* the programs on the trust list
  stage,       \* how far each operation has come
  io           \* what each operation is

absVars == <<protected, trusted, stage, io>>

(* named, imaged: whether the file's name and the program's image name can *)
(* be obtained for this operation.                                         *)
Io == [op : Operations, file : Files, program : Programs,
       named : BOOLEAN, imaged : BOOLEAN]
NoIo == [op |-> "none"]

Settled == {"passed", "refused"}
Stages == {"idle", "filed", "suspect", "held"} \union Settled

Init ==
  /\ protected = {}
  /\ trusted = {}
  /\ stage = [r \in Requests |-> "idle"]
  /\ io = [r \in Requests |-> NoIo]

Advance(r, from, to) ==
  /\ stage[r] = from
  /\ stage' = [stage EXCEPT ![r] = to]

(* The operator's side: the lists change, one name at a time or, when the  *)
(* driver goes away, altogether.                                           *)
ChangePolicy ==
  /\ \/ \E f \in Files : /\ protected' \in {protected \union {f}, protected \ {f}}
                         /\ trusted' = trusted
     \/ \E p \in Programs : /\ trusted' \in {trusted \union {p}, trusted \ {p}}
                            /\ protected' = protected
     \/ protected' = {} /\ trusted' = {}
  /\ UNCHANGED <<stage, io>>

Concerns(d) == d.op \in Watched /\ d.named

Submit(r) ==
  \E d \in Io :
    /\ Advance(r, "idle", IF Concerns(d) THEN "filed" ELSE "passed")
    /\ io' = [io EXCEPT ![r] = d]
    /\ UNCHANGED <<protected, trusted>>

(* The file is looked up first ...                                         *)
CheckFile(r) ==
  /\ Advance(r, "filed", IF io[r].file \in protected /\ io[r].imaged
                         THEN "suspect" ELSE "passed")
  /\ UNCHANGED <<protected, trusted, io>>

(* ... and the program in a second lookup: the lists may change between.   *)
CheckProgram(r) ==
  /\ Advance(r, "suspect", IF io[r].program \in trusted THEN "passed" ELSE "held")
  /\ UNCHANGED <<protected, trusted, io>>

(* A held operation is passed, and its program possibly trusted from then  *)
(* on, or it is refused.                                                   *)
Release(r) ==
  /\ Advance(r, "held", "passed")
  /\ trusted' \in {trusted, trusted \union {io[r].program}}
  /\ UNCHANGED <<protected, io>>

Refuse(r) ==
  /\ Advance(r, "held", "refused")
  /\ UNCHANGED <<protected, trusted, io>>

Next ==
  \/ ChangePolicy
  \/ \E r \in Requests : \/ Submit(r) \/ CheckFile(r) \/ CheckProgram(r)
                         \/ Release(r) \/ Refuse(r)

Spec == Init /\ [][Next]_absVars

==============================================================================

------------------------------ MODULE PathNames ------------------------------
(***************************************************************************)
(* The conversions between the names that the user sees ("C:\x") and the   *)
(* names that the driver compares ("\Device\HarddiskVolume1\x").           *)
(*                                                                         *)
(* A name is a short sequence of pieces.  A drive letter with its colon is *)
(* one piece, the separator is one, and a device is one or more: a device  *)
(* that another one extends, as HarddiskVolume10 does HarddiskVolume1, is  *)
(* an initial part of its pieces.  The piece that follows a device in a    *)
(* name stands for one character.                                          *)
(***************************************************************************)
EXTENDS Naturals, Sequences

CONSTANTS
  Drives,    \* the drive letters, in the order of GetLogicalDriveStrings
  DeviceOf   \* what QueryDosDevice returns for those it succeeds on

Separator == "\\"

(* No two letters name the same device, and no device lies in another.     *)
ASSUME DeviceAssumption ==
  /\ Drives \in Seq(STRING)
  /\ DOMAIN DeviceOf \subseteq {Drives[i] : i \in DOMAIN Drives}
  /\ \A d \in DOMAIN DeviceOf : DeviceOf[d] \in Seq(STRING) /\ DeviceOf[d] # <<>>
  /\ \A d, e \in DOMAIN DeviceOf : DeviceOf[d] = DeviceOf[e] => d = e
  /\ \A d \in DOMAIN DeviceOf : \A i \in DOMAIN DeviceOf[d] :
       DeviceOf[d][i] # Separator /\ DeviceOf[d][i] \notin DOMAIN DeviceOf

----------------------------------------------------------------------------
starts_with(str, prefix) ==
  /\ Len(prefix) <= Len(str)
  /\ \A i \in 1..Len(prefix) : str[i] = prefix[i]

Substr(str, from) == SubSeq(str, from + 1, Len(str))

(* A name without a drive letter, or whose letter has no device, stays.    *)
ConvertToNtPath(filePath) ==
  IF /\ Len(filePath) >= 2
     /\ filePath[1] \in DOMAIN DeviceOf
     /\ filePath[2] = Separator
  THEN DeviceOf[filePath[1]] \o Substr(filePath, 1)
  ELSE filePath

(* The drives whose device the name begins with, by their place.           *)
Matching(ntPath) ==
  {i \in DOMAIN Drives : /\ Drives[i] \in DOMAIN DeviceOf
                         /\ starts_with(ntPath, DeviceOf[Drives[i]])}

(* The separator after the device is kept, behind the one of the drive.    *)
MutantConvertToDosPath(ntPath) ==
  IF Matching(ntPath) = {} THEN ntPath
  ELSE LET i == CHOOSE i \in Matching(ntPath) : \A j \in Matching(ntPath) : i <= j
       IN <<Drives[i], Separator>> \o Substr(ntPath, Len(DeviceOf[Drives[i]]))

(* The first drive that matches is taken.  Whether its device ends where   *)
(* the name has a separator is not looked at: one more character goes.     *)
ConvertToDosPath(ntPath) ==
  IF Matching(ntPath) = {} THEN ntPath
  ELSE LET i == CHOOSE i \in Matching(ntPath) : \A j \in Matching(ntPath) : i <= j
       IN <<Drives[i], Separator>> \o Substr(ntPath, Len(DeviceOf[Drives[i]]) + 1)

----------------------------------------------------------------------------
(* What the driver asks about is shown with a drive letter.                *)
Text(name) == ConvertToDosPath(name)

(* For the properties: of the given names, those that begin with a drive's *)
(* device that n begins with lie on that very device.                      *)
Unambiguous(n, names) ==
  \A i \in Matching(n) : \A q \in names :
    i \in Matching(q) => starts_with(q, DeviceOf[Drives[i]] \o <<Separator>>)
==============================================================================

--------------------------- MODULE MCManagerLists ---------------------------
(* Three volumes with a drive letter, of which the device of D: extends    *)
(* that of C:, one file, and three programs: on E:, on D:, and one on a    *)
(* volume without a letter.                                                *)
EXTENDS ManagerLists

MCDrives == <<"A:", "C:", "D:", "E:">>

MCDeviceOf ==
  [d \in {"C:", "D:", "E:"} |->
     CASE d = "C:" -> <<"Volume1">>
       [] d = "D:" -> <<"Volume1", "0">>
       [] d = "E:" -> <<"Volume2">>]

MCBrowseResults ==
  [k \in {"file", "program"} |->
     IF k = "file" THEN {<<"C:", "\\", "x">>} ELSE {<<"E:", "\\", "x">>}]

MCAskingPrograms ==
  {<<"Volume2", "\\", "x">>, <<"Volume1", "0", "\\", "x">>, <<"Volume3", "\\", "x">>}

(* Two copies of one program's name; one is enough for the others.         *)
MCMaxCopies ==
  [n \in {<<"Volume1", "\\", "x">>} \union MCAskingPrograms |->
     IF n = <<"Volume2", "\\", "x">> THEN 2 ELSE 1]
==============================================================================

-------------------------- MODULE ManagerListsProofs --------------------------
(***************************************************************************)
(* Proofs about the lists of the interface and of the driver, for all      *)
(* names that the file dialogs can return and the driver can ask about,    *)
(* and for all bounds on their copies.                                     *)
(***************************************************************************)
EXTENDS ManagerLists, PathNamesProofs, TLAPS

(* The inductive invariant: next to ListsAgree and TypeOK, that a new      *)
(* process begins with nothing, which texts can be on show at all, and     *)
(* what an operation that is under way was begun on.                       *)
AskedTexts(k) == IF k = "program" THEN {Text(p) : p \in AskingPrograms} ELSE {}

EmptyInv ==
  main = "down" => vectors = NoEntries /\ views = NoEntries /\ handler = "ready"

TextsInv ==
  \A k \in Kinds : \A t \in Strings :
    /\ main \in {"starting", "init"} /\ vectors[k][t] > 0 => t \in AskedTexts(k)
    /\ views[k][t] > 0 => t \in BrowseResults[k] \union AskedTexts(k)

OperationInv ==
  main \in {"vector", "view"} =>
    IF operation.does = "add" THEN operation.text \in BrowseResults[operation.kind]
    ELSE views[operation.kind][operation.text] > 0

IInv == TypeOK /\ EmptyInv /\ TextsInv /\ OperationInv /\ ListsAgree

----------------------------------------------------------------------------
(* Names and their texts.                                                  *)

LEMMA NamesOf ==
  ASSUME NEW k \in Kinds
  PROVE  /\ Names[k] \subseteq Words /\ Names[k] \subseteq Strings
         /\ \A n \in Names[k] : ~HasDrive(n) /\ Text(n) \in Strings
         /\ \A t \in BrowseResults[k] :
              t \in Words /\ t \in Strings /\ Matching(t) = {} /\ ConvertToNtPath(t) \in Names[k]
         /\ k = "program" => AskingPrograms \subseteq Names[k]
<1>1. \A t \in BrowseResults[k] : t \in Words /\ Matching(t) = {}
  <2>1. BrowseResults[k] \subseteq Seq(STRING)
    BY ListsAssumption
  <2>2. QED
    BY <2>1, ListsAssumption, StringsAreWords
<1>2. \A p \in AskingPrograms : p \in Words /\ ConvertToNtPath(p) = p
  BY ListsAssumption, StringsAreWords
<1>3. Names[k] = {ConvertToNtPath(t) : t \in BrowseResults[k]}
                   \union (IF k = "program" THEN AskingPrograms ELSE {})
  BY DEF Names
<1>4. \A n \in Names[k] : n \in Words /\ ~HasDrive(n)
  BY <1>1, <1>2, <1>3, DriveGone
<1>5. BrowseResults[k] \union Names[k] \union {Text(n) : n \in Names[k]} \subseteq Strings
  BY DEF Strings
<1>6. QED
  BY <1>1, <1>3, <1>4, <1>5

(* Of the texts that can be on show, only its own leads to the name.       *)
LEMMA TextsOf ==
  ASSUME NEW k \in Kinds, NEW n \in Names[k], Unambiguous(n, Names[k])
  PROVE  /\ ConvertToNtPath(Text(n)) = n
         /\ \A t \in BrowseResults[k] \union AskedTexts(k) : ConvertToNtPath(t) = n <=> t = Text(n)
         /\ k = "program" => \A p \in AskingPrograms : Text(p) = Text(n) <=> p = n
<1>1. Names[k] \in SUBSET Words /\ ~HasDrive(n)
  BY NamesOf
<1>2. ConvertToNtPath(Text(n)) = n
  BY <1>1, RoundTrip
<1>3. ASSUME NEW t \in BrowseResults[k], ConvertToNtPath(t) = n PROVE t = Text(n)
  <2>1. t \in Words /\ Matching(t) = {}
    BY NamesOf
  <2>2. QED
    BY <1>1, <1>3, <2>1, ChosenText
<1>4. ASSUME k = "program", NEW p \in AskingPrograms, ConvertToNtPath(Text(p)) = n PROVE p = n
  <2>1. p \in Names[k] /\ ~HasDrive(p)
    BY <1>4, NamesOf
  <2>2. QED
    BY <1>1, <1>4, <2>1, Injective
<1>5. QED
  BY <1>2, <1>3, <1>4 DEF AskedTexts

----------------------------------------------------------------------------
(* Counts and operations.                                                  *)

LEMMA PlusOf ==
  ASSUME NEW list \in Counts, NEW k \in Kinds, NEW s \in Strings, NEW m \in Nat
  PROVE  /\ Plus(list, k, s, m) \in Counts
         /\ \A j \in Kinds : \A t \in Strings :
              Plus(list, k, s, m)[j][t] = IF j = k /\ t = s THEN list[j][t] + m ELSE list[j][t]
  BY DEF Plus, Counts

LEMMA MinusOf ==
  ASSUME NEW list \in Counts, NEW k \in Kinds, NEW s \in Strings, list[k][s] > 0
  PROVE  /\ Minus(list, k, s) \in Counts
         /\ \A j \in Kinds : \A t \in Strings :
              Minus(list, k, s)[j][t] = IF j = k /\ t = s THEN list[j][t] - 1 ELSE list[j][t]
  BY DEF Minus, Counts

LEMMA NoneOf ==
  NoEntries \in Counts /\ \A k \in Kinds : \A s \in Strings : NoEntries[k][s] = 0
  BY DEF NoEntries, Counts

LEMMA OperationOf ==
  ASSUME TypeOK, main \in {"vector", "view"}
  PROVE  /\ operation.does \in {"add", "remove"} /\ operation.kind \in Kinds
         /\ operation.text \in Strings
         /\ operation = [does |-> operation.does, kind |-> operation.kind, text |-> operation.text]
<1>1. operation \in [does : {"add", "remove"}, kind : Kinds, text : Strings]
  BY DEF TypeOK, Operations
<1>2. QED
  BY <1>1

(* What is under way, by the fields of the operation.                      *)
LEMMA UnderwayOf ==
  ASSUME TypeOK, NEW k \in Kinds, NEW n, NEW does \in {"add", "remove"}
  PROVE  Underway(does, k, n) =
           IF /\ main \in {"vector", "view"} /\ operation.does = does
              /\ operation.kind = k /\ operation.text = Text(n) THEN 1 ELSE 0
<1>1. CASE main \in {"vector", "view"}
  <2>1. operation = [does |-> does, kind |-> k, text |-> Text(n)]
          <=> operation.does = does /\ operation.kind = k /\ operation.text = Text(n)
    BY <1>1, OperationOf
  <2>2. QED
    BY <1>1, <2>1 DEF Underway
<1>2. CASE main \notin {"vector", "view"}
  <2>1. operation = NoOperation
    BY <1>2 DEF TypeOK
  <2>2. operation.does = "none"
    BY <2>1 DEF NoOperation
  <2>3. operation # [does |-> does, kind |-> k, text |-> Text(n)]
    BY <2>2
  <2>4. QED
    BY <1>2, <2>3 DEF Underway
<1>3. QED
  BY <1>1, <1>2

LEMMA ClearedOf ==
  ASSUME NEW list \in Counts, NEW k \in Kinds, NEW s
  PROVE  [list EXCEPT ![k][s] = 0] \in Counts
<1>1. [list[k] EXCEPT ![s] = 0] \in [Strings -> Nat]
  BY DEF Counts
<1>2. [list EXCEPT ![k][s] = 0] = [list EXCEPT ![k] = [list[k] EXCEPT ![s] = 0]]
  BY DEF Counts
<1>3. QED
  BY <1>1, <1>2 DEF Counts

----------------------------------------------------------------------------
(* The steps of TypeOK.                                                    *)

LEMMA TypeInit ==
  ASSUME Init
  PROVE  TypeOK
<1>1. NoEntries \in Counts
  BY NoneOf
<1>2. QED
  BY <1>1 DEF Init, TypeOK, MainStates, Operations

LEMMA PendingOf ==
  ASSUME TypeOK, NEW k \in Kinds, NEW n
  PROVE  Pending(k, n) \in Nat /\ Lost(k, n) \in Nat
  BY DEF TypeOK, Pending, Lost

(* An operation that the driver has just accepted.                         *)
LEMMA AcceptedOf ==
  ASSUME NEW does \in {"add", "remove"}, NEW k \in Kinds, NEW t \in Strings,
         Accepted(does, k, t)
  PROVE  /\ operation' \in Operations /\ operation' # NoOperation
         /\ operation'.does = does /\ operation'.kind = k /\ operation'.text = t
<1>1. operation' = [does |-> does, kind |-> k, text |-> t]
  BY DEF Accepted
<1>2. operation'.does # NoOperation.does
  BY <1>1 DEF NoOperation
<1>3. QED
  BY <1>1, <1>2 DEF Operations

LEMMA TypeStep ==
  ASSUME TypeOK, OperationInv, [Next]_vars
  PROVE  TypeOK'
<1> USE DEF MainStates
<1>1. CASE Start
  <2>1. [k \in Kinds |-> [s \in Strings |-> entries[k][s] + Pending(k, s)]] \in Counts
    BY PendingOf DEF TypeOK, Counts
  <2>2. QED
    BY <1>1, <2>1 DEF Start, TypeOK, shownVars
<1>2. CASE StartFails
  BY <1>2 DEF StartFails, TypeOK, driverVars, threadVars, shownVars
<1>3. CASE CreateWindow
  BY <1>3 DEF CreateWindow, TypeOK, driverVars, shownVars
<1>4. CASE FillLists
  BY <1>4 DEF FillLists, TypeOK, driverVars
<1>5. CASE CloseWindow
  BY <1>5 DEF CloseWindow, TypeOK, driverVars, shownVars
<1>6. CASE Exit \/ Kill
  <2>1. NoOperation \in Operations /\ NoEntries \in Counts
    BY NoneOf DEF Operations
  <2>2. QED
    BY <1>6, <2>1 DEF Exit, Kill, ProcessEnds, TypeOK, driverVars
<1>7. CASE UpdateVector
  <2>1. main = "vector" /\ operation.kind \in Kinds
    BY <1>7, OperationOf DEF UpdateVector
  <2>2. vectors' \in Counts
    <3>1. CASE operation.does = "add"
      <4>1. operation.text \in BrowseResults[operation.kind]
        BY <2>1, <3>1 DEF OperationInv
      <4>2. ConvertToNtPath(operation.text) \in Strings
        BY <2>1, <4>1, NamesOf
      <4>3. QED
        BY <1>7, <2>1, <3>1, <4>2, PlusOf DEF UpdateVector, TypeOK
    <3>2. CASE operation.does # "add"
      BY <1>7, <2>1, <3>2, ClearedOf DEF UpdateVector, TypeOK
    <3>3. QED
      BY <3>1, <3>2
  <2>3. QED
    BY <1>7, <2>2 DEF UpdateVector, TypeOK, driverVars
<1>8. CASE UpdateView
  <2>1. main = "view" /\ operation.kind \in Kinds /\ operation.text \in Strings
    BY <1>8, OperationOf DEF UpdateView
  <2>2. views' \in Counts
    <3>1. CASE operation.does = "add"
      BY <1>8, <2>1, <3>1, PlusOf DEF UpdateView, TypeOK
    <3>2. CASE operation.does # "add"
      BY <1>8, <2>1, <3>2, MinusOf DEF UpdateView, TypeOK, OperationInv
    <3>3. QED
      BY <3>1, <3>2
  <2>3. NoOperation \in Operations
    BY DEF Operations
  <2>4. QED
    BY <1>8, <2>2, <2>3 DEF UpdateView, TypeOK, driverVars
<1>9. ASSUME NEW k \in Kinds, NEW t \in Strings, Add(k, t) PROVE TypeOK'
  <2>1. /\ operation' \in Operations /\ operation' # NoOperation
        /\ main' = "vector"
    BY <1>9, AcceptedOf DEF Add, Accepted
  <2>2. entries' \in Counts
    <3>1. ConvertToNtPath(t) \in Strings
      BY <1>9, NamesOf DEF Add
    <3>2. QED
      BY <1>9, <3>1, PlusOf DEF Add, TypeOK
  <2>3. QED
    BY <1>9, <2>1, <2>2 DEF Add, Accepted, TypeOK, shownVars
<1>10. ASSUME NEW k \in Kinds, NEW t \in Strings, Remove(k, t) PROVE TypeOK'
  <2>1. /\ operation' \in Operations /\ operation' # NoOperation
        /\ main' = "vector"
    BY <1>10, AcceptedOf DEF Remove, Accepted
  <2>2. entries' \in Counts
    <3>1. ConvertToNtPath(t) \in Strings
      BY <1>10, NamesOf DEF Remove
    <3>2. QED
      BY <1>10, <3>1, MinusOf DEF Remove, TypeOK
  <2>3. QED
    BY <1>10, <2>1, <2>2 DEF Remove, Accepted, TypeOK, shownVars
<1>11. CASE PushTrusted
  <2>1. "program" \in Kinds /\ program \in AskingPrograms
    BY <1>11 DEF PushTrusted, TypeOK, Kinds
  <2>2. Text(program) \in Strings
    BY <2>1, NamesOf
  <2>3. vectors' \in Counts
    BY <1>11, <2>1, <2>2, PlusOf DEF PushTrusted, TypeOK
  <2>4. QED
    BY <1>11, <2>1, <2>3 DEF PushTrusted, TypeOK, driverVars
<1>12. CASE InsertItem
  <2>1. "program" \in Kinds /\ program \in AskingPrograms
    BY <1>12 DEF InsertItem, TypeOK, Kinds
  <2>2. Text(program) \in Strings
    BY <2>1, NamesOf
  <2>3. views' \in Counts
    BY <1>12, <2>1, <2>2, PlusOf DEF InsertItem, TypeOK
  <2>4. QED
    BY <1>12, <2>1, <2>3 DEF InsertItem, TypeOK, driverVars
<1>13. ASSUME NEW p \in AskingPrograms, ReplyTrusted(p) PROVE TypeOK'
  BY <1>13 DEF ReplyTrusted, TypeOK, shownVars
<1>14. CASE FileControllerDisconnect
  BY <1>14 DEF FileControllerDisconnect, TypeOK, driverVars, threadVars, shownVars
<1>15. CASE Reload
  <2>1. NoEntries \in Counts
    BY NoneOf
  <2>2. QED
    BY <1>15, <2>1 DEF Reload, TypeOK, threadVars, shownVars
<1>16. ASSUME NEW p \in AskingPrograms, InsertTrusted(p) PROVE TypeOK'
  <2>1. "program" \in Kinds /\ p \in Strings
    <3>1. "program" \in Kinds
      BY DEF Kinds
    <3>2. QED
      BY <3>1, NamesOf
  <2>2. entries' \in Counts
    BY <1>16, <2>1, PlusOf DEF InsertTrusted, TypeOK
  <2>3. pending' \in [AskingPrograms -> Nat] /\ lost' \in [AskingPrograms -> Nat]
    BY <1>16 DEF InsertTrusted, TypeOK
  <2>4. QED
    BY <1>16, <2>2, <2>3 DEF InsertTrusted, TypeOK, threadVars, shownVars
<1>17. CASE UNCHANGED vars
  BY <1>17 DEF vars, driverVars, threadVars, shownVars, TypeOK
<1>18. QED
  BY <1>1, <1>2, <1>3, <1>4, <1>5, <1>6, <1>7, <1>8, <1>9, <1>10, <1>11, <1>12, <1>13,
     <1>14, <1>15, <1>16, <1>17 DEF Next, MainStep, HandlerStep, DriverStep

----------------------------------------------------------------------------
(* The steps of the three invariants behind the account.                   *)

LEMMA EmptyStep ==
  ASSUME TypeOK, EmptyInv, [Next]_vars
  PROVE  EmptyInv'
<1>1. CASE Exit \/ Kill
  BY <1>1 DEF Exit, Kill, ProcessEnds, EmptyInv
<1>2. CASE UpdateVector \/ UpdateView \/ CreateWindow \/ FillLists \/ CloseWindow \/ Start
  BY <1>2 DEF UpdateVector, UpdateView, CreateWindow, FillLists, CloseWindow, Start, EmptyInv
<1>3. ASSUME NEW k \in Kinds, NEW t \in Strings, Add(k, t) \/ Remove(k, t) PROVE EmptyInv'
  BY <1>3 DEF Add, Remove, Accepted, EmptyInv
<1>4. CASE PushTrusted \/ InsertItem \/ \E p \in AskingPrograms : ReplyTrusted(p)
  BY <1>4 DEF PushTrusted, InsertItem, ReplyTrusted, EmptyInv
<1>5. CASE \/ StartFails \/ FileControllerDisconnect \/ Reload \/ UNCHANGED vars
           \/ \E p \in AskingPrograms : InsertTrusted(p)
  BY <1>5 DEF StartFails, FileControllerDisconnect, Reload, InsertTrusted, vars, threadVars,
              shownVars, EmptyInv
<1>6. QED
  BY <1>1, <1>2, <1>3, <1>4, <1>5 DEF Next, MainStep, HandlerStep, DriverStep

LEMMA TextsStep ==
  ASSUME TypeOK, EmptyInv, TextsInv, OperationInv, [Next]_vars
  PROVE  TextsInv'
<1>1. CASE Exit \/ Kill
  BY <1>1, NoneOf DEF Exit, Kill, ProcessEnds, TextsInv
<1>2. CASE Start
  BY <1>2, NoneOf DEF Start, shownVars, TextsInv, EmptyInv
<1>3. CASE CreateWindow \/ CloseWindow
  BY <1>3 DEF CreateWindow, CloseWindow, shownVars, TextsInv
<1>4. CASE FillLists
  BY <1>4 DEF FillLists, TextsInv
<1>5. CASE UpdateVector
  BY <1>5 DEF UpdateVector, TextsInv
<1>6. CASE UpdateView
  <2>1. /\ main = "view" /\ operation.does \in {"add", "remove"}
        /\ operation.kind \in Kinds /\ operation.text \in Strings
    BY <1>6, OperationOf DEF UpdateView
  <2>2. main' = "pump"
    BY <1>6 DEF UpdateView
  <2>3. ASSUME NEW k \in Kinds, NEW t \in Strings, views'[k][t] > 0
        PROVE  t \in BrowseResults[k] \union AskedTexts(k)
    <3>1. CASE operation.does = "add"
      <4>1. views'[k][t] = IF k = operation.kind /\ t = operation.text THEN views[k][t] + 1
                           ELSE views[k][t]
        BY <1>6, <2>1, <3>1, PlusOf DEF UpdateView, TypeOK
      <4>2. operation.text \in BrowseResults[operation.kind]
        BY <2>1, <3>1 DEF OperationInv
      <4>3. QED
        BY <2>3, <4>1, <4>2 DEF TextsInv
    <3>2. CASE operation.does = "remove"
      <4>1. views[operation.kind][operation.text] > 0
        BY <2>1, <3>2 DEF OperationInv
      <4>2. views'[k][t] = IF k = operation.kind /\ t = operation.text THEN views[k][t] - 1
                           ELSE views[k][t]
        BY <1>6, <2>1, <3>2, <4>1, MinusOf DEF UpdateView, TypeOK
      <4>3. views[k][t] > 0
        BY <2>1, <2>3, <4>1, <4>2
      <4>4. QED
        BY <4>3 DEF TextsInv
    <3>3. QED
      BY <2>1, <3>1, <3>2
  <2>4. QED
    BY <2>2, <2>3 DEF TextsInv, AskedTexts
<1>7. ASSUME NEW k \in Kinds, NEW t \in Strings, Add(k, t) \/ Remove(k, t) PROVE TextsInv'
  BY <1>7 DEF Add, Remove, Accepted, shownVars, TextsInv
<1>8. CASE PushTrusted
  <2>1. "program" \in Kinds /\ program \in AskingPrograms
    BY <1>8 DEF PushTrusted, TypeOK, Kinds
  <2>2. Text(program) \in Strings /\ Text(program) \in AskedTexts("program")
    BY <2>1, NamesOf DEF AskedTexts
  <2>3. \A k \in Kinds : \A t \in Strings :
          vectors'[k][t] = IF k = "program" /\ t = Text(program) THEN vectors[k][t] + 1
                           ELSE vectors[k][t]
    <3>1. vectors \in Counts
      BY DEF TypeOK
    <3>2. \A k \in Kinds : \A t \in Strings :
            Plus(vectors, "program", Text(program), 1)[k][t]
              = IF k = "program" /\ t = Text(program) THEN vectors[k][t] + 1 ELSE vectors[k][t]
      BY <2>1, <2>2, <3>1, PlusOf
    <3>3. QED
      BY <1>8, <3>2 DEF PushTrusted
  <2>4. UNCHANGED <<main, views>>
    BY <1>8 DEF PushTrusted
  <2>5. QED
    BY <2>2, <2>3, <2>4 DEF TextsInv, AskedTexts
<1>9. CASE InsertItem
  <2>1. "program" \in Kinds /\ program \in AskingPrograms
    BY <1>9 DEF InsertItem, TypeOK, Kinds
  <2>2. Text(program) \in Strings /\ Text(program) \in AskedTexts("program")
    BY <2>1, NamesOf DEF AskedTexts
  <2>3. \/ \A k \in Kinds : \A t \in Strings :
             views'[k][t] = IF k = "program" /\ t = Text(program) THEN views[k][t] + 1
                            ELSE views[k][t]
        \/ UNCHANGED views
    <3>1. views \in Counts
      BY DEF TypeOK
    <3>2. \A k \in Kinds : \A t \in Strings :
            Plus(views, "program", Text(program), 1)[k][t]
              = IF k = "program" /\ t = Text(program) THEN views[k][t] + 1 ELSE views[k][t]
      BY <2>1, <2>2, <3>1, PlusOf
    <3>3. QED
      BY <1>9, <3>2 DEF InsertItem
  <2>4. UNCHANGED <<main, vectors>>
    BY <1>9 DEF InsertItem
  <2>5. QED
    BY <2>2, <2>3, <2>4 DEF TextsInv, AskedTexts
<1>10. CASE \E p \in AskingPrograms : ReplyTrusted(p)
  BY <1>10 DEF ReplyTrusted, shownVars, TextsInv
<1>11. CASE \/ StartFails \/ FileControllerDisconnect \/ Reload \/ UNCHANGED vars
            \/ \E p \in AskingPrograms : InsertTrusted(p)
  BY <1>11 DEF StartFails, FileControllerDisconnect, Reload, InsertTrusted, vars, threadVars,
               shownVars, TextsInv
<1>12. QED
  BY <1>1, <1>2, <1>3, <1>4, <1>5, <1>6, <1>7, <1>8, <1>9, <1>10, <1>11
     DEF Next, MainStep, HandlerStep, DriverStep

LEMMA OperationStep ==
  ASSUME TypeOK, OperationInv, [Next]_vars
  PROVE  OperationInv'
<1>1. CASE \/ Exit \/ Kill \/ Start \/ CreateWindow \/ FillLists \/ CloseWindow \/ UpdateView
  BY <1>1 DEF Exit, Kill, ProcessEnds, Start, CreateWindow, FillLists, CloseWindow, UpdateView,
              OperationInv
<1>2. CASE UpdateVector
  BY <1>2 DEF UpdateVector, OperationInv
<1>3. ASSUME NEW k \in Kinds, NEW t \in Strings, Add(k, t) PROVE OperationInv'
  <2>1. operation'.does = "add" /\ operation'.kind = k /\ operation'.text = t
    BY <1>3, AcceptedOf DEF Add
  <2>2. QED
    BY <1>3, <2>1 DEF Add, OperationInv
<1>4. ASSUME NEW k \in Kinds, NEW t \in Strings, Remove(k, t) PROVE OperationInv'
  <2>1. operation'.does = "remove" /\ operation'.kind = k /\ operation'.text = t
    BY <1>4, AcceptedOf DEF Remove
  <2>2. views' = views
    BY <1>4 DEF Remove, Accepted, shownVars
  <2>3. QED
    BY <1>4, <2>1, <2>2 DEF Remove, OperationInv
<1>5. CASE InsertItem
  BY <1>5 DEF InsertItem, OperationInv
<1>6. CASE PushTrusted \/ \E p \in AskingPrograms : ReplyTrusted(p)
  BY <1>6 DEF PushTrusted, ReplyTrusted, shownVars, OperationInv
<1>7. CASE \/ StartFails \/ FileControllerDisconnect \/ Reload \/ UNCHANGED vars
           \/ \E p \in AskingPrograms : InsertTrusted(p)
  BY <1>7 DEF StartFails, FileControllerDisconnect, Reload, InsertTrusted, vars, threadVars,
              shownVars, OperationInv
<1>8. QED
  BY <1>1, <1>2, <1>3, <1>4, <1>5, <1>6, <1>7 DEF Next, MainStep, HandlerStep, DriverStep

----------------------------------------------------------------------------
(* The account of a name.                                                  *)
Account(k, n) ==
  entries[k][n] + Pending(k, n) + Lost(k, n) + Underway("remove", k, n)
    = Shown(k, n) + Underway("add", k, n) + Trusting(k, n) + inherited[k][n]

LEMMA TermsOf ==
  ASSUME TypeOK, NEW k \in Kinds, NEW n \in Names[k]
  PROVE  /\ entries[k][n] \in Nat /\ Pending(k, n) \in Nat /\ Lost(k, n) \in Nat
         /\ Underway("add", k, n) \in Nat /\ Underway("remove", k, n) \in Nat
         /\ vectors[k][Text(n)] \in Nat /\ views[k][Text(n)] \in Nat
         /\ Shown(k, n) \in Nat /\ Trusting(k, n) \in Nat /\ inherited[k][n] \in Nat
<1>1. n \in Strings /\ Text(n) \in Strings
  BY NamesOf
<1>2. /\ entries[k][n] \in Nat /\ inherited[k][n] \in Nat
      /\ vectors[k][Text(n)] \in Nat /\ views[k][Text(n)] \in Nat
  BY <1>1 DEF TypeOK, Counts
<1>3. QED
  BY <1>2, PendingOf DEF Underway, Shown, Trusting

(* Before the main thread has begun an operation nothing is under way.     *)
LEMMA Idle ==
  ASSUME TypeOK, main \notin {"vector", "view"}, NEW k \in Kinds, NEW n
  PROVE  Underway("add", k, n) = 0 /\ Underway("remove", k, n) = 0
  BY UnderwayOf

(* The buttons: what the driver has done is under way ...                  *)
LEMMA AccountAccepted ==
  ASSUME TypeOK, TextsInv, NEW k \in Kinds, NEW n \in Names[k], Unambiguous(n, Names[k]),
         Account(k, n), NEW j \in Kinds, NEW t \in Strings, Add(j, t) \/ Remove(j, t)
  PROVE  Account(k, n)'
<1>1. n \in Strings /\ Text(n) \in Strings
  BY NamesOf
<1>2. Underway("add", k, n) = 0 /\ Underway("remove", k, n) = 0
  BY Idle DEF Add, Remove, Accepted
<1>3. /\ Pending(k, n)' = Pending(k, n) /\ Lost(k, n)' = Lost(k, n)
      /\ Shown(k, n)' = Shown(k, n) /\ Trusting(k, n)' = Trusting(k, n)
      /\ inherited' = inherited
  BY DEF Add, Remove, Accepted, shownVars, Pending, Lost, Shown, Trusting
<1>4. CASE Add(j, t)
  <2>1. j = k => (ConvertToNtPath(t) = n <=> t = Text(n))
    BY <1>4, TextsOf DEF Add
  <2>2. entries'[k][n] = IF j = k /\ t = Text(n) THEN entries[k][n] + 1 ELSE entries[k][n]
    <3>1. ConvertToNtPath(t) \in Strings /\ entries \in Counts
      BY <1>4, NamesOf DEF Add, TypeOK
    <3>2. entries' = Plus(entries, j, ConvertToNtPath(t), 1)
      BY <1>4 DEF Add
    <3>3. QED
      BY <1>1, <2>1, <3>1, <3>2, PlusOf
  <2>3. operation' = [does |-> "add", kind |-> j, text |-> t]
    BY <1>4 DEF Add, Accepted
  <2>4. /\ Underway("remove", k, n)' = 0
        /\ Underway("add", k, n)' = IF j = k /\ t = Text(n) THEN 1 ELSE 0
    BY <2>3 DEF Underway
  <2>5. QED
    BY <1>2, <1>3, <2>2, <2>4, TermsOf DEF Account
<1>5. CASE Remove(j, t)
  <2>1. j = k => (ConvertToNtPath(t) = n <=> t = Text(n))
    <3>1. t \in BrowseResults[j] \union AskedTexts(j)
      BY <1>5 DEF Remove, TextsInv
    <3>2. QED
      BY <3>1, TextsOf
  <2>2. entries'[k][n] = IF j = k /\ t = Text(n) THEN entries[k][n] - 1 ELSE entries[k][n]
    <3>1. ConvertToNtPath(t) \in Strings /\ entries \in Counts /\ entries[j][ConvertToNtPath(t)] > 0
      BY <1>5, NamesOf DEF Remove, TypeOK
    <3>2. entries' = Minus(entries, j, ConvertToNtPath(t))
      BY <1>5 DEF Remove
    <3>3. QED
      BY <1>1, <2>1, <3>1, <3>2, MinusOf
  <2>3. operation' = [does |-> "remove", kind |-> j, text |-> t]
    BY <1>5 DEF Remove, Accepted
  <2>4. /\ Underway("add", k, n)' = 0
        /\ Underway("remove", k, n)' = IF j = k /\ t = Text(n) THEN 1 ELSE 0
    BY <2>3 DEF Underway
  <2>5. QED
    BY <1>2, <1>3, <2>2, <2>4, TermsOf DEF Account
<1>6. QED
  BY <1>4, <1>5

(* ... until it shows.                                                     *)
LEMMA AccountShown ==
  ASSUME TypeOK, OperationInv, NEW k \in Kinds, NEW n \in Names[k], Account(k, n), UpdateView
  PROVE  Account(k, n)'
<1>1. /\ main = "view" /\ operation.does \in {"add", "remove"}
      /\ operation.kind \in Kinds /\ operation.text \in Strings /\ Text(n) \in Strings
      /\ views \in Counts
  BY OperationOf, NamesOf DEF UpdateView, TypeOK
<1>2. /\ entries' = entries /\ inherited' = inherited
      /\ Pending(k, n)' = Pending(k, n) /\ Lost(k, n)' = Lost(k, n)
      /\ Trusting(k, n)' = Trusting(k, n)
  BY <1>1 DEF UpdateView, driverVars, Pending, Lost, Trusting
<1>3. Underway("add", k, n)' = 0 /\ Underway("remove", k, n)' = 0
  <2>1. operation'.does = "none"
    BY DEF UpdateView, NoOperation
  <2>2. QED
    BY <2>1 DEF Underway
<1>4. Shown(k, n) = views[k][Text(n)] /\ Shown(k, n)' = views'[k][Text(n)]
  BY <1>1 DEF UpdateView, Shown
<1>5. CASE operation.does = "add"
  <2>1. views'[k][Text(n)] = IF k = operation.kind /\ Text(n) = operation.text
                             THEN views[k][Text(n)] + 1 ELSE views[k][Text(n)]
    <3>1. views' = Plus(views, operation.kind, operation.text, 1)
      BY <1>5 DEF UpdateView
    <3>2. QED
      BY <1>1, <3>1, PlusOf
  <2>2. /\ Underway("remove", k, n) = 0
        /\ Underway("add", k, n)
             = IF k = operation.kind /\ Text(n) = operation.text THEN 1 ELSE 0
    BY <1>1, <1>5, UnderwayOf
  <2>3. QED
    BY <1>2, <1>3, <1>4, <2>1, <2>2, TermsOf DEF Account
<1>6. CASE operation.does = "remove"
  <2>1. views'[k][Text(n)] = IF k = operation.kind /\ Text(n) = operation.text
                             THEN views[k][Text(n)] - 1 ELSE views[k][Text(n)]
    <3>1. views' = Minus(views, operation.kind, operation.text)
      BY <1>6 DEF UpdateView
    <3>2. views[operation.kind][operation.text] > 0
      BY <1>1, <1>6 DEF OperationInv
    <3>3. QED
      BY <1>1, <3>1, <3>2, MinusOf
  <2>2. /\ Underway("add", k, n) = 0
        /\ Underway("remove", k, n)
             = IF k = operation.kind /\ Text(n) = operation.text THEN 1 ELSE 0
    BY <1>1, <1>6, UnderwayOf
  <2>3. QED
    BY <1>2, <1>3, <1>4, <2>1, <2>2, TermsOf DEF Account
<1>7. QED
  BY <1>1, <1>5, <1>6

(* The answers: the handler's step to the vector and to the window ...     *)
LEMMA AccountTrusted ==
  ASSUME TypeOK, NEW k \in Kinds, NEW n \in Names[k], Unambiguous(n, Names[k]),
         Account(k, n), main \notin {"down", "ended"}, PushTrusted \/ InsertItem
  PROVE  Account(k, n)'
<1>1. "program" \in Kinds /\ program \in AskingPrograms
  BY DEF PushTrusted, InsertItem, TypeOK, Kinds
<1>2. /\ Text(program) \in Strings /\ Text(n) \in Strings
      /\ vectors \in Counts /\ views \in Counts
  BY <1>1, NamesOf DEF TypeOK
<1>3. k = "program" => (Text(program) = Text(n) <=> program = n)
  BY <1>1, TextsOf
<1>4. /\ entries' = entries /\ inherited' = inherited
      /\ Pending(k, n)' = Pending(k, n) /\ Lost(k, n)' = Lost(k, n)
      /\ Underway("add", k, n)' = Underway("add", k, n)
      /\ Underway("remove", k, n)' = Underway("remove", k, n)
  BY DEF PushTrusted, InsertItem, driverVars, Pending, Lost, Underway
<1>5. CASE PushTrusted
  <2>1. vectors'[k][Text(n)] = IF k = "program" /\ Text(n) = Text(program)
                               THEN vectors[k][Text(n)] + 1 ELSE vectors[k][Text(n)]
    <3>1. vectors' = Plus(vectors, "program", Text(program), 1)
      BY <1>5 DEF PushTrusted
    <3>2. QED
      BY <1>1, <1>2, <3>1, PlusOf
  <2>2. UNCHANGED <<main, views, program>> /\ handler = "push" /\ handler' = "insert"
    BY <1>5 DEF PushTrusted
  <2>3. Shown(k, n)' + Trusting(k, n)' = Shown(k, n) + Trusting(k, n)
    BY <1>3, <2>1, <2>2, TermsOf DEF Shown, Trusting
  <2>4. Shown(k, n)' \in Nat /\ Trusting(k, n)' \in Nat
    BY <2>1, <2>2, TermsOf DEF Shown, Trusting
  <2>5. QED
    BY <1>4, <2>3, <2>4, TermsOf DEF Account
<1>6. CASE InsertItem
  <2>1. CASE main = "pump"
    <3>1. views'[k][Text(n)] = IF k = "program" /\ Text(n) = Text(program)
                               THEN views[k][Text(n)] + 1 ELSE views[k][Text(n)]
      <4>1. views' = Plus(views, "program", Text(program), 1)
        BY <1>6, <2>1 DEF InsertItem
      <4>2. QED
        BY <1>1, <1>2, <4>1, PlusOf
    <3>2. UNCHANGED main /\ handler = "insert" /\ handler' = "ready"
      BY <1>6 DEF InsertItem
    <3>3. /\ Shown(k, n) = views[k][Text(n)] /\ Shown(k, n)' = views'[k][Text(n)]
          /\ Trusting(k, n)' = 0
          /\ Trusting(k, n) = IF k = "program" /\ program = n THEN 1 ELSE 0
      BY <2>1, <3>2 DEF Shown, Trusting
    <3>4. QED
      BY <1>3, <1>4, <3>1, <3>3, TermsOf DEF Account
  <2>2. CASE main = "starting"
    <3>1. UNCHANGED <<main, views, vectors>> /\ handler = "insert" /\ handler' = "ready"
      BY <1>6, <2>2 DEF InsertItem
    <3>2. Shown(k, n)' = Shown(k, n) /\ Trusting(k, n)' = 0 /\ Trusting(k, n) = 0
      BY <2>2, <3>1 DEF Shown, Trusting
    <3>3. QED
      BY <1>4, <3>2, TermsOf DEF Account
  <2>3. QED
    BY <1>6, <2>1, <2>2 DEF InsertItem
<1>7. QED
  BY <1>5, <1>6

(* ... and what the driver answers for: the reply, and the insertion.      *)
LEMMA AccountInserted ==
  ASSUME TypeOK, NEW k \in Kinds, NEW n \in Names[k], Account(k, n),
         NEW p \in AskingPrograms, ReplyTrusted(p) \/ InsertTrusted(p)
  PROVE  Account(k, n)'
<1>1. /\ "program" \in Kinds /\ n \in Strings /\ p \in Strings
      /\ entries \in Counts /\ pending \in [AskingPrograms -> Nat]
      /\ lost \in [AskingPrograms -> Nat]
  <2>1. "program" \in Kinds
    BY DEF Kinds
  <2>2. QED
    BY <2>1, NamesOf DEF TypeOK
<1>2. /\ Shown(k, n)' = Shown(k, n) /\ inherited' = inherited
      /\ Underway("add", k, n)' = Underway("add", k, n)
      /\ Underway("remove", k, n)' = Underway("remove", k, n)
  BY DEF ReplyTrusted, InsertTrusted, threadVars, shownVars, Shown, Underway
<1>3. CASE ReplyTrusted(p)
  <2>1. entries' = entries /\ Lost(k, n)' = Lost(k, n)
    BY <1>3 DEF ReplyTrusted, Lost
  <2>2. Pending(k, n)' = IF k = "program" /\ n = p THEN Pending(k, n) + 1 ELSE Pending(k, n)
    <3>1. pending' = [pending EXCEPT ![p] = @ + 1]
      BY <1>3 DEF ReplyTrusted
    <3>2. QED
      BY <1>1, <3>1 DEF Pending
  <2>3. /\ Trusting(k, n) = 0
        /\ Trusting(k, n)' = IF k = "program" /\ n = p THEN 1 ELSE 0
    BY <1>3 DEF ReplyTrusted, Trusting
  <2>4. QED
    BY <1>2, <2>1, <2>2, <2>3, TermsOf DEF Account
<1>4. CASE InsertTrusted(p)
  <2>1. Trusting(k, n)' = Trusting(k, n)
    BY <1>4 DEF InsertTrusted, threadVars, Trusting
  <2>2. Pending(k, n)' = IF k = "program" /\ n = p THEN Pending(k, n) - 1 ELSE Pending(k, n)
    <3>1. pending' = [pending EXCEPT ![p] = @ - 1]
      BY <1>4 DEF InsertTrusted
    <3>2. QED
      BY <1>1, <3>1 DEF Pending
  <2>3. CASE entries' = Plus(entries, "program", p, 1) /\ UNCHANGED lost
    <3>1. entries'[k][n] = IF k = "program" /\ n = p THEN entries[k][n] + 1 ELSE entries[k][n]
      BY <1>1, <2>3, PlusOf
    <3>2. Lost(k, n)' = Lost(k, n)
      BY <2>3 DEF Lost
    <3>3. QED
      BY <1>2, <2>1, <2>2, <3>1, <3>2, TermsOf DEF Account
  <2>4. CASE lost' = [lost EXCEPT ![p] = @ + 1] /\ UNCHANGED entries
    <3>1. Lost(k, n)' = IF k = "program" /\ n = p THEN Lost(k, n) + 1 ELSE Lost(k, n)
      BY <1>1, <2>4 DEF Lost
    <3>2. QED
      BY <1>2, <2>1, <2>2, <2>4, <3>1, TermsOf DEF Account
  <2>5. QED
    BY <1>4, <2>3, <2>4 DEF InsertTrusted
<1>5. QED
  BY <1>3, <1>4

(* A new process: all that the driver has it had before.                   *)
LEMMA AccountStart ==
  ASSUME TypeOK, EmptyInv, Start, NEW k \in Kinds, NEW n \in Names[k]
  PROVE  Account(k, n)'
<1>1. /\ n \in Strings /\ Text(n) \in Strings
      /\ Underway("add", k, n) = 0 /\ Underway("remove", k, n) = 0
  BY NamesOf, Idle DEF Start
<1>2. /\ entries' = entries /\ Pending(k, n)' = Pending(k, n)
      /\ inherited'[k][n] = entries[k][n] + Pending(k, n)
      /\ Underway("add", k, n)' = Underway("add", k, n)
      /\ Underway("remove", k, n)' = Underway("remove", k, n)
  BY <1>1 DEF Start, Pending, Underway
<1>3. Lost(k, n)' = 0
  BY DEF Start, Lost
<1>4. vectors = NoEntries /\ handler = "ready"
  BY DEF Start, EmptyInv
<1>5. Shown(k, n)' = 0
  BY <1>1, <1>4, NoneOf DEF Start, shownVars, Shown
<1>6. Trusting(k, n)' = 0
  BY <1>4 DEF Start, Trusting
<1>7. QED
  BY <1>1, <1>2, <1>3, <1>5, <1>6, TermsOf DEF Account

(* The steps that move none of its terms, but for where they are read.     *)
LEMMA AccountKept ==
  ASSUME TypeOK, NEW k \in Kinds, NEW n \in Names[k], Account(k, n),
         CreateWindow \/ FillLists \/ UpdateVector \/ UNCHANGED vars
  PROVE  Account(k, n)'
<1>1. /\ entries' = entries /\ inherited' = inherited
      /\ Pending(k, n)' = Pending(k, n) /\ Lost(k, n)' = Lost(k, n)
      /\ Underway("add", k, n)' = Underway("add", k, n)
      /\ Underway("remove", k, n)' = Underway("remove", k, n)
  BY DEF CreateWindow, FillLists, UpdateVector, vars, driverVars, threadVars, Pending, Lost, Underway
<1>2. Shown(k, n)' = Shown(k, n)
  BY DEF CreateWindow, FillLists, UpdateVector, vars, threadVars, shownVars, Shown
<1>3. Trusting(k, n)' = Trusting(k, n)
  BY DEF CreateWindow, FillLists, UpdateVector, vars, threadVars, SMutexFree, Trusting
<1>4. QED
  BY <1>1, <1>2, <1>3 DEF Account

LEMMA ListsStep ==
  ASSUME TypeOK, EmptyInv, TextsInv, OperationInv, ListsAgree, [Next]_vars
  PROVE  ListsAgree'
<1>1. SUFFICES ASSUME Watching', NEW k \in Kinds, NEW n \in Names[k], Unambiguous(n, Names[k])
               PROVE  Account(k, n)'
  BY DEF ListsAgree, Account
<1>2. CASE Start
  BY <1>2, AccountStart
<1>3. CASE ~Start
  <2>1. Watching
    <3>1. session = "open" /\ main \in MainStates
      BY <1>1, <1>3 DEF Watching, TypeOK, Next, MainStep, HandlerStep, DriverStep, StartFails,
         CreateWindow, FillLists, CloseWindow, Exit, Kill, ProcessEnds, UpdateVector,
         UpdateView, Add, Remove, Accepted, PushTrusted, InsertItem, ReplyTrusted,
         FileControllerDisconnect, Reload, InsertTrusted, vars
    <3>2. main \notin {"down", "ended"}
      BY <1>1, <1>3 DEF Watching, TypeOK, Next, MainStep, HandlerStep, DriverStep, StartFails,
         CreateWindow, FillLists, CloseWindow, Exit, Kill, ProcessEnds, UpdateVector,
         UpdateView, Add, Remove, Accepted, PushTrusted, InsertItem, ReplyTrusted,
         FileControllerDisconnect, Reload, InsertTrusted, vars, threadVars
    <3>3. QED
      BY <3>1, <3>2 DEF Watching
  <2>2. Account(k, n) /\ main \notin {"down", "ended"}
    BY <1>1, <2>1 DEF ListsAgree, Account, Watching
  <2>3. ASSUME NEW j \in Kinds, NEW t \in Strings, Add(j, t) \/ Remove(j, t)
        PROVE  Account(k, n)'
    BY <1>1, <2>2, <2>3, AccountAccepted
  <2>4. CASE UpdateView
    BY <2>2, <2>4, AccountShown
  <2>5. CASE PushTrusted \/ InsertItem
    BY <1>1, <2>2, <2>5, AccountTrusted
  <2>6. ASSUME NEW p \in AskingPrograms, ReplyTrusted(p) \/ InsertTrusted(p)
        PROVE  Account(k, n)'
    BY <2>2, <2>6, AccountInserted
  <2>7. CASE CreateWindow \/ FillLists \/ UpdateVector \/ UNCHANGED vars
    BY <2>2, <2>7, AccountKept
  <2>8. ~(StartFails \/ CloseWindow \/ Exit \/ Kill \/ FileControllerDisconnect \/ Reload)
    BY <1>1, <2>1 DEF Watching, StartFails, CloseWindow, Exit, Kill, ProcessEnds,
                     FileControllerDisconnect, Reload
  <2>9. QED
    BY <1>3, <2>3, <2>4, <2>5, <2>6, <2>7, <2>8 DEF Next, MainStep, HandlerStep, DriverStep
<1>4. QED
  BY <1>2, <1>3

----------------------------------------------------------------------------
(* The theorems.                                                           *)

LEMMA Inductive == Spec => []IInv
<1>1. Init => IInv
  <2>1. SUFFICES ASSUME Init PROVE IInv
    OBVIOUS
  <2>2. TypeOK
    BY <2>1, TypeInit
  <2>3. EmptyInv /\ OperationInv /\ ListsAgree
    BY <2>1 DEF Init, EmptyInv, OperationInv, ListsAgree, Watching
  <2>4. TextsInv
    BY <2>1, NoneOf DEF Init, TextsInv
  <2>5. QED
    BY <2>2, <2>3, <2>4 DEF IInv
<1>2. IInv /\ [Next]_vars => IInv'
  BY TypeStep, EmptyStep, TextsStep, OperationStep, ListsStep DEF IInv
<1>3. QED
  BY <1>1, <1>2, PTL DEF Spec

(* Type correctness: no count of a list ever goes below zero, so the main  *)
(* thread finds the item that it deletes, and an operation is under way    *)
(* exactly between the driver's acceptance and the list view.              *)
THEOREM TypeCorrect == Spec => []TypeOK
  BY Inductive, PTL DEF IInv

(* The account of every name: what the driver has, is about to insert or   *)
(* failed to insert is what the window shows, what is on its way to it,    *)
(* and what the driver had before, through every interleaving of buttons,  *)
(* answers, insertions, kills and reloads.                                 *)
THEOREM ListsAlwaysAgree == Spec => []ListsAgree
  BY Inductive, PTL DEF IInv

(* A name that the window does not show, and that was not there before the *)
(* program was started, is not in force.                                   *)
THEOREM HiddenNotInForce == Spec => []HiddenIsNotInForce
<1>1. IInv => HiddenIsNotInForce
  <2>1. SUFFICES ASSUME IInv, Watching, main = "pump", handler = "ready", NEW k \in Kinds,
                        NEW n \in Names[k], Unambiguous(n, Names[k]),
                        Shown(k, n) = 0, inherited[k][n] = 0
                 PROVE  entries[k][n] + Pending(k, n) = 0
    BY DEF HiddenIsNotInForce
  <2>2. Account(k, n) /\ TypeOK
    BY <2>1 DEF IInv, ListsAgree, Account
  <2>3. /\ Underway("add", k, n) = 0 /\ Underway("remove", k, n) = 0
        /\ Trusting(k, n) = 0
    BY <2>1, <2>2, Idle DEF Trusting
  <2>4. entries[k][n] + Pending(k, n) + Lost(k, n) = 0
    BY <2>1, <2>2, <2>3, TermsOf DEF Account
  <2>5. QED
    BY <2>2, <2>4, TermsOf
<1>2. QED
  BY <1>1, Inductive, PTL

(* An item on show can be removed: its text is converted to the name that  *)
(* it stands for, and the driver has an entry of that name, is about to    *)
(* insert one or found no memory for one.                                  *)
THEOREM ShownRemovable == Spec => []ShownIsRemovable
<1>1. IInv => ShownIsRemovable
  <2>1. SUFFICES ASSUME IInv, Watching, main = "pump", NEW k \in Kinds, NEW n \in Names[k],
                        Unambiguous(n, Names[k]), views[k][Text(n)] > 0
                 PROVE  /\ ConvertToNtPath(Text(n)) = n
                        /\ entries[k][n] + Pending(k, n) + Lost(k, n) > 0
    BY DEF ShownIsRemovable
  <2>2. Account(k, n) /\ TypeOK
    BY <2>1 DEF IInv, ListsAgree, Account
  <2>3. /\ Underway("add", k, n) = 0 /\ Underway("remove", k, n) = 0
        /\ Shown(k, n) = views[k][Text(n)]
    BY <2>1, <2>2, Idle DEF Shown
  <2>4. ConvertToNtPath(Text(n)) = n
    BY <2>1, TextsOf
  <2>5. QED
    BY <2>1, <2>2, <2>3, <2>4, TermsOf DEF Account
<1>2. QED
  BY <1>1, Inductive, PTL
==============================================================================

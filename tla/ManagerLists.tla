----------------------------- MODULE ManagerLists -----------------------------
(***************************************************************************)
(* The lists of protected files and trusted programs, which exist in three *)
(* places: in the driver, where they are in force; in the vectors of the   *)
(* user interface; and in the list views of its main window, from which    *)
(* the user removes.  The main thread adds and removes, RequestQHandler    *)
(* adds the programs that the user answered "Add to Trusted" for, and the  *)
(* driver inserts those on its own, in the thread that had asked.          *)
(*                                                                         *)
(* The interface may be killed and started again, and the driver reloaded, *)
(* at any point.  A list is a count per name.                              *)
(***************************************************************************)
EXTENDS PathNames

CONSTANTS
  BrowseResults,   \* per kind of list, what its file dialog may return
  AskingPrograms,  \* programs that the driver asks about, by their names in it
  MaxCopies        \* per driver name, a bound on its entries

Kinds == {"file", "program"}

(* A file dialog returns no name that begins with a device, and the driver *)
(* gives none that begins with a drive letter.  A program whose name does  *)
(* not fit the 512 bytes in which the driver looks it up is not asked      *)
(* about; those that fit are not cut in the question.                      *)
ASSUME ListsAssumption ==
  /\ BrowseResults \in [Kinds -> SUBSET Seq(STRING)]
  /\ AskingPrograms \subseteq Seq(STRING)
  /\ \A k \in Kinds : \A t \in BrowseResults[k] : Matching(t) = {}
  /\ \A p \in AskingPrograms : ConvertToNtPath(p) = p

VARIABLES
  entries,      \* g_ProtectedFilesList and g_TrustedProgramsList of the driver
  pending,      \* programs answered ADD_TRUSTED that it has yet to insert
  session,      \* the connection between the two
  vectors,      \* g_ProtectedFiles and g_TrustedPrograms
  views,        \* the items of g_hProtectedList and g_hTrustedList
  main,         \* where the main thread is
  operation,    \* the list operation that the driver has accepted
  handler,      \* where RequestQHandler is, after a reply that succeeded
  program,      \* the program of that reply, by its driver name
  inherited,    \* history: what the driver already had when it was connected
  lost          \* history: ADD_TRUSTED insertions that found no memory

driverVars == <<entries, pending, lost>>
threadVars == <<main, operation, handler, program>>
shownVars == <<vectors, views>>
vars == <<driverVars, session, threadVars, shownVars, inherited>>

----------------------------------------------------------------------------
(* The driver's names of each list, and all names that can occur anywhere. *)
Names ==
  [k \in Kinds |-> {ConvertToNtPath(t) : t \in BrowseResults[k]}
                     \union (IF k = "program" THEN AskingPrograms ELSE {})]

Strings ==
  UNION {BrowseResults[k] \union Names[k] \union {Text(n) : n \in Names[k]} :
           k \in Kinds}

ASSUME MaxCopiesAssumption ==
  \A k \in Kinds : \A n \in Names[k] : n \in DOMAIN MaxCopies /\ MaxCopies[n] \in Nat

NoEntries == [k \in Kinds |-> [s \in Strings |-> 0]]
NoOperation == [does |-> "none"]
NoProgram == <<>>

Operations ==
  [does : {"add", "remove"}, kind : Kinds, text : Strings] \union {NoOperation}

MainStates == {"down", "starting", "init", "pump", "vector", "view", "ended"}

Plus(list, k, s, n) == [list EXCEPT ![k][s] = @ + n]
Minus(list, k, s) == [list EXCEPT ![k][s] = @ - 1]

(* The handler holds g_SMutex while it sends to the list view.             *)
SMutexFree == handler # "insert"

Init ==
  /\ entries = NoEntries
  /\ pending = [p \in AskingPrograms |-> 0]
  /\ lost = [p \in AskingPrograms |-> 0]
  /\ session = "none"
  /\ vectors = NoEntries
  /\ views = NoEntries
  /\ main = "down"
  /\ operation = NoOperation
  /\ handler = "ready"
  /\ program = NoProgram
  /\ inherited = NoEntries

(* Entries that the driver has, or is about to insert, or failed to.       *)
Pending(k, n) == IF k = "program" /\ n \in AskingPrograms THEN pending[n] ELSE 0
Lost(k, n) == IF k = "program" /\ n \in AskingPrograms THEN lost[n] ELSE 0

(* Bound: room for one more copy of the name.                              *)
Bounded(k, n) == entries[k][n] + Pending(k, n) + Lost(k, n) < MaxCopies[n]

----------------------------------------------------------------------------
(* Start, window and end of the interface.                                 *)

(* InitializeDriver, then the two threads.  The port takes one session: a  *)
(* second instance of the program, or one without a driver, ends at once.  *)
Start ==
  /\ main = "down" /\ session = "none"
  /\ main' = "starting"
  /\ session' = "open"
  /\ inherited' = [k \in Kinds |-> [s \in Strings |-> entries[k][s] + Pending(k, s)]]
  /\ lost' = [p \in AskingPrograms |-> 0]
  /\ UNCHANGED <<entries, pending, operation, handler, program, shownVars>>

(* A thread cannot be created: the port is closed again.                   *)
StartFails ==
  /\ main = "down" /\ session = "none"
  /\ session' = "closing"
  /\ UNCHANGED <<driverVars, threadVars, shownVars, inherited>>

(* WM_INITDIALOG stores the handles of the list views ...                  *)
CreateWindow ==
  /\ main = "starting"
  /\ main' = "init"
  /\ UNCHANGED <<driverVars, session, operation, handler, program, shownVars, inherited>>

(* ... and fills them from the vectors under g_SMutex.                     *)
FillLists ==
  /\ main = "init"
  /\ SMutexFree
  /\ views' = vectors
  /\ main' = "pump"
  /\ UNCHANGED <<driverVars, session, operation, handler, program, vectors, inherited>>

CloseWindow ==
  /\ main = "pump"
  /\ main' = "ended"
  /\ UNCHANGED <<driverVars, session, operation, handler, program, shownVars, inherited>>

(* The process is gone, with what it kept; the driver is told later.       *)
ProcessEnds ==
  /\ main' = "down"
  /\ operation' = NoOperation
  /\ handler' = "ready" /\ program' = NoProgram
  /\ vectors' = NoEntries /\ views' = NoEntries
  /\ session' = IF session = "open" THEN "closing" ELSE "none"
  /\ UNCHANGED <<driverVars, inherited>>

(* The handler is joined, then CleanupDriver.                              *)
Exit == main = "ended" /\ handler = "ready" /\ ProcessEnds

Kill == main # "down" /\ ProcessEnds

----------------------------------------------------------------------------
(* The four list buttons: first the driver, then the vector under          *)
(* g_SMutex, then the list view.  A message that fails changes nothing.    *)

(* SendMessageToDriver returned TRUE for the operation.                    *)
Accepted(does, k, t) ==
  /\ main = "pump"
  /\ session = "open"
  /\ main' = "vector"
  /\ operation' = [does |-> does, kind |-> k, text |-> t]
  /\ UNCHANGED <<pending, lost, session, handler, program, shownVars, inherited>>

Add(k, t) ==
  /\ t \in BrowseResults[k]
  /\ Bounded(k, ConvertToNtPath(t))
  /\ entries' = Plus(entries, k, ConvertToNtPath(t), 1)
  /\ Accepted("add", k, t)

(* The driver takes off an entry whether or not it found one.              *)
MutantRemove(k, t) ==
  /\ views[k][t] > 0
  /\ ConvertToNtPath(t) \in Names[k]
  /\ entries' = Minus(entries, k, ConvertToNtPath(t))
  /\ Accepted("remove", k, t)

(* The selected item; the driver removes one entry that has this name.     *)
Remove(k, t) ==
  /\ views[k][t] > 0
  /\ ConvertToNtPath(t) \in Names[k]
  /\ entries[k][ConvertToNtPath(t)] > 0
  /\ entries' = Minus(entries, k, ConvertToNtPath(t))
  /\ Accepted("remove", k, t)

(* push_back of the driver's name, or remove_if of all that are equal.     *)
UpdateVector ==
  /\ main = "vector"
  /\ SMutexFree
  /\ LET k == operation.kind
         n == ConvertToNtPath(operation.text)
     IN vectors' = IF operation.does = "add" THEN Plus(vectors, k, n, 1)
                   ELSE [vectors EXCEPT ![k][n] = 0]
  /\ main' = "view"
  /\ UNCHANGED <<driverVars, session, operation, handler, program, views, inherited>>

(* All items with this text are deleted, as in the vector.                 *)
MutantUpdateView ==
  /\ main = "view"
  /\ views' = IF operation.does = "add" THEN Plus(views, operation.kind, operation.text, 1)
              ELSE [views EXCEPT ![operation.kind][operation.text] = 0]
  /\ main' = "pump"
  /\ operation' = NoOperation
  /\ UNCHANGED <<driverVars, session, handler, program, vectors, inherited>>

(* One item is inserted, or the selected one deleted.                      *)
UpdateView ==
  /\ main = "view"
  /\ views' = IF operation.does = "add" THEN Plus(views, operation.kind, operation.text, 1)
              ELSE Minus(views, operation.kind, operation.text)
  /\ main' = "pump"
  /\ operation' = NoOperation
  /\ UNCHANGED <<driverVars, session, handler, program, vectors, inherited>>

----------------------------------------------------------------------------
(* "Add to Trusted" in the request dialog.                                 *)

(* FilterReplyMessage succeeded with ADD_TRUSTED.  The second bound is for *)
(* the vector, in which names from here are never removed.                 *)
ReplyTrusted(p) ==
  /\ main # "down"
  /\ session = "open"
  /\ handler = "ready"
  /\ Bounded("program", p)
  /\ vectors["program"][Text(p)] < MaxCopies[p]
  /\ pending' = [pending EXCEPT ![p] = @ + 1]
  /\ handler' = "push" /\ program' = p
  /\ UNCHANGED <<entries, lost, session, main, operation, shownVars, inherited>>

(* The vector is left to the window.                                       *)
MutantPushTrusted ==
  /\ handler = "push"
  /\ handler' = "insert"
  /\ UNCHANGED <<driverVars, session, main, operation, program, views, vectors, inherited>>

(* push_back of the name that the dialog showed ...                        *)
PushTrusted ==
  /\ handler = "push"
  /\ vectors' = Plus(vectors, "program", Text(program), 1)
  /\ handler' = "insert"
  /\ UNCHANGED <<driverVars, session, main, operation, program, views, inherited>>

(* ... and, still under g_SMutex, an item for it.  The main thread must    *)
(* fetch messages; without a window nothing is inserted.                   *)
InsertItem ==
  /\ handler = "insert"
  /\ \/ /\ main = "pump"
        /\ views' = Plus(views, "program", Text(program), 1)
     \/ /\ main \in {"starting", "ended"}
        /\ UNCHANGED views
  /\ handler' = "ready" /\ program' = NoProgram
  /\ UNCHANGED <<driverVars, session, main, operation, vectors, inherited>>

----------------------------------------------------------------------------
(* The driver.                                                             *)

(* The asking thread resumes; the pool may be exhausted.                   *)
InsertTrusted(p) ==
  /\ pending[p] > 0
  /\ pending' = [pending EXCEPT ![p] = @ - 1]
  /\ \/ entries' = Plus(entries, "program", p, 1) /\ UNCHANGED lost
     \/ lost' = [lost EXCEPT ![p] = @ + 1] /\ UNCHANGED entries
  /\ UNCHANGED <<session, threadVars, shownVars, inherited>>

FileControllerDisconnect ==
  /\ session = "closing"
  /\ session' = "none"
  /\ UNCHANGED <<driverVars, threadVars, shownVars, inherited>>

(* Unloaded and loaded: it waits for its callbacks and disconnects the     *)
(* interface, which keeps its handle and does not connect again.           *)
Reload ==
  /\ \A p \in AskingPrograms : pending[p] = 0
  /\ entries' = NoEntries
  /\ session' = IF session = "open" THEN "broken"
                ELSE IF session = "closing" THEN "none" ELSE session
  /\ UNCHANGED <<pending, lost, threadVars, shownVars, inherited>>

----------------------------------------------------------------------------
MainStep ==
  \/ Start \/ StartFails \/ CreateWindow \/ FillLists \/ CloseWindow \/ Exit \/ Kill
  \/ UpdateVector \/ UpdateView
  \/ \E k \in Kinds, t \in Strings : Add(k, t) \/ Remove(k, t)

HandlerStep == PushTrusted \/ InsertItem \/ \E p \in AskingPrograms : ReplyTrusted(p)

DriverStep ==
  FileControllerDisconnect \/ Reload \/ \E p \in AskingPrograms : InsertTrusted(p)

Next == MainStep \/ HandlerStep \/ DriverStep

Spec == Init /\ [][Next]_vars

----------------------------------------------------------------------------
(* Properties.                                                             *)

Counts == [Kinds -> [Strings -> Nat]]

TypeOK ==
  /\ entries \in Counts
  /\ pending \in [AskingPrograms -> Nat]
  /\ lost \in [AskingPrograms -> Nat]
  /\ session \in {"none", "open", "closing", "broken"}
  /\ vectors \in Counts
  /\ views \in Counts
  /\ main \in MainStates
  /\ operation \in Operations
  /\ operation = NoOperation <=> main \notin {"vector", "view"}
  /\ handler \in {"ready", "push", "insert"}
  /\ IF handler = "ready" THEN program = NoProgram ELSE program \in AskingPrograms
  /\ inherited \in Counts

(* Items of a name on show; before the window is filled, those that it     *)
(* will be filled with.                                                    *)
Shown(k, n) ==
  IF main \in {"starting", "init"} THEN vectors[k][Text(n)]
  ELSE views[k][Text(n)]

(* An operation that one side has done and the other has not.              *)
Underway(does, k, n) ==
  IF operation = [does |-> does, kind |-> k, text |-> Text(n)] THEN 1 ELSE 0

Trusting(k, n) ==
  IF /\ k = "program" /\ program = n
     /\ \/ handler = "push"
        \/ handler = "insert" /\ main \notin {"starting", "init"}
  THEN 1 ELSE 0

Watching == session = "open" /\ main \in MainStates \ {"down", "ended"}

(* The account of every name: what the driver has, is about to insert or   *)
(* failed to insert is what the window shows, what is on its way to it,    *)
(* and what the driver had before.  It holds through every interleaving of *)
(* buttons, answers and insertions, with names listed more than once.      *)
ListsAgree ==
  Watching =>
    \A k \in Kinds : \A n \in Names[k] : Unambiguous(n, Names[k]) =>
      entries[k][n] + Pending(k, n) + Lost(k, n) + Underway("remove", k, n)
        = Shown(k, n) + Underway("add", k, n) + Trusting(k, n) + inherited[k][n]

(* A name that the window does not show, and that was not there before the *)
(* program was started, is not in force: nothing stays protected or        *)
(* trusted behind the user's back once the last item is removed.           *)
HiddenIsNotInForce ==
  Watching /\ main = "pump" /\ handler = "ready" =>
    \A k \in Kinds : \A n \in Names[k] :
      Unambiguous(n, Names[k]) /\ Shown(k, n) = 0 /\ inherited[k][n] = 0
        => entries[k][n] + Pending(k, n) = 0

(* An item on show can be removed: the driver finds an entry under the     *)
(* name that the item's text is converted to, unless the entry is still to *)
(* be inserted or could not be.                                            *)
ShownIsRemovable ==
  Watching /\ main = "pump" =>
    \A k \in Kinds : \A n \in Names[k] :
      LET text == Text(n)
      IN Unambiguous(n, Names[k]) /\ views[k][text] > 0
           => /\ ConvertToNtPath(text) = n
              /\ entries[k][n] + Pending(k, n) + Lost(k, n) > 0
==============================================================================

--------------------------- MODULE TouchWorkspace ---------------------------
(***************************************************************************)
(* The local touch surface: the page stack and editors of the workspace,   *)
(* the requests a press sends to the application, and the factory reset    *)
(* with its warning, its confirmation and its long press.                  *)
(*                                                                         *)
(* The main task repeats: update the application, take a snapshot of it,   *)
(* sample the touch panel and handle at most one contact with that         *)
(* snapshot.  The httpd task works in between, so what the snapshot shows  *)
(* may be over when the press arrives (`stale`).  A step that finds too    *)
(* little memory is skipped before the panel is sampled.                   *)
(*                                                                         *)
(* Texts, numbers and lists are abstracted to what decides: an input is    *)
(* acceptable or not; every row of a list can be touched; a program is its *)
(* shipped, its edited or a draft form (an edit that leaves it a draft is  *)
(* not told from one that leaves it runnable).                             *)
(***************************************************************************)
EXTENDS Integers, SequencesExt

CONSTANTS
    FactoryPrograms,  \* the programs of the factory catalog
    UserPrograms,     \* the identifiers for programs of the user
    NoProgram,
    Boots,            \* the states a boot publishes: lifecycle, process, run
    Pages,            \* the pages of the instance (all of them on the device)
    PinDigits,        \* length of a complete PIN entry
    HoldTicks,        \* UI steps the long press lasts
    MaxDepth, MaxEdits, MaxWorld   \* bounds of the instance

ASSUME WorkspaceAssumption ==
    /\ FactoryPrograms \cap UserPrograms = {}
    /\ NoProgram \notin FactoryPrograms \cup UserPrograms
    /\ {PinDigits, HoldTicks} \subseteq Nat \ {0}
    /\ {MaxDepth, MaxEdits, MaxWorld} \subseteq Nat
    /\ "Home" \in Pages
    /\ Boots \subseteq
         {<<"Ready", "Standby", NoProgram>>, <<"Ready", "Fallback", NoProgram>>,
          <<"ServiceRequired", "SafeBoot", NoProgram>>,
          <<"ServiceRequired", "NoRuntime", NoProgram>>}
         \cup {<<"Ready", proc, p>> : p \in FactoryPrograms,
               proc \in {"Running", "WaitingForProduct", "Completed", "Fault",
                         "RecoveryEvaluation"}}

VARIABLES
    ws,     \* FermentationTouchWorkspace
    app,    \* what the surface reads and changes of the application
    flow,   \* [stage, kind, held]: FactoryResetFlow
    gate,   \* UiResetHoldContactGate
    ui,     \* where the main task is in its step
    snap,   \* the snapshot the running step works with
    stale,  \* what others changed since that snapshot
    watched \* observed: [acks, grip]: acknowledgements since the flow began,
            \* steps of unbroken contact with the hold target (-1: unknown)

panelVars == <<ws, app, flow, gate, ui, snap, stale, watched>>

Programs == FactoryPrograms \cup UserPrograms
Bodies == {"shipped", "edited", "draft"}

\* A program document: it is in the catalog, it is active, its content.
NoDocument == [there |-> FALSE, installed |-> FALSE, body |-> "shipped"]
Shipped == [there |-> TRUE, installed |-> TRUE, body |-> "shipped"]

FactoryCatalog == [p \in Programs |->
    IF p \in FactoryPrograms THEN Shipped ELSE NoDocument]

IdleFlow == [stage |-> "Idle", kind |-> "PinIndependent", held |-> 0]

NoSnap == [mode |-> "Unavailable", proc |-> "NoRuntime", run |-> NoProgram,
           stage |-> "Idle", kind |-> "PinIndependent", available |-> FALSE,
           pinAvailable |-> FALSE, recoveryEntry |-> FALSE,
           service |-> FALSE, message |-> FALSE]

Top(w) == Last(w.stack)

-----------------------------------------------------------------------------
(* What the application decides *)

\* A validated standby: no run, no open recovery decision, no service case.
LocalServiceEntryAllowed(a) ==
    a.life = "Ready" /\ a.proc = "Standby" /\ a.run = NoProgram

LocalServiceAvailable(a) == LocalServiceEntryAllowed(a) /\ a.lease

\* Without a runtime only the entry the recovery core admitted at boot.
FactoryResetRecoveryEntry(a) == a.proc = "NoRuntime" /\ a.admitted

FactoryResetAvailable(a) ==
    /\ a.proc = "NoRuntime" => FactoryResetRecoveryEntry(a)
    /\ a.run = NoProgram

PinProtectedFlowPending(f) ==
    /\ f.kind = "PinProtected"
    /\ f.stage \notin {"Idle", "Executing", "Finished"}

CancelPinProtectedFlow(f) == IF PinProtectedFlowPending(f) THEN IdleFlow ELSE f

PinProtectedFlowLeaseLost(a, f) ==
    PinProtectedFlowPending(f) /\ ~LocalServiceAvailable(a)

-----------------------------------------------------------------------------
(* FactoryResetFlow *)

Begin(f, kind) ==
    IF f.stage = "Idle"
    THEN [stage |-> IF kind = "PinProtected" THEN "PinRequired" ELSE "Warning",
          kind |-> kind, held |-> 0]
    ELSE f

PinVerified(f) ==
    IF f.stage = "PinRequired" /\ f.kind = "PinProtected"
    THEN [f EXCEPT !.stage = "Warning"] ELSE f

Acknowledge(f) ==
    CASE f.stage = "Warning" -> [f EXCEPT !.stage = "Confirm"]
      [] f.stage = "Confirm" -> [f EXCEPT !.stage = "Hold", !.held = 0]
      [] OTHER -> f

Cancel(f) == IF f.stage \in {"Executing", "Idle"} THEN f ELSE IdleFlow

\* `held` counts the steps since the contact reached the hold target.
UpdateHold(f, held) ==
    CASE f.stage # "Hold" -> f
      [] f.stage = "Hold" /\ ~held -> [f EXCEPT !.held = 0]
      [] f.stage = "Hold" /\ held /\ f.held <= HoldTicks - 1 ->
             [f EXCEPT !.held = @ + 1]
      [] OTHER -> [f EXCEPT !.stage = "Executing", !.held = 0]

Finish(f) == IF f.stage = "Executing" THEN [f EXCEPT !.stage = "Finished"] ELSE f

Dismiss(f) == IF f.stage = "Finished" THEN IdleFlow ELSE f

\* One report of the contact on the hold target, before the core may run.
HoldReport(a, f, held) ==
    IF PinProtectedFlowLeaseLost(a, f) THEN IdleFlow ELSE UpdateHold(f, held)

-----------------------------------------------------------------------------
(* The snapshot *)

HomeMode(a) ==
    CASE a.life = "ServiceRequired" -> "Restricted"
      [] a.life = "Ready" /\ a.proc = "NoRuntime" -> "Unavailable"
      [] a.life = "Ready" /\ a.proc \in {"Fallback", "RecoveryEvaluation"} ->
             "Recovery"
      [] a.life = "Ready" /\ a.proc \in {"SafeBoot", "Fault"} -> "Restricted"
      [] a.life = "Ready" /\ a.proc = "Completed" -> "Completed"
      [] a.life = "Ready" /\ a.proc = "WaitingForProduct" -> "Waiting"
      [] a.life = "Ready" /\ a.proc = "Running" ->
             IF a.message THEN "Waiting" ELSE "ActiveRun"
      [] a.life = "Ready" /\ a.proc = "Standby" ->
             IF a.message THEN "Waiting" ELSE "Standby"

\* FactoryResetView is the part of the snapshot that arms the reset pages.
FactoryResetView(a, f) ==
    [stage |-> f.stage, kind |-> f.kind,
     available |-> f.stage = "Idle" /\ FactoryResetAvailable(a),
     pinAvailable |-> /\ f.stage = "Idle"
                      /\ FactoryResetAvailable(a)
                      /\ LocalServiceAvailable(a),
     recoveryEntry |-> FactoryResetRecoveryEntry(a)]

Snapshot(a, f) ==
    LET reset == FactoryResetView(a, f) IN
    [mode |-> HomeMode(a), proc |-> a.proc, run |-> a.run,
     stage |-> reset.stage, kind |-> reset.kind,
     available |-> reset.available, pinAvailable |-> reset.pinAvailable,
     recoveryEntry |-> reset.recoveryEntry,
     service |-> LocalServiceAvailable(a), message |-> a.message]

-----------------------------------------------------------------------------
(* The bottom slots of each page: what a press on slot 1 to 4 asks for *)

Offer(enabled, action) == IF enabled THEN action ELSE "None"

HomeSlots(s) ==
    CASE s.mode = "Standby" ->
           <<"NavigateProgramList", "NavigateProgramManagement",
             "NavigateStatus", "NavigateSettings">>
      [] s.mode = "ActiveRun" ->
           <<"NavigateStopDialog", "NavigateProgramList", "NavigateProcess",
             "NavigateStatus">>
      [] s.mode = "Waiting" ->
           <<IF s.proc = "WaitingForProduct" THEN "ProductInsertedConfirmed"
             ELSE "NavigateMessageDetail",
             "NavigateProgramList", "NavigateProcess", "NavigateStatus">>
      [] s.mode = "Completed" ->
           <<"Complete", "NavigateProgramList", "NavigateCompletion",
             "NavigateStatus">>
      [] s.mode = "Recovery" ->
           <<IF s.proc = "Fallback" THEN "ResumeFallback"
             ELSE "NavigateRecovery",
             "NavigateProgramList", "NavigateStatus", "None">>
      [] s.mode = "Restricted" ->
           <<IF s.proc = "SafeBoot" \/ s.recoveryEntry
             THEN Offer(s.available, "FactoryResetBegin")
             ELSE Offer(s.proc = "RecoveryEvaluation", "NavigateRecovery"),
             Offer(s.proc # "SafeBoot", "NavigateProgramList"),
             "NavigateStatus", "None">>
      [] s.mode = "Unavailable" -> <<"None", "None", "NavigateStatus", "None">>

Listed(cat) == {p \in Programs : cat[p].there /\ cat[p].installed}

ProgramListSlots(w, cat) ==
    <<"NavigateBack", "None", "None",
      IF w.intent = "Start" THEN "NavigateManualModeSelection"
      ELSE IF Listed(cat) = {} THEN "NewProgram" ELSE "NavigateStatus">>

Startable(cat, p) == p \in Listed(cat) /\ cat[p].body # "draft"

\* Start is offered for the selected program when its values are valid; the
\* values can be reset when they differ from the stored ones.
ProgramSummarySlots(w, cat) ==
    LET shown == w.sel \in Listed(cat) IN
    <<"NavigateBack", "NavigateProgramActions",
      Offer(shown /\ Startable(cat, w.sel) /\ w.cand \in {"stored", "changed"},
            "StartProgram"),
      IF shown /\ Startable(cat, w.sel) /\ w.cand \in {"changed", "bad"}
      THEN "ResetStartValues" ELSE "NavigateStatus">>

ValueEditSlots(w) ==
    <<"ValueEditCancel", "ValueEditBackspace", "ValueEditClear",
      Offer(w.input = "ok", "ValueEditCommit")>>

ProgramActionsSlots(w) ==
    <<"NavigateBack", Offer(w.sel # NoProgram, "BeginProgramEdit"),
      Offer(w.sel # NoProgram, "CopyProgram"), "NewProgram">>

Stored(w, cat) == w.sel # NoProgram /\ cat[w.sel].there

\* Edit needs a valid candidate; a name entered for another operation was
\* checked when it was committed.
ProgramEditValid(w, cat) ==
    w.op = "Edit" => Stored(w, cat) /\ w.edit \in Bodies

ProgramEditSlots(w, cat) ==
    <<IF w.dirty THEN "DiscardProgramEdit" ELSE "NavigateBack",
      Offer(Stored(w, cat) /\ w.sel \in FactoryPrograms, "ResetProgram"),
      Offer(Stored(w, cat) /\ cat[w.sel].installed,
            IF w.sel \in FactoryPrograms THEN "UninstallProgram"
            ELSE "DeleteProgram"),
      Offer(ProgramEditValid(w, cat), "SaveProgram")>>

ProgramDeleteSlots(w) ==
    IF Top(w) = "ProgramDeleteConfirmation"
    THEN <<"NavigateBack",
           Offer(w.sel # NoProgram, "NavigateProgramDeleteFinalConfirmation"),
           "NavigateBack", "NavigateStatus">>
    ELSE <<"NavigateBack", "NavigateBack", "NavigateStatus",
           Offer(w.sel # NoProgram,
                 IF w.op = "Uninstall" THEN "UninstallProgram"
                 ELSE "DeleteProgram")>>

\* A manual run has no owner of its limits yet: its start is never offered.
ManualSlots(w) ==
    IF Top(w) = "ManualModeSelection"
    THEN <<"NavigateBack", "NavigateManualHolding", "NavigateManualTimed",
           "NavigateStatus">>
    ELSE <<"NavigateBack", "NavigateBack", "None", "NavigateStatus">>

RunSlots(w) ==
    IF Top(w) = "Process"
    THEN <<"NavigateStopDialog", "NavigateProgramList", "NavigateTechnical",
           "NavigateStatus">>
    ELSE <<"NavigateBack", "StopTurnOff", "None", "NavigateStatus">>

\* Technical, Messages and MessageDetail.  The fault reset can be pressed in
\* a fault, the application refuses it.
MessageSlots(w, s) ==
    CASE Top(w) = "Technical" ->
           <<"NavigateBack", "None", "None", "NavigateMessages">>
      [] Top(w) = "Messages" ->
           <<"NavigateBack", "None", "None",
             Offer(w.msg /\ s.message, "NavigateMessageDetail")>>
      [] Top(w) = "MessageDetail" ->
           <<"NavigateBack", Offer(w.msg /\ s.message, "AcknowledgeMessage"),
             Offer(w.msg /\ s.message, "MuteMessage"),
             Offer(s.proc = "Fault", "ResetFault")>>

CompletionSlots == <<"NavigateBack", "NavigateTechnical", "Complete", "None">>

StatusSlots(w) ==
    IF Top(w) = "Status"
    THEN <<"NavigateBack", "NavigateMessages", "NavigateDiagnostics",
           "NavigateTechnical">>
    ELSE <<"NavigateBack", "None", "None", "NavigateService">>

ServiceSlots(s) ==
    <<"NavigateBack", IF s.service THEN "ServiceSignOut" ELSE "NavigatePin",
      IF s.service THEN Offer(s.pinAvailable, "FactoryResetBeginPinProtected")
      ELSE "NavigateStatus",
      Offer(s.service, "NavigateRecovery")>>

PinSlots(w, s) ==
    <<"NavigateBack", "NavigateBack",
      Offer(w.pin = PinDigits, "ServicePinCommit"),
      Offer(s.available, "FactoryResetBegin")>>

RecoverySlots(s) ==
    <<"NavigateBack", Offer(s.proc = "Fallback", "ResumeFallback"),
      "NavigateStatus", "NavigateDiagnostics">>

FactoryResetSlots(s) ==
    <<CASE s.stage \in {"Idle", "Executing"} -> "NavigateBack"
        [] s.stage \in {"PinRequired", "Warning", "Confirm", "Hold"} ->
               "FactoryResetCancel"
        [] s.stage = "Finished" -> "FactoryResetDismiss",
      Offer(s.stage = "Hold", "FactoryResetHold"),
      Offer(s.stage \in {"PinRequired", "Warning", "Confirm"},
            "FactoryResetAcknowledge"),
      "NavigateStatus">>

SettingsSlots == <<"NavigateBack", "None", "None", "NavigateStatus">>

TextEditSlots(w) ==
    <<"TextEditCancel", "TextEditMode",
      "TextEditBackspace", Offer(w.input = "ok", "TextEditCommit")>>

\* The requests of the network and web access pages leave this state alone
\* (WebSurface has them).
HeaderSlots(w) ==
    CASE Top(w) = "HeaderLanguage" ->
           <<"NavigateBack", "NavigateNetwork", "NavigateClock",
             "NavigateStatus">>
      [] Top(w) = "HeaderNetwork" ->
           <<"NavigateBack", "NetworkRequest", "NetworkRequest",
             "NetworkRequest">>
      [] Top(w) = "HeaderWebAccess" ->
           <<"NavigateBack", "NetworkRequest", "None", "NavigateStatus">>
      [] Top(w) = "HeaderClock" ->
           <<"NavigateBack", "NavigateLanguage", "NavigateNetwork",
             "NavigateStatus">>

Slots(w, s, cat) ==
    CASE Top(w) = "Home" -> HomeSlots(s)
      [] Top(w) = "ProgramList" -> ProgramListSlots(w, cat)
      [] Top(w) = "ProgramSummary" -> ProgramSummarySlots(w, cat)
      [] Top(w) = "ValueEdit" -> ValueEditSlots(w)
      [] Top(w) = "ProgramActions" -> ProgramActionsSlots(w)
      [] Top(w) = "ProgramEdit" -> ProgramEditSlots(w, cat)
      [] Top(w) \in {"ProgramDeleteConfirmation",
                     "ProgramDeleteFinalConfirmation"} -> ProgramDeleteSlots(w)
      [] Top(w) \in {"ManualModeSelection", "ManualHolding", "ManualTimed"} ->
             ManualSlots(w)
      [] Top(w) \in {"Process", "StopDialog"} -> RunSlots(w)
      [] Top(w) \in {"Technical", "Messages", "MessageDetail"} ->
             MessageSlots(w, s)
      [] Top(w) = "Completion" -> CompletionSlots
      [] Top(w) \in {"Status", "Diagnostics"} -> StatusSlots(w)
      [] Top(w) = "Service" -> ServiceSlots(s)
      [] Top(w) = "Pin" -> PinSlots(w, s)
      [] Top(w) = "Recovery" -> RecoverySlots(s)
      [] Top(w) = "FactoryReset" -> FactoryResetSlots(s)
      [] Top(w) = "Settings" -> SettingsSlots
      [] Top(w) = "TextEdit" -> TextEditSlots(w)
      [] OTHER -> HeaderSlots(w)

-----------------------------------------------------------------------------
(* What can be touched *)

Act(action) == [action |-> action, of |-> NoProgram]

\* The rows and keys of the content area.
ContentCells(w, s, cat) ==
    CASE Top(w) = "ProgramList" ->
           {[action |-> "SelectProgram", of |-> p] : p \in Listed(cat)}
      [] Top(w) = "ProgramSummary" ->
           IF w.sel \in Listed(cat) /\ Startable(cat, w.sel)
           THEN {Act("EditStartValue"), Act("CycleStartField")} ELSE {}
      [] Top(w) \in {"ManualHolding", "ManualTimed", "StopDialog",
                     "Completion"} ->
           {Act("EditManualValue")}
      [] Top(w) \in {"ValueEdit", "TextEdit"} -> {Act("Key")}
      [] Top(w) = "Pin" ->
           {Act(a) : a \in (IF w.pin < PinDigits THEN {"PinDigit"} ELSE {})
                     \cup (IF w.pin > 0 THEN {"PinBackspace", "PinClear"}
                           ELSE {})}
      [] Top(w) = "ProgramEdit" ->
           IF w.op # "Edit" THEN {Act("EditText")}
           ELSE IF Stored(w, cat)
           THEN {Act(a) : a \in {"EditText", "EditNumber",
                                 "CycleProgramField"}}
           ELSE {}
      [] Top(w) = "Settings" ->
           {Act(a) : a \in {"NavigateLanguage", "NavigateClock",
                            "NavigateNetwork", "NavigateWebAccess"}
                     \cup (IF s.run = NoProgram THEN {"EditDeviceName"}
                           ELSE {})
                     \cup {IF s.service THEN "NavigateService"
                           ELSE "NavigatePin"}}
      [] Top(w) = "HeaderLanguage" -> {Act("SetDisplayLanguage")}
      [] Top(w) = "Messages" ->
           IF s.message THEN {Act("SelectMessage")} ELSE {}
      [] OTHER -> {}

Headers == {"NavigateLanguage", "NavigateNetwork", "NavigateClock"}

IsPageExitAction(action) ==
    action \in {"NavigateBack", "NavigateHome", "FactoryResetCancel",
                "FactoryResetDismiss"}

\* A dirty program editor and the completion page are not left by a page
\* exit or through the header.
ExitAllowed(w) ==
    Top(w) # "Completion" /\ ~(Top(w) = "ProgramEdit" /\ w.dirty)

Touchable(w, s, cat) ==
    LET slots == Slots(w, s, cat) IN
    {Act(slots[i]) : i \in {j \in 1..4 :
        /\ slots[j] # "None"
        /\ IsPageExitAction(slots[j]) => ExitAllowed(w)}}
    \cup ContentCells(w, s, cat)
    \cup (IF ExitAllowed(w) THEN {Act(h) : h \in Headers} ELSE {})

-----------------------------------------------------------------------------
(* What a press does to the workspace and which request it sends *)

Request(kind) == [kind |-> kind, op |-> "none", of |-> NoProgram,
                  body |-> "none"]
Pressed(w, r) == {[ws |-> w, request |-> r]}
Moved(w) == Pressed(w, Request("none"))

\* Entering or leaving the PIN page drops a partial entry.
Push(w, page) ==
    IF page = Top(w) THEN w
    ELSE [w EXCEPT !.stack = Append(@, page),
                   !.pin = IF "Pin" \in {page, Top(w)} THEN 0 ELSE @]

\* Back drops the editor's candidate (and name) when it leaves the editor; only
\* the value and keyboard pages keep the dirty mark.
GoBack(w) ==
    IF Len(w.stack) <= 1 THEN w
    ELSE LET left == Top(w)
             back == [w EXCEPT !.stack = Front(@),
                               !.pin = IF left = "Pin" THEN 0 ELSE @]
         IN IF left \in {"ValueEdit", "TextEdit"}
            THEN [back EXCEPT !.input = "bad", !.text = "none",
                              !.valued = "none"]
            ELSE [back EXCEPT
                    !.dirty = FALSE,
                    !.edit = IF left = "ProgramEdit" THEN "none" ELSE @]

NavigateHome(w) == [w EXCEPT !.stack = <<"Home">>, !.input = "bad",
                             !.text = "none", !.valued = "none"]

Destination ==
    [NavigateProgramList |-> "ProgramList",
     NavigateProgramManagement |-> "ProgramList",
     NavigateProgramActions |-> "ProgramActions",
     NavigateProgramDeleteFinalConfirmation |->
         "ProgramDeleteFinalConfirmation",
     NavigateManualModeSelection |-> "ManualModeSelection",
     NavigateManualHolding |-> "ManualHolding",
     NavigateManualTimed |-> "ManualTimed", NavigateProcess |-> "Process",
     NavigateStopDialog |-> "StopDialog", NavigateTechnical |-> "Technical",
     NavigateMessages |-> "Messages",
     NavigateMessageDetail |-> "MessageDetail",
     NavigateCompletion |-> "Completion", NavigateStatus |-> "Status",
     NavigateDiagnostics |-> "Diagnostics", NavigateService |-> "Service",
     NavigatePin |-> "Pin", NavigateRecovery |-> "Recovery",
     NavigateLanguage |-> "HeaderLanguage",
     NavigateNetwork |-> "HeaderNetwork", NavigateClock |-> "HeaderClock",
     NavigateWebAccess |-> "HeaderWebAccess",
     NavigateSettings |-> "Settings"]

\* The message page of a waiting run opens the message to be decided on.
Navigate(w, s, action) ==
    Push([w EXCEPT
            !.intent = CASE action = "NavigateProgramList" -> "Start"
                         [] action = "NavigateProgramManagement" -> "Manage"
                         [] OTHER -> @,
            !.msg = \/ @
                    \/ /\ action = "NavigateMessageDetail"
                       /\ Top(w) # "Messages"
                       /\ s.message],
         Destination[action])

\* The canonical stack below the page that shows a selected program.
CanonicalPageStack(page) == <<"Home", "ProgramList", page>>

SelectProgram(w, cat, p) ==
    [w EXCEPT !.sel = p, !.cand = IF Startable(cat, p) THEN "stored" ELSE "none",
              !.op = "Edit", !.edit = "none",
              !.stack = CanonicalPageStack(
                  IF w.intent = "Manage" THEN "ProgramActions"
                  ELSE "ProgramSummary")]

BeginProgramEdit(w, action) ==
    LET edit == Push(w, "ProgramEdit") IN
    CASE action = "BeginProgramEdit" -> [edit EXCEPT !.op = "Edit"]
      [] action = "CopyProgram" -> [edit EXCEPT !.op = "Copy", !.edit = "none"]
      [] action = "NewProgram" ->
             [edit EXCEPT !.op = "New", !.edit = "none", !.sel = NoProgram,
                          !.cand = "none"]

\* Reset and the second confirmation of a removal send their request; on the
\* editor the removal only opens its first confirmation page.
RemoveOrReset(w, action) ==
    LET op == CASE action = "ResetProgram" -> "Reset"
                [] action = "UninstallProgram" -> "Uninstall"
                [] action = "DeleteProgram" -> "Delete"
        edit == [kind |-> "programEdit", op |-> op, of |-> w.sel,
                 body |-> "none"]
    IN CASE action = "ResetProgram" -> Pressed(w, edit)
         [] action # "ResetProgram" /\ Top(w) = "ProgramEdit" ->
                Moved([Push(w, "ProgramDeleteConfirmation") EXCEPT !.op = op])
         [] OTHER -> Pressed(w, edit)

\* Save sends whatever operation the editor holds, already confirmed.
SaveProgram(w) ==
    Pressed(w, [kind |-> "programEdit", op |-> w.op, of |-> w.sel,
                body |-> w.edit])

\* A row of the program editor: the candidate starts as the stored document.
ProgramEditCell(w, cat, action) ==
    LET body == IF w.edit = "none" THEN cat[w.sel].body ELSE w.edit
        began == IF w.op = "Edit" THEN [w EXCEPT !.edit = body] ELSE w
    IN CASE action = "EditText" ->
              Moved([began EXCEPT !.stack = Append(@, "TextEdit"),
                                  !.text = "Program",
                                  !.input = IF w.op = "Edit" THEN "ok"
                                            ELSE "bad"])
         [] action = "EditNumber" ->
              Moved([began EXCEPT !.stack = Append(@, "ValueEdit"),
                                  !.valued = "program", !.input = "ok"])
         [] action = "CycleProgramField" ->
              UNION {Moved([began EXCEPT !.edit = b, !.dirty = TRUE]) :
                     b \in {"edited", "bad"}}

\* A row of the start summary or of a manual page.
StartValueCell(w, action) ==
    IF action = "CycleStartField"
    THEN UNION {Moved([w EXCEPT !.cand = c]) : c \in {"stored", "changed", "bad"}}
    ELSE Moved([w EXCEPT !.stack = Append(@, "ValueEdit"), !.input = "ok",
                         !.valued = IF action = "EditStartValue" THEN "start"
                                    ELSE "manual"])

CommitValueEdit(w) ==
    LET taken == CASE w.valued = "program" /\ w.edit # "none" ->
                        {[w EXCEPT !.edit = "edited", !.dirty = TRUE]}
                   [] w.valued = "start" ->
                        {[w EXCEPT !.cand = c] : c \in {"stored", "changed"}}
                   [] OTHER -> {w}
    IN UNION {Moved(GoBack(t)) : t \in taken}

CommitTextEdit(w) ==
    CASE w.text = "DeviceName" ->
           Pressed(GoBack(w), Request("setDeviceName"))
      [] w.text = "Program" /\ w.op # "Edit" ->
           Moved(GoBack([w EXCEPT !.dirty = TRUE]))
      [] OTHER ->
           Moved(GoBack([w EXCEPT !.dirty = TRUE,
                                  !.edit = IF @ = "shipped" THEN "edited" ELSE @]))

\* A key, backspace or clear of the number and text pages.
EditInput(w) == UNION {Moved([w EXCEPT !.input = i]) : i \in {"ok", "bad"}}

PinPadCell(w, action) ==
    Moved([w EXCEPT !.pin = CASE action = "PinDigit" -> @ + 1
                              [] action = "PinBackspace" -> @ - 1
                              [] action = "PinClear" -> 0])

FactoryResetPress(w, action) ==
    CASE action \in {"FactoryResetBegin", "FactoryResetBeginPinProtected"} ->
           Pressed(Push(w, "FactoryReset"), Request(action))
      [] action = "FactoryResetCancel" -> Pressed(GoBack(w), Request(action))
      [] action = "FactoryResetDismiss" ->
           Pressed(NavigateHome(w), Request(action))
      [] action = "FactoryResetAcknowledge" -> Pressed(w, Request(action))

RunActions == {"StartProgram", "StopTurnOff", "Complete", "ResumeFallback",
               "AcknowledgeMessage", "MuteMessage", "ResetFault",
               "ProductInsertedConfirmed"}

PressImpl(w, s, cat, a) ==
    CASE a.action \in DOMAIN Destination -> Moved(Navigate(w, s, a.action))
      [] a.action \in {"NavigateBack", "ValueEditCancel", "TextEditCancel",
                       "DiscardProgramEdit"} -> Moved(GoBack(w))
      [] a.action = "SelectProgram" -> Moved(SelectProgram(w, cat, a.of))
      [] a.action = "SelectMessage" ->
           Moved(Push([w EXCEPT !.msg = TRUE], "MessageDetail"))
      [] a.action \in {"BeginProgramEdit", "CopyProgram", "NewProgram"} ->
           Moved(BeginProgramEdit(w, a.action))
      [] a.action \in {"ResetProgram", "UninstallProgram", "DeleteProgram"} ->
           RemoveOrReset(w, a.action)
      [] a.action = "SaveProgram" -> SaveProgram(w)
      [] a.action \in {"EditText", "EditNumber", "CycleProgramField"} ->
           ProgramEditCell(w, cat, a.action)
      [] a.action \in {"EditStartValue", "CycleStartField",
                       "EditManualValue"} -> StartValueCell(w, a.action)
      [] a.action = "ResetStartValues" -> Moved([w EXCEPT !.cand = "stored"])
      [] a.action = "ValueEditCommit" -> CommitValueEdit(w)
      [] a.action = "TextEditCommit" -> CommitTextEdit(w)
      [] a.action = "EditDeviceName" ->
           Moved([w EXCEPT !.stack = Append(@, "TextEdit"),
                           !.text = "DeviceName", !.input = "ok"])
      [] a.action \in {"Key", "ValueEditBackspace", "ValueEditClear",
                       "TextEditBackspace"} -> EditInput(w)
      [] a.action \in {"PinDigit", "PinBackspace", "PinClear"} ->
           PinPadCell(w, a.action)
      [] a.action = "ServicePinCommit" ->
           Pressed([w EXCEPT !.pin = 0], Request("verifyServicePin"))
      [] a.action = "ServiceSignOut" -> Pressed(w, Request("endServiceSession"))
      [] a.action \in {"FactoryResetBegin", "FactoryResetBeginPinProtected",
                       "FactoryResetCancel", "FactoryResetDismiss",
                       "FactoryResetAcknowledge"} ->
           FactoryResetPress(w, a.action)
      [] a.action \in RunActions -> Pressed(w, Request(a.action))
      [] a.action \in {"SetDisplayLanguage", "NetworkRequest"} ->
           Pressed(w, Request(a.action))
      [] a.action = "TextEditMode" -> Moved(w)

\* Leaving the factory reset page in any way ends the flow.
Press(w, s, cat, a) ==
    {IF /\ Top(w) = "FactoryReset"
        /\ Top(e.ws) # "FactoryReset"
        /\ e.request.kind = "none"
     THEN [e EXCEPT !.request = Request(IF s.stage = "Finished"
                                        THEN "FactoryResetDismiss"
                                        ELSE "FactoryResetCancel")]
     ELSE e : e \in PressImpl(w, s, cat, a)}

\* A selection, a candidate and an operation are dead once no page of the
\* stack shows them: every way back to those pages sets them anew.
Settled(w) ==
    LET shown == Range(w.stack)
        program == shown \cap {"ProgramSummary", "ProgramActions",
                               "ProgramEdit"} # {}
        summary == "ProgramSummary" \in shown
        editor == "ProgramEdit" \in shown
    IN [w EXCEPT !.sel = IF program THEN @ ELSE NoProgram,
                 !.cand = IF summary THEN @ ELSE "none",
                 !.op = IF editor THEN @ ELSE "Edit",
                 !.edit = IF editor THEN @ ELSE "none",
                 !.intent = IF "ProgramList" \in shown THEN @ ELSE "Start"]

-----------------------------------------------------------------------------
(* How the application answers a request *)

\* The application is ready for a run command and its safety evidence allows
\* a start (the evidence itself may be missing at any time).
ApplicationReadiness(a) == a.life = "Ready" /\ a.proc \notin {"NoRuntime",
    "SafeBoot"}

\* A start names the program the user saw: installed and runnable.
StartAccepted(a, w) ==
    /\ ApplicationReadiness(a) /\ a.proc = "Standby"
    /\ Startable(a.cat, w.sel)

EndRun(a) == [a EXCEPT !.proc = "Standby", !.run = NoProgram]

\* The states a confirmed run command may leave; a command whose revisions
\* are not those of the snapshot, or whose write fails, changes nothing.
RunRequest(a, w, kind) ==
    {a} \cup
    IF "run" \in stale THEN {}
    ELSE
    CASE kind = "StartProgram" /\ StartAccepted(a, w) ->
           {[a EXCEPT !.proc = "Running", !.run = w.sel]}
      [] kind = "StopTurnOff" /\ a.proc \in {"Running", "WaitingForProduct"} ->
           {EndRun(a)}
      [] kind = "Complete" /\ a.proc = "Completed" -> {EndRun(a)}
      [] kind = "ProductInsertedConfirmed" /\ a.proc = "WaitingForProduct" ->
           {[a EXCEPT !.proc = "Running"]}
      [] kind = "ResumeFallback" /\ a.proc = "Fallback" ->
           {[a EXCEPT !.proc = "Running", !.run = p] : p \in FactoryPrograms}
      [] OTHER -> {}

IsInUse(a, p) == a.run = p

\* Mutant: the newer operation is forgotten.
MutatesButUninstall(op) == op \in {"Edit", "Reset", "Delete"}

MutatesAddressedProgram(op) == op \in {"Edit", "Reset", "Delete", "Uninstall"}

FreeUserIds(cat) == {p \in UserPrograms : ~cat[p].there}

\* The catalogs an accepted edit leaves (none: the edit is refused).
ApplyProgramEdit(a, r) ==
    LET there == r.of # NoProgram /\ a.cat[r.of].there
        create(body) ==
            IF FreeUserIds(a.cat) = {} THEN {}
            ELSE {[a.cat EXCEPT ![CHOOSE p \in FreeUserIds(a.cat) : TRUE] =
                    [there |-> TRUE, installed |-> TRUE, body |-> body]]}
    IN CASE r.op = "New" ->
              create(IF r.body = "none" THEN "draft" ELSE r.body)
         [] r.op = "Copy" /\ there -> create(a.cat[r.of].body)
         [] r.op = "Reset" /\ there /\ r.of \in FactoryPrograms ->
              {[a.cat EXCEPT ![r.of] = Shipped]}
         [] r.op = "Uninstall" /\ there /\ r.of \in FactoryPrograms ->
              {[a.cat EXCEPT ![r.of].installed = FALSE]}
         [] r.op = "Delete" /\ there /\ r.of \in UserPrograms ->
              {[a.cat EXCEPT ![r.of] = NoDocument]}
         [] r.op = "Edit" /\ there /\ r.body \in Bodies ->
              {[a.cat EXCEPT ![r.of].body = r.body]}
         [] OTHER -> {}

\* The running program is not changed, and both revisions must be the ones
\* the user saw; without a run state nothing is decided.
ProgramEditRequest(a, r) ==
    IF \/ a.proc = "NoRuntime"
       \/ "config" \in stale
       \/ MutatesAddressedProgram(r.op) /\ IsInUse(a, r.of)
    THEN {}
    ELSE ApplyProgramEdit(a, r)

\* An accepted edit makes the editor clean and drops its candidate.
NoteProgramEditOutcome(w, accepted) ==
    IF accepted THEN [w EXCEPT !.dirty = FALSE, !.edit = "none"]
    ELSE w

\* An authorised PIN returns to the service page it was opened from, or puts
\* the service page in its place.
NoteServicePinAuthorized(w) ==
    CASE Top(w) # "Pin" -> w
      [] Top(w) = "Pin" /\ Len(w.stack) >= 2
         /\ w.stack[Len(w.stack) - 1] = "Service" -> GoBack(w)
      [] OTHER -> [w EXCEPT !.stack = Append(Front(@), "Service"), !.pin = 0]

BeginFactoryReset(a, f, kind) ==
    CASE ~FactoryResetAvailable(a) -> f
      [] FactoryResetAvailable(a) /\ kind = "PinIndependent" -> Begin(f, kind)
      [] OTHER -> IF LocalServiceAvailable(a) THEN PinVerified(Begin(f, kind))
                  ELSE f

AcknowledgeFactoryReset(a, f) ==
    IF PinProtectedFlowLeaseLost(a, f) THEN IdleFlow ELSE Acknowledge(f)

FactoryResetStep(a, f, kind) ==
    CASE kind = "FactoryResetBegin" -> BeginFactoryReset(a, f, "PinIndependent")
      [] kind = "FactoryResetBeginPinProtected" ->
             BeginFactoryReset(a, f, "PinProtected")
      [] kind = "FactoryResetAcknowledge" -> AcknowledgeFactoryReset(a, f)
      [] kind = "FactoryResetCancel" -> Cancel(f)
      [] kind = "FactoryResetDismiss" -> Dismiss(f)

ResetKinds == {"FactoryResetBegin", "FactoryResetBeginPinProtected",
               "FactoryResetAcknowledge", "FactoryResetCancel",
               "FactoryResetDismiss"}

-----------------------------------------------------------------------------
(* The steps of the main task *)

EndStep ==
    /\ ui' = "idle"
    /\ snap' = NoSnap
    /\ stale' = {}

\* Leaving the validated standby ends the lease; noticed once per round.
Update(a) ==
    IF LocalServiceEntryAllowed(a) THEN a ELSE [a EXCEPT !.lease = FALSE]

UpdatedFlow(a, f) ==
    IF LocalServiceEntryAllowed(a) THEN f ELSE CancelPinProtectedFlow(f)

BeginStep ==
    /\ ui = "idle"
    /\ ui' = "ready"
    /\ app' = Update(app)
    /\ flow' = UpdatedFlow(app, flow)
    /\ snap' = Snapshot(app', flow')
    /\ UNCHANGED <<ws, gate, stale, watched>>

\* Mutant: the skipped step leaves the contact gate as it was.
SkipStepUngated ==
    /\ ui = "idle" /\ flow.stage \in {"Confirm", "Hold"}
    /\ app' = Update(app)
    /\ flow' = UpdatedFlow(app, flow)
    /\ watched' = [watched EXCEPT !.grip = -1]
    /\ EndStep
    /\ UNCHANGED <<ws, gate>>

\* Too little memory: the panel is not sampled, the hold is released and
\* stays inhibited until a release and a new contact were sampled.  Explored
\* where a hold is near: elsewhere it only delays the next one.
SkipStep ==
    /\ ui = "idle" /\ flow.stage \in {"Confirm", "Hold"}
    /\ gate' = "AwaitRelease"
    /\ app' = Update(app)
    /\ flow' = HoldReport(app', UpdatedFlow(app, flow), FALSE)
    /\ watched' = [watched EXCEPT !.grip = -1]
    /\ EndStep
    /\ UNCHANGED ws

\* No contact.  The sample is a physical release or it is missing.
NoContact(released) ==
    /\ ui = "ready"
    /\ flow' = IF snap.stage = "Hold" THEN HoldReport(app, flow, FALSE) ELSE flow
    /\ gate' = IF gate = "AwaitRelease" /\ released THEN "AwaitContact" ELSE gate
    /\ watched' = [watched EXCEPT !.grip = IF @ < 0 /\ ~released THEN @ ELSE 0]
    /\ EndStep
    /\ UNCHANGED <<ws, app>>

ObserveContact == IF gate = "AwaitContact" THEN "Allowed" ELSE gate

\* What the core leaves when it was reached: before the epoch boundary
\* nothing has changed, behind it the catalog is the factory catalog and the
\* local service lease is over.  Without a runtime the admission is used up
\* and the device stays out of operation until it is restarted.
ResetOutcomes(a) ==
    LET kept == [a EXCEPT !.admitted = FALSE]
        crossed == [a EXCEPT !.admitted = FALSE, !.lease = FALSE,
                             !.cat = FactoryCatalog]
    IN {[crossed EXCEPT !.proc = "Standby", !.message = FALSE,
                        !.life = IF a.proc = "NoRuntime" THEN "ServiceRequired"
                                 ELSE "Ready"],
        [crossed EXCEPT !.life = "ServiceRequired"],
        kept}

\* The preconditions, once more when the hold was long enough.
ResetRejected(a, f) ==
    \/ ~FactoryResetAvailable(a)
    \/ f.kind = "PinProtected" /\ ~LocalServiceAvailable(a)

\* The contact stays on the hold target.  When it lasted long enough the
\* preconditions are checked again and the core runs under the same lock.
HoldContact ==
    LET allowed == ObserveContact = "Allowed"
        held == HoldReport(app, flow, allowed)
        fires == held.stage = "Executing" /\ flow.stage = "Hold"
        rejected == ResetRejected(app, held)
    IN /\ ui = "ready" /\ snap.stage = "Hold" /\ Top(ws) = "FactoryReset"
       /\ gate' = ObserveContact
       /\ watched' = [watched EXCEPT
                     !.grip = IF @ < 0 \/ @ >= HoldTicks THEN @ ELSE @ + 1]
       /\ \/ /\ ~fires
             /\ flow' = held
             /\ EndStep
             /\ UNCHANGED app
          \/ /\ fires /\ rejected
             /\ flow' = Finish(held)
             /\ EndStep
             /\ UNCHANGED app
          \/ /\ fires /\ ~rejected
             /\ flow' = held
             /\ app' \in ResetOutcomes(app)
             /\ ui' = "core"
             /\ UNCHANGED <<snap, stale>>
       /\ UNCHANGED ws

\* Network and HTTP were ended outside the lock; the outcome is shown.
FinishReset ==
    /\ ui = "core"
    /\ flow' = Finish(flow)
    /\ EndStep
    /\ UNCHANGED <<ws, app, gate, watched>>

WithinBounds(w) ==
    /\ Len(w.stack) <= MaxDepth
    /\ Range(w.stack) \subseteq Pages
    /\ Cardinality(Range(w.stack)) = Len(w.stack)

Acknowledged(r) ==
    CASE r.kind \in {"FactoryResetBegin", "FactoryResetBeginPinProtected",
                     "FactoryResetCancel", "FactoryResetDismiss"} -> 0
      [] r.kind = "FactoryResetAcknowledge" /\ watched.acks < 2 -> watched.acks + 1
      [] OTHER -> watched.acks

\* The request of a press goes to its owner, and the outcome is noted.
Dispatch(r, w, released) ==
    \/ /\ r.kind \notin RunActions \cup ResetKinds
                        \cup {"programEdit", "verifyServicePin",
                              "endServiceSession"}
       /\ ws' = w
       /\ flow' = released
       /\ EndStep
       /\ UNCHANGED app
    \/ /\ r.kind \in RunActions
       /\ app' \in RunRequest(app, ws, r.kind)
       /\ ws' = w
       /\ flow' = released
       /\ EndStep
    \/ /\ r.kind \in ResetKinds
       /\ flow' = FactoryResetStep(app, released, r.kind)
       /\ ws' = w
       /\ EndStep
       /\ UNCHANGED app
    \/ /\ r.kind = "programEdit" /\ app.edits < MaxEdits
       /\ \/ /\ \E cat \in ProgramEditRequest(app, r) :
                  app' = [app EXCEPT !.cat = cat, !.edits = @ + 1]
             /\ ws' = Settled(NoteProgramEditOutcome(w, TRUE))
          \/ ws' = w /\ UNCHANGED app   \* refused, or not written
       /\ flow' = released
       /\ EndStep
    \/ /\ r.kind = "endServiceSession"
       /\ app' = [app EXCEPT !.lease = FALSE]
       /\ flow' = CancelPinProtectedFlow(released)
       /\ ws' = w
       /\ EndStep
    \/ /\ r.kind = "verifyServicePin"
       /\ ws' = w
       /\ flow' = released
       /\ IF LocalServiceEntryAllowed(app)
          THEN ui' = "kdf" /\ UNCHANGED <<snap, stale>>
          ELSE EndStep
       /\ UNCHANGED app

\* A new contact on a target: the press changes the workspace and releases a
\* hold, then its request is dispatched, all in this step.  A press on the
\* hold target is HoldContact.
Touch(a) ==
    /\ ui = "ready"
    /\ a.action # "FactoryResetHold"
    /\ a \in Touchable(ws, snap, app.cat)
    /\ \E e \in Press(ws, snap, app.cat, a) :
         /\ WithinBounds(e.ws)
         /\ gate' = ObserveContact
         /\ Dispatch(e.request, Settled(e.ws),
                     IF snap.stage = "Hold" THEN HoldReport(app, flow, FALSE)
                     ELSE flow)
         /\ watched' = [watched EXCEPT !.acks = IF flow'.stage = "Idle" THEN 0
                                          ELSE Acknowledged(e.request),
                                 !.grip = IF @ < 0 THEN @ ELSE 0]

\* The slow check of the PIN is over.  The lease is granted only if the entry
\* state still holds; a new grant ends a flow begun under an earlier lease.
PinChecked(accepted) ==
    /\ ui = "kdf"
    /\ IF accepted /\ LocalServiceEntryAllowed(app)
       THEN /\ app' = [app EXCEPT !.lease = TRUE]
            /\ flow' = CancelPinProtectedFlow(flow)
            /\ ws' = NoteServicePinAuthorized(ws)
       ELSE UNCHANGED <<app, flow, ws>>
    /\ EndStep
    /\ UNCHANGED <<gate, watched>>

-----------------------------------------------------------------------------
(* Everyone else: the browser, the running process, the clock *)

World(change, next) ==
    /\ app.world < MaxWorld
    /\ app' = [next EXCEPT !.world = @ + 1]
    /\ stale' = IF ui = "idle" THEN {} ELSE stale \cup {change}
    /\ UNCHANGED <<ws, flow, gate, ui, snap, watched>>

WebStart ==
    \E p \in Programs :
        /\ ApplicationReadiness(app) /\ app.proc = "Standby"
        /\ Startable(app.cat, p)
        /\ World("run", [app EXCEPT !.proc = "Running", !.run = p])

WebStop ==
    /\ app.proc \in {"Running", "WaitingForProduct", "Completed"}
    /\ World("run", EndRun(app))

ProcessMoves ==
    /\ app.proc \in {"Running", "RecoveryEvaluation"}
    /\ \E proc \in {"WaitingForProduct", "Completed", "Fault"} :
         World("run", [app EXCEPT !.proc = proc])

MessageChanges == World("run", [app EXCEPT !.message = ~@])

\* A change of the settings is noticed only against a snapshot.
WebConfiguration == ui = "ready" /\ World("config", app)

LeaseExpires ==
    /\ app.lease
    /\ World("lease", [app EXCEPT !.lease = FALSE])

-----------------------------------------------------------------------------
(* The specification *)

PanelInit ==
    /\ ws = [stack |-> <<"Home">>, intent |-> "Start", sel |-> NoProgram,
             cand |-> "none", op |-> "Edit", edit |-> "none",
             dirty |-> FALSE, text |-> "none", valued |-> "none",
             input |-> "bad", pin |-> 0, msg |-> FALSE]
    /\ \E b \in Boots, cat \in [Programs -> {NoDocument, Shipped}] :
         /\ \A p \in FactoryPrograms : cat[p] = Shipped
         /\ app = [life |-> b[1], proc |-> b[2], run |-> b[3], cat |-> cat,
                   lease |-> FALSE, admitted |-> b[2] = "NoRuntime",
                   message |-> FALSE, edits |-> 0, world |-> 0]
    /\ flow = IdleFlow
    /\ gate = "Allowed"
    /\ ui = "idle"
    /\ snap = NoSnap
    /\ stale = {}
    /\ watched = [acks |-> 0, grip |-> 0]

PanelNext ==
    \/ BeginStep
    \/ SkipStep
    \/ \E released \in BOOLEAN : NoContact(released)
    \/ HoldContact
    \/ FinishReset
    \/ \E a \in Touchable(ws, snap, app.cat) : Touch(a)
    \/ \E accepted \in BOOLEAN : PinChecked(accepted)
    \/ WebStart \/ WebStop \/ ProcessMoves \/ MessageChanges
    \/ WebConfiguration \/ LeaseExpires

PanelSpec == PanelInit /\ [][PanelNext]_panelVars

-----------------------------------------------------------------------------
(* Correctness *)

\* The core of the factory reset runs only after both acknowledgements of
\* this flow and an unbroken contact of the full length, never over a step
\* that was skipped for lack of memory, never during a run, and in its
\* PIN-protected form only under a live service lease
\* (updateFactoryResetHold, UiResetHoldContactGate).
ResetDeliberate ==
    [][ui # "core" /\ ui' = "core" =>
          /\ app.run = NoProgram
          /\ watched.acks = 2
          /\ watched.grip >= HoldTicks
          /\ flow.kind = "PinProtected" => LocalServiceAvailable(app)]_panelVars

\* The program of the active run keeps its catalog entry, although the run
\* may start in the browser while the program is open in the editor
\* (applyProgramEditPreview, usage evidence).
RunningProgramKept ==
    [][app.run # NoProgram /\ app'.run = app.run =>
          app'.cat[app.run] = app.cat[app.run]]_panelVars

\* A program leaves the list only through the second confirmation page or a
\* factory reset: docs/LOCAL_UI_PROGRAMS.md:197, "Das Loeschen jedes Programms
\* erfordert eine zweistufige Bestaetigung."
DeleteConfirmed ==
    [][Listed(app.cat) \ Listed(app'.cat) # {} =>
          \/ Top(ws) = "ProgramDeleteFinalConfirmation"
          \/ ui' = "core"]_panelVars

=============================================================================

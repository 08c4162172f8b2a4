------------------------------ MODULE ConnMenu ------------------------------
(***************************************************************************)
(* The boot menu from power-on until something has been started for good:  *)
(* the loop of efi_main that shows it (boot/main.c) and ConnRunMainMenu    *)
(* (ui/conn_bridge.c), which feeds keys, pointer and timer to the model of *)
(* ConnUi until something is to be started, edited or scanned again.       *)
(* Nothing of it outlives the machine's power.                             *)
(*                                                                         *)
(* An entry is its row.  Which row is the default is the subject of        *)
(* PreviousBoot; here it may be any.  T, which cycles the theme, and the   *)
(* timer of the globe only draw.                                           *)
(***************************************************************************)
EXTENDS ConnUi

CONSTANTS
    MaxEntries,      \* CONN_MAX_ENTRIES
    Counts,          \* numbers of entries a scan may come to
    Timeouts,        \* values of "timeout" in config.conf
    Savers,          \* values of "screensaver"
    DirectSaver      \* the screen saver time of a direct boot, 300

ASSUME ConnMenuAssumption ==
    /\ MaxEntries \in Nat \ {0}
    /\ Counts \subseteq Nat
    /\ Timeouts \subseteq Int
    /\ Savers \subseteq Int
    /\ DirectSaver \in Nat \ {0}

Rows == 0..(MaxEntries - 1)

VARIABLES
    pc,            \* "loop", "menu", "options", "return" or "gone"
    config,        \* what config.conf says: timeout and screensaver
    gop,           \* HaveGop: there are pixels, and with them a pointer
    count,         \* MainMenu->EntryCount
    timeout,       \* MainMenu->TimeoutSeconds
    direct,        \* GlobalConfig.DirectBoot
    screensaver,   \* GlobalConfig.ScreensaverTime
    timer,         \* TimerRunning
    ui,            \* Model.ui
    def,           \* List->default_index
    hovered,       \* LastPtrRow
    exit,          \* MenuExit
    chosen,        \* ChosenEntry
    seen           \* history, see Fresh

machine == <<config, gop>>
main == <<count, timeout, direct, screensaver>>
result == <<exit, chosen>>
vars == <<pc, config, gop, count, timeout, direct, screensaver,
          timer, ui, def, hovered, exit, chosen, seen>>

(***************************************************************************)
(* What the properties remember and the code does not:                     *)
(*   quiet     seconds since the last input that counts as activity        *)
(*   touched   this call of ConnRunMainMenu has had an input that stops    *)
(*             the countdown                                               *)
(*   returned  something the user started has come back since the machine  *)
(*             was switched on                                             *)
(*   expired   a countdown has run out since then                          *)
(***************************************************************************)
Fresh == [quiet |-> 0, touched |-> FALSE, returned |-> FALSE, expired |-> FALSE]

Touch(s) == [s EXCEPT !.quiet = 0, !.touched = TRUE]

TypeOK ==
    /\ pc \in {"loop", "menu", "options", "return", "gone"}
    /\ config \in [timeout: Timeouts, screensaver: Savers]
    /\ gop \in BOOLEAN
    /\ count \in Counts
    /\ timeout \in Timeouts \cup {0}
    /\ direct \in BOOLEAN
    /\ screensaver \in Savers \cup {DirectSaver}
    /\ timer \in BOOLEAN
    /\ ui \in Uis(Rows, Nat)
    /\ def \in Rows
    /\ hovered \in Rows \cup {-1}
    /\ exit \in {"none", "escape", "enter", "timeout"}
    /\ chosen \in Nat
    /\ seen \in [quiet: 0..MaxIdle, touched: BOOLEAN, returned: BOOLEAN, expired: BOOLEAN]

(***************************************************************************)
(* efi_main up to its loop.  A timeout below zero asks for a direct boot,  *)
(* which a warning, or Esc pressed early, takes back.                      *)
(***************************************************************************)
Init ==
    /\ pc = "loop"
    /\ config \in [timeout: Timeouts, screensaver: Savers]
    /\ gop \in BOOLEAN
    /\ count \in Counts
    /\ direct \in {d \in BOOLEAN : d => config.timeout < 0}
    /\ timeout \in {config.timeout} \cup {t \in {0} : config.timeout < 0 /\ ~direct}
    /\ screensaver = IF config.timeout < 0 /\ config.screensaver # 0
                     THEN DirectSaver ELSE config.screensaver
    /\ timer = FALSE
    /\ ui = Opened(0, 0, 0)
    /\ def = 0
    /\ hovered = -1
    /\ exit = "none"
    /\ chosen = 0
    /\ seen = Fresh

-----------------------------------------------------------------------------
\* ConnConfiguredScreensaverSeconds
SaverSeconds ==
    IF screensaver < 0 THEN 1
    ELSE IF screensaver > MaxIdle THEN MaxIdle ELSE screensaver

\* With a negative screensaver and no countdown the menu opens asleep.
OpensAsleep == screensaver < 0 /\ timeout <= 0

(***************************************************************************)
(* ConnRunMainMenu up to its wait loop.  Without a timer nothing is        *)
(* counted, and the countdown is called off.                               *)
(***************************************************************************)
Present ==
    /\ pc = "loop"
    /\ count \in 1..MaxEntries
    /\ \E d \in 0..(count - 1), running \in BOOLEAN :
         LET opened == Opened(d, timeout, SaverSeconds)
             shown == IF OpensAsleep THEN OnTick(opened, d) ELSE opened
         IN  /\ ui' = IF running THEN shown ELSE [shown EXCEPT !.autoboot = FALSE]
             /\ def' = d
             /\ timer' = running
    /\ hovered' = -1
    /\ pc' = "menu"
    /\ exit' = "escape"
    /\ seen' = [seen EXCEPT !.quiet = IF OpensAsleep THEN 1 ELSE 0, !.touched = FALSE]
    /\ UNCHANGED <<machine, main, chosen>>

(***************************************************************************)
(* No console, too many entries or no memory: the default is started as if *)
(* a countdown had run out.                                                *)
(***************************************************************************)
CannotPresent ==
    /\ pc = "loop"
    /\ count > 0
    /\ chosen' \in 0..(count - 1)
    /\ exit' = "timeout"
    /\ pc' = "return"
    /\ UNCHANGED <<machine, main, timer, ui, def, hovered, seen>>

NothingToPresent ==
    /\ pc = "loop"
    /\ count = 0
    /\ exit' = "escape"
    /\ pc' = "return"
    /\ UNCHANGED <<machine, main, timer, ui, def, hovered, chosen, seen>>

-----------------------------------------------------------------------------
(***************************************************************************)
(* The wait loop.  Launch is what follows it when a row is to be started;  *)
(* TypeOK has the selected row on the list, as the code asks there.        *)
(***************************************************************************)
\* Mutant: the timeout is kept for the next time the menu is shown.
Launch_KeepsTimeout(why) ==
    /\ pc' = "return"
    /\ exit' = why
    /\ chosen' = ui'.selected
    /\ UNCHANGED timeout
Launch(why) ==
    /\ pc' = "return"
    /\ exit' = why
    /\ chosen' = ui'.selected
    /\ timeout' = 0

Stay == UNCHANGED <<pc, exit, chosen, timeout>>

InMenu == pc = "menu" /\ UNCHANGED <<machine, count, direct, screensaver, timer, def>>

\* A key the model hears of; in the saver that is any key, as "other".
Key ==
    /\ InMenu
    /\ \E key \in Keys, digit \in 1..9 :
         LET heard == IF InSaver(ui) THEN "other" ELSE key
         IN  /\ ui' = OnKey(ui, heard, digit, count)
             /\ \/ ~KeyLaunches(ui, heard) /\ Stay
                \/ KeyLaunches(ui, heard) /\ Launch("enter")
    /\ seen' = Touch(seen)
    /\ UNCHANGED hovered

\* Mutant: Esc is looked at before the saver.
Escape_InSaver ==
    /\ InMenu
    /\ pc' = "return"
    /\ exit' = "escape"
    /\ seen' = [seen EXCEPT !.quiet = 0]
    /\ UNCHANGED <<timeout, ui, hovered, chosen>>
\* Esc and Backspace: scan again.
Escape ==
    /\ InMenu
    /\ ~InSaver(ui)
    /\ pc' = "return"
    /\ exit' = "escape"
    /\ seen' = [seen EXCEPT !.quiet = 0]
    /\ UNCHANGED <<timeout, ui, hovered, chosen>>

\* Left, Right and the wheel scroll the system panel.
Scroll ==
    /\ InMenu
    /\ ~InSaver(ui)
    /\ ui' = [ui EXCEPT !.idle_s = 0]
    /\ seen' = [seen EXCEPT !.quiet = 0]
    /\ Stay
    /\ UNCHANGED hovered

\* N brings the network up; the model is changed behind its machine's back.
NetworkKey ==
    /\ InMenu
    /\ ~InSaver(ui)
    /\ ui' = [ui EXCEPT !.autoboot = FALSE, !.cancelled = TRUE, !.idle_s = 0]
    /\ seen' = Touch(seen)
    /\ Stay
    /\ UNCHANGED hovered

\* F2, Insert, Tab, + and E.
OptionsKey ==
    /\ InMenu
    /\ ~InSaver(ui)
    /\ ui' = OpenOptions(ui)
    /\ pc' = "options"
    /\ seen' = Touch(seen)
    /\ UNCHANGED <<timeout, hovered, exit, chosen>>

\* ConnApplyPointer: a sample in the saver wakes the menu.
PointerWakes ==
    /\ InMenu
    /\ gop
    /\ InSaver(ui)
    /\ ui' = OnKey(ui, "other", 1, count)
    /\ hovered' = -1
    /\ seen' = Touch(seen)
    /\ Stay

PointerClicks ==
    /\ InMenu
    /\ gop
    /\ ~InSaver(ui)
    /\ \E row \in 0..(count - 1) : ui' = OnPoint(ui, row) /\ hovered' = row
    /\ Launch("enter")
    /\ seen' = Touch(seen)

\* The pointer comes to a row; within the row nothing happens.
PointerHovers ==
    /\ InMenu
    /\ gop
    /\ ~InSaver(ui)
    /\ \E row \in 0..(count - 1) :
         row # hovered /\ ui' = OnPoint(ui, row) /\ hovered' = row
    /\ seen' = Touch(seen)
    /\ Stay

\* A second has passed.
Tick ==
    /\ InMenu
    /\ timer
    /\ ui' = OnTick(ui, def)
    /\ \/ ~TickLaunches(ui) /\ Stay /\ seen' = [seen EXCEPT !.quiet = Bump(@)]
       \/ /\ TickLaunches(ui)
          /\ Launch("timeout")
          /\ seen' = [seen EXCEPT !.quiet = Bump(@), !.expired = TRUE]
    /\ UNCHANGED hovered

\* Nothing to wait for, or WaitForEvent fails.
EventsFail ==
    /\ InMenu
    /\ pc' = "return"
    /\ exit' = "escape"
    /\ UNCHANGED <<timeout, ui, hovered, chosen, seen>>

-----------------------------------------------------------------------------
(***************************************************************************)
(* The options of the selected row: a submenu, or the editor of its        *)
(* command line.  Left without a choice, both go back to the menu.         *)
(***************************************************************************)
InOptions ==
    /\ pc = "options"
    /\ UNCHANGED <<machine, count, direct, screensaver, timer, ui, def, hovered>>

SubmenuLaunches ==
    /\ InOptions
    /\ gop
    /\ Launch("enter")
    /\ UNCHANGED seen

EditorCommits ==
    /\ InOptions
    /\ gop
    /\ pc' = "return"
    /\ exit' = "enter"
    /\ chosen' = ui.selected
    /\ UNCHANGED <<timeout, seen>>

LeaveOptions ==
    /\ InOptions
    /\ timeout' = 0
    /\ pc' = "loop"
    /\ UNCHANGED <<exit, chosen, seen>>

-----------------------------------------------------------------------------
(***************************************************************************)
(* efi_main with what the menu returned.  RescanAll reads config.conf      *)
(* again; a token that is not in it keeps its value.                       *)
(***************************************************************************)
Rescan ==
    /\ pc = "return"
    /\ exit = "escape"
    /\ pc' = "loop"
    /\ count' \in Counts
    /\ screensaver' \in {screensaver, config.screensaver}
    /\ direct' = (~direct /\ config.timeout < 0)
    /\ timeout' = IF direct THEN 0 ELSE timeout
    /\ UNCHANGED <<machine, timer, ui, def, hovered, result, seen>>

\* A loader that cannot be started, a tool that ends, a new scan.
ComesBack ==
    /\ pc = "return"
    /\ exit # "escape"
    /\ pc' = "loop"
    /\ count' \in Counts
    /\ direct' = FALSE
    /\ timeout' = IF direct THEN 0 ELSE timeout
    /\ seen' = [seen EXCEPT !.returned = @ \/ exit = "enter"]
    /\ UNCHANGED <<machine, screensaver, timer, ui, def, hovered, result>>

\* FlushFailedTag, or a restart nobody can have asked for.
Ignored ==
    /\ pc = "return"
    /\ exit # "escape"
    /\ pc' = "loop"
    /\ UNCHANGED <<machine, main, timer, ui, def, hovered, result, seen>>

Leaves ==
    /\ pc = "return"
    /\ exit # "escape"
    /\ pc' = "gone"
    /\ UNCHANGED <<machine, main, timer, ui, def, hovered, result, seen>>

Show == Present \/ CannotPresent \/ NothingToPresent

Next ==
    \/ Show
    \/ Key \/ Escape \/ Scroll \/ NetworkKey \/ OptionsKey
    \/ PointerWakes \/ PointerClicks \/ PointerHovers
    \/ Tick \/ EventsFail
    \/ SubmenuLaunches \/ EditorCommits \/ LeaveOptions
    \/ Rescan \/ ComesBack \/ Ignored \/ Leaves

(***************************************************************************)
(* Fairness.  efi_main always gets to show the menu.  The timer is         *)
(* periodic, the loop comes back to WaitForEvent after every event, and    *)
(* what is typed is served long before the next second, although a key is  *)
(* looked at before the timer.                                             *)
(***************************************************************************)
Spec == Init /\ [][Next]_vars /\ WF_vars(Tick) /\ WF_vars(Show)

-----------------------------------------------------------------------------
\* The countdown is on the screen and runs.
CountingDown == pc = "menu" /\ Counting(ui)

(***************************************************************************)
(* What the menu starts by itself is the default entry, and nobody has     *)
(* moved the selection or brought the network up since it was shown: an    *)
(* input that stopped the countdown is not overtaken by the tick behind it *)
(* (MENU_EXIT_TIMEOUT in ConnRunMainMenu).                                 *)
(***************************************************************************)
UnattendedIsDefault ==
    [][pc = "menu" /\ pc' = "return" /\ exit' = "timeout"
         => ~seen.touched /\ chosen' = def]_vars

(***************************************************************************)
(* The screen saver covers the menu only after the configured seconds      *)
(* without activity, and never covers a countdown (guard_idle_ready,       *)
(* TickTransitions).                                                       *)
(***************************************************************************)
SaverAfterQuiet ==
    pc = "menu" /\ ui.saver_active =>
        ~ui.autoboot /\ ui.screensaver_s > 0 /\ seen.quiet >= ui.screensaver_s

(***************************************************************************)
(* The key or the pointer that wakes the menu does nothing else: the       *)
(* selection stays, nothing is started, opened or scanned again.  Only a   *)
(* failing WaitForEvent, no input, leaves the menu from the saver          *)
(* (ConnRunMainMenu asks for the saver before it looks at the key).        *)
(***************************************************************************)
WakeIsSwallowed ==
    [][pc = "menu" /\ ui.saver_active =>
         /\ ui'.selected = ui.selected
         /\ pc' = "menu" \/ (pc' = "return" /\ exit' = "escape" /\ seen' = seen)]_vars

(***************************************************************************)
(* The countdown of the menu is the one of AutoBoot: it is shown with the  *)
(* seconds of TimeoutSeconds, goes down one by one, always ends, and does  *)
(* not come back once it has expired, whatever is done in between          *)
(* (TimeoutSeconds = 0 when ConnRunMainMenu launches).                     *)
(***************************************************************************)
Countdown == INSTANCE AutoBoot WITH
                 left <- IF CountingDown THEN ui.countdown_s ELSE 0,
                 expired <- seen.expired

ImplementsAutoBoot == Countdown!Spec

(***************************************************************************)
(* With a timeout the machine starts something by itself, or somebody has  *)
(* stopped it, asked for a scan, or there is no timer (efi_main,           *)
(* ConnRunMainMenu).                                                       *)
(***************************************************************************)
UnattendedBoots ==
    pc = "loop" /\ timeout > 0 ~>
        pc \in {"options", "return"} \/ (pc = "menu" /\ (seen.touched \/ ~timer))

(***************************************************************************)
(* What conn/test/ui_test.c says of a menu that is shown again:            *)
(* "launch return disables autoboot".                                      *)
(***************************************************************************)
LaunchReturnDisablesAutoboot == seen.returned => ~CountingDown

(***************************************************************************)
(* And of the screen saver: "saver entered at configured threshold", that  *)
(* is, a menu that counts nothing down sleeps after the configured seconds *)
(* without activity.                                                       *)
(***************************************************************************)
SaverAtThreshold ==
    pc = "menu" /\ ~ui.autoboot /\ ui.screensaver_s > 0
        /\ seen.quiet >= ui.screensaver_s => ui.saver_active
=============================================================================

------------------------------- MODULE ConnUi -------------------------------
(***************************************************************************)
(* The model of the boot menu (conn/core/ui.c and app.c): a state machine  *)
(* and the counters around it, changed by keys, rows pointed at and the    *)
(* one-second tick.  Each operator is one event and returns the new model. *)
(*                                                                         *)
(* The states "bootstrap" and "empty" are left out: ConnRunMainMenu opens  *)
(* the menu on a list that has entries, so that its first event leaves     *)
(* them behind.  saver_frame, globe_frame, rail_top and status are only    *)
(* drawn, and left out as well.                                            *)
(***************************************************************************)
EXTENDS Integers

CONSTANTS
    PageRows,   \* CONN_MENU_PAGE_ROWS, rows of a page
    MaxIdle     \* where idle_s stops counting, 0xFFFFFFFF

ASSUME ConnUiAssumption ==
    /\ PageRows \in Nat \ {0}
    /\ MaxIdle \in Nat \ {0}

Uis(rows, seconds) ==
    [state: {"autoboot", "manual", "saver", "launching"}, selected: rows,
     countdown_s: seconds, idle_s: 0..MaxIdle, screensaver_s: 0..MaxIdle,
     autoboot: BOOLEAN, cancelled: BOOLEAN, saver_active: BOOLEAN]

InSaver(ui) == ui.saver_active

(***************************************************************************)
(* conn_model_init on a list with a default entry, with the seconds and    *)
(* the screen saver time ConnRunMainMenu then puts into the model.         *)
(***************************************************************************)
Opened(def, seconds, saver) ==
    [state |-> IF seconds > 0 THEN "autoboot" ELSE "manual",
     selected |-> def, countdown_s |-> IF seconds > 0 THEN seconds ELSE 0,
     idle_s |-> 0, screensaver_s |-> saver,
     autoboot |-> seconds > 0, cancelled |-> FALSE, saver_active |-> FALSE]

\* Mutant: waking and moving leave the countdown running.
Stopped_KeepsCounting(ui) ==
    [ui EXCEPT !.state = IF @ = "saver" THEN "manual" ELSE @,
               !.idle_s = 0, !.saver_active = FALSE]
\* What a key, a wake-up and a row pointed at have in common.
Stopped(ui) ==
    [ui EXCEPT !.state = "manual", !.idle_s = 0, !.saver_active = FALSE,
               !.autoboot = FALSE, !.cancelled = TRUE]

Keys == {"up", "down", "page_up", "page_down", "digit", "enter", "other"}

\* Mutant: the last page is not cut at the end of the list.
PageStep_NoClamp(sel, count, forward) ==
    IF forward THEN sel + PageRows
    ELSE IF sel >= PageRows THEN sel - PageRows ELSE 0
PageStep(sel, count, forward) ==
    IF forward
    THEN IF sel + PageRows < count THEN sel + PageRows ELSE count - 1
    ELSE IF sel >= PageRows THEN sel - PageRows ELSE 0

Moved(sel, key, digit, count) ==
    CASE key = "up" /\ sel > 0 -> sel - 1
      [] key = "down" /\ sel + 1 < count -> sel + 1
      [] key = "page_up" -> PageStep(sel, count, FALSE)
      [] key = "page_down" -> PageStep(sel, count, TRUE)
      [] key = "digit" /\ digit <= count -> digit - 1
      [] OTHER -> sel

\* A key: in the saver it wakes the menu and does nothing else.
OnKey(ui, key, digit, count) ==
    IF ui.state = "saver" THEN Stopped(ui)
    ELSE [Stopped(ui) EXCEPT !.selected = Moved(ui.selected, key, digit, count)]

KeyLaunches(ui, key) == key = "enter" /\ ui.state \in {"autoboot", "manual"}

\* Mutant: the pointer does not count as activity.
OnPoint_KeepsIdle(ui, row) ==
    [Stopped(ui) EXCEPT !.selected = row, !.idle_s = ui.idle_s]
\* A row under the pointer, clicked or not.
OnPoint(ui, row) == [Stopped(ui) EXCEPT !.selected = row]

\* open_options; the machine is not told.
OpenOptions(ui) == [ui EXCEPT !.idle_s = 0, !.autoboot = FALSE, !.cancelled = TRUE]

Bump(idle) == IF idle < MaxIdle THEN idle + 1 ELSE idle

Counting(ui) == ui.autoboot /\ ~ui.cancelled

IdleReady(ui) == ui.screensaver_s > 0 /\ ui.idle_s >= ui.screensaver_s - 1

\* Mutant: the last second waits for one more.
TickLaunches_AtZero(ui) == ui.state = "autoboot" /\ Counting(ui) /\ ui.countdown_s < 1
TickLaunches(ui) == ui.state = "autoboot" /\ Counting(ui) /\ ui.countdown_s <= 1

OnTick(ui, def) ==
    CASE TickLaunches(ui) ->
           [ui EXCEPT !.state = "launching", !.countdown_s = 0, !.autoboot = FALSE,
                      !.saver_active = FALSE, !.selected = def]
      [] ui.state = "autoboot" /\ Counting(ui) /\ ui.countdown_s > 1 ->
           [ui EXCEPT !.countdown_s = @ - 1]
      [] ui.state = "manual" /\ IdleReady(ui) ->
           [ui EXCEPT !.state = "saver", !.idle_s = Bump(@), !.saver_active = TRUE,
                      !.autoboot = FALSE]
      [] ui.state = "manual" /\ ~IdleReady(ui) -> [ui EXCEPT !.idle_s = Bump(@)]
      [] ui.state = "saver" -> [ui EXCEPT !.idle_s = Bump(@), !.saver_active = TRUE]
      [] OTHER -> ui
=============================================================================

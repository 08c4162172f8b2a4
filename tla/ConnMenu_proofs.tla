-------------------------- MODULE ConnMenu_proofs --------------------------
(***************************************************************************)
(* Proofs about ConnMenu, for every number of rows, every timeout and      *)
(* every screen saver time.  Lemmas about the events of ConnUi come first, *)
(* then the inductive invariant, and then what follows from it: the        *)
(* invariants and the action properties the runs check, and that the menu  *)
(* implements AutoBoot.                                                    *)
(***************************************************************************)
EXTENDS ConnMenu, TLAPS

UiType == Uis(Rows, Nat)

(***************************************************************************)
(* The idle counter never runs ahead of the seconds the properties count,  *)
(* and reaches the screen saver time in the very step that enters the      *)
(* saver.                                                                  *)
(***************************************************************************)
LEMMA BumpFacts ==
    ASSUME NEW i \in 0..MaxIdle, NEW q \in 0..MaxIdle, i <= q
    PROVE  /\ Bump(i) \in 0..MaxIdle
           /\ Bump(q) \in 0..MaxIdle
           /\ Bump(i) <= Bump(q)
           /\ i <= Bump(q)
           /\ \A s \in 0..MaxIdle : i >= s - 1 => Bump(i) >= s
BY ConnUiAssumption DEF Bump

\* Stopping keeps the row and the counters the countdown is made of.
LEMMA StoppedFacts ==
    ASSUME NEW u \in UiType
    PROVE  /\ Stopped(u) \in UiType
           /\ Stopped(u).state = "manual"
           /\ Stopped(u).selected = u.selected
           /\ Stopped(u).idle_s = 0
           /\ Stopped(u).screensaver_s = u.screensaver_s
           /\ Stopped(u).autoboot = FALSE
           /\ Stopped(u).saver_active = FALSE
<1>1. 0 \in 0..MaxIdle
  BY ConnUiAssumption
<1>2. Stopped(u) \in UiType
  BY <1>1, ZenonT(30) DEF UiType, Uis, Stopped
<1>3. /\ Stopped(u).state = "manual"
      /\ Stopped(u).selected = u.selected
      /\ Stopped(u).idle_s = 0
      /\ Stopped(u).screensaver_s = u.screensaver_s
  BY DEF UiType, Uis, Stopped
<1>4. Stopped(u).autoboot = FALSE /\ Stopped(u).saver_active = FALSE
  BY Zenon DEF UiType, Uis, Stopped
<1>. QED
  BY <1>2, <1>3, <1>4

\* A step or a page never leaves the list.
LEMMA MovedFacts ==
    ASSUME NEW n \in Nat, NEW s \in 0..(n - 1), NEW key \in Keys, NEW d \in 1..9
    PROVE  Moved(s, key, d, n) \in 0..(n - 1)
BY ConnUiAssumption DEF Moved, PageStep, Keys

\* What a key and a row pointed at share: a stopped menu with a row selected.
LEMMA SelectFacts ==
    ASSUME NEW u \in UiType, NEW r \in Rows
    PROVE  LET v == [Stopped(u) EXCEPT !.selected = r]
           IN  /\ v \in UiType
               /\ v.state = "manual"
               /\ v.selected = r
               /\ v.idle_s = 0
               /\ v.screensaver_s = u.screensaver_s
               /\ v.autoboot = FALSE
               /\ v.saver_active = FALSE
BY StoppedFacts DEF UiType, Uis

(***************************************************************************)
(* What holds of the model and the history while the menu is shown.        *)
(***************************************************************************)
SeenType == [quiet: 0..MaxIdle, touched: BOOLEAN, returned: BOOLEAN, expired: BOOLEAN]

SaverOK(u, s) ==
    /\ u.idle_s <= s.quiet
    /\ u.state = "saver" => u.screensaver_s > 0 /\ u.idle_s >= u.screensaver_s

FlagsOK(u) ==
    /\ u.state = "saver" => u.saver_active = TRUE /\ u.autoboot = FALSE
    /\ u.state # "saver" => u.saver_active = FALSE

CountOK(u, s) ==
    Counting(u) => /\ u.state = "autoboot"
                   /\ s.touched = FALSE
                   /\ s.expired = FALSE

SecondsOK(u) == Counting(u) => u.countdown_s >= 1

UiOK(u, s) ==
    /\ u.state # "launching"
    /\ SaverOK(u, s)
    /\ FlagsOK(u)
    /\ CountOK(u, s)
    /\ SecondsOK(u)

\* A menu that has just been stopped is in order whatever was before.
LEMMA StoppedOK ==
    ASSUME NEW u \in UiType, NEW s \in SeenType,
           u.state = "manual", u.idle_s = 0,
           u.autoboot = FALSE, u.saver_active = FALSE
    PROVE  UiOK(u, s) /\ ~Counting(u)
<1>1. u.idle_s <= s.quiet
  BY ConnUiAssumption DEF SeenType
<1>2. ~Counting(u)
  BY Zenon DEF Counting
<1>. QED
  BY <1>1, <1>2, Zenon DEF UiOK, SaverOK, FlagsOK, CountOK, SecondsOK

\* Touching the menu starts its quiet time again.
LEMMA TouchFacts ==
    ASSUME NEW s \in SeenType
    PROVE  /\ Touch(s) \in SeenType
           /\ Touch(s).expired = s.expired
           /\ [s EXCEPT !.quiet = 0] \in SeenType
           /\ [s EXCEPT !.quiet = Bump(@)] \in SeenType
           /\ [s EXCEPT !.quiet = Bump(@), !.expired = TRUE] \in SeenType
<1>1. 0 \in 0..MaxIdle /\ Bump(s.quiet) \in 0..MaxIdle
  BY ConnUiAssumption DEF SeenType, Bump
<1>2. Touch(s) \in SeenType /\ Touch(s).expired = s.expired
  BY <1>1, Zenon DEF SeenType, Touch
<1>3. [s EXCEPT !.quiet = 0] \in SeenType
  BY <1>1, Zenon DEF SeenType
<1>4. [s EXCEPT !.quiet = Bump(@)] \in SeenType
  BY <1>1, Zenon DEF SeenType
<1>5. [s EXCEPT !.quiet = Bump(@), !.expired = TRUE] \in SeenType
  BY <1>1, Zenon DEF SeenType
<1>. QED
  BY <1>2, <1>3, <1>4, <1>5

\* A key leaves the menu stopped and its selection on the list.
LEMMA KeyFacts ==
    ASSUME NEW u \in UiType, NEW s \in SeenType, NEW n \in 1..MaxEntries,
           u.selected < n, NEW key \in Keys, NEW d \in 1..9
    PROVE  /\ OnKey(u, key, d, n) \in UiType
           /\ OnKey(u, key, d, n).selected < n
           /\ UiOK(OnKey(u, key, d, n), s)
           /\ ~Counting(OnKey(u, key, d, n))
<1>. DEFINE m == Moved(u.selected, key, d, n)
<1>1. u.selected \in 0..(n - 1) /\ n \in Nat
  BY ConnMenuAssumption DEF UiType, Uis, Rows
<1>2. m \in 0..(n - 1)
  BY <1>1, MovedFacts
<1>3. m \in Rows /\ m < n
  BY <1>2, ConnMenuAssumption DEF Rows
<1>4. CASE u.state = "saver"
  <2>1. OnKey(u, key, d, n) = Stopped(u)
    BY <1>4 DEF OnKey
  <2>. QED
    BY <2>1, StoppedFacts, StoppedOK
<1>5. CASE u.state # "saver"
  <2>. DEFINE v == [Stopped(u) EXCEPT !.selected = m]
  <2>1. OnKey(u, key, d, n) = v
    BY <1>5 DEF OnKey
  <2>2. /\ v \in UiType /\ v.state = "manual" /\ v.selected = m
        /\ v.idle_s = 0 /\ v.autoboot = FALSE /\ v.saver_active = FALSE
    BY <1>3, SelectFacts
  <2>. HIDE DEF v, m
  <2>3. UiOK(v, s) /\ ~Counting(v)
    BY <2>2, StoppedOK
  <2>. QED
    BY <2>1, <2>2, <2>3, <1>3
<1>. QED
  BY <1>4, <1>5

\* So does the pointer.
LEMMA PointFacts ==
    ASSUME NEW u \in UiType, NEW s \in SeenType, NEW r \in Rows
    PROVE  /\ OnPoint(u, r) \in UiType
           /\ OnPoint(u, r).selected = r
           /\ UiOK(OnPoint(u, r), s)
           /\ ~Counting(OnPoint(u, r))
<1>. DEFINE v == [Stopped(u) EXCEPT !.selected = r]
<1>1. OnPoint(u, r) = v
  BY DEF OnPoint
<1>2. /\ v \in UiType /\ v.state = "manual" /\ v.selected = r
      /\ v.idle_s = 0 /\ v.autoboot = FALSE /\ v.saver_active = FALSE
  BY SelectFacts
<1>. HIDE DEF v
<1>. QED
  BY <1>1, <1>2, StoppedOK

\* The tick that launches selects the default.
LEMMA TickLaunchFacts ==
    ASSUME NEW u \in UiType, NEW d \in Rows, TickLaunches(u)
    PROVE  OnTick(u, d) \in UiType /\ OnTick(u, d).selected = d
<1>. DEFINE v == [u EXCEPT !.state = "launching", !.countdown_s = 0, !.autoboot = FALSE,
                           !.saver_active = FALSE, !.selected = d]
<1>0. u.state = "autoboot" /\ ~(u.countdown_s > 1)
  BY DEF TickLaunches, UiType, Uis
<1>1. OnTick(u, d) = v
  BY <1>0, "autoboot" # "manual", "autoboot" # "saver", Zenon DEF OnTick
<1>2. v \in UiType
  BY ZenonT(30) DEF UiType, Uis
<1>3. v.selected = d
  BY ZenonT(30) DEF UiType, Uis
<1>. QED
  BY <1>1, <1>2, <1>3

\* One second of a menu that is in order leaves it in order.
LEMMA TickFacts ==
    ASSUME NEW u \in UiType, NEW d \in Rows, NEW s \in SeenType, NEW t \in SeenType,
           UiOK(u, s), ~TickLaunches(u),
           t.quiet = Bump(s.quiet), t.touched = s.touched, t.expired = s.expired
    PROVE  /\ OnTick(u, d) \in UiType
           /\ OnTick(u, d).selected = u.selected
           /\ UiOK(OnTick(u, d), t)
<1>. DEFINE v == OnTick(u, d)
            down == [u EXCEPT !.countdown_s = @ - 1]
            sleep == [u EXCEPT !.state = "saver", !.idle_s = Bump(@),
                               !.saver_active = TRUE, !.autoboot = FALSE]
            wait == [u EXCEPT !.idle_s = Bump(@)]
            dream == [u EXCEPT !.idle_s = Bump(@), !.saver_active = TRUE]
<1>1. /\ u.idle_s \in 0..MaxIdle /\ s.quiet \in 0..MaxIdle /\ u.screensaver_s \in 0..MaxIdle
      /\ u.countdown_s \in Nat /\ u.idle_s <= s.quiet
  BY DEF UiType, Uis, SeenType, UiOK, SaverOK
<1>2. /\ Bump(u.idle_s) \in 0..MaxIdle
      /\ Bump(u.idle_s) <= t.quiet
      /\ u.idle_s <= t.quiet
      /\ Bump(u.idle_s) >= u.idle_s
      /\ u.idle_s >= u.screensaver_s - 1 => Bump(u.idle_s) >= u.screensaver_s
  BY <1>1, ConnUiAssumption DEF Bump
<1>3. CASE u.state = "autoboot" /\ Counting(u) /\ u.countdown_s > 1
  <2>1. v = down
    BY <1>3, Zenon DEF OnTick
  <2>2. down \in UiType
    BY <1>1, <1>3 DEF UiType, Uis
  <2>3. /\ down.state = "autoboot" /\ down.selected = u.selected
        /\ down.idle_s = u.idle_s /\ down.countdown_s >= 1
    BY <1>1, <1>3 DEF UiType, Uis
  <2>4. down.autoboot = u.autoboot /\ down.saver_active = u.saver_active
    BY Zenon DEF UiType, Uis
  <2>. HIDE DEF v, down
  <2>5. SaverOK(down, t)
    BY <2>3, <1>2 DEF SaverOK
  <2>6. FlagsOK(down)
    BY <2>3, <2>4, <1>3 DEF FlagsOK, UiOK
  <2>7. s.touched = FALSE /\ s.expired = FALSE
    BY <1>3, Zenon DEF UiOK, CountOK
  <2>8. CountOK(down, t)
    BY <2>3, <2>7, Zenon DEF CountOK
  <2>9. SecondsOK(down)
    BY <2>3, Zenon DEF SecondsOK
  <2>10. down.state # "launching"
    BY <2>3
  <2>11. UiOK(down, t)
    BY <2>5, <2>6, <2>8, <2>9, <2>10, Zenon DEF UiOK
  <2>. QED
    BY <2>1, <2>2, <2>3, <2>11 DEF v
<1>4. CASE u.state = "manual" /\ IdleReady(u)
  <2>1. v = sleep
    BY <1>4, Zenon DEF OnTick, TickLaunches
  <2>2. sleep \in UiType
    BY <1>2, ZenonT(30) DEF UiType, Uis
  <2>3. /\ sleep.state = "saver" /\ sleep.selected = u.selected
        /\ sleep.idle_s = Bump(u.idle_s) /\ sleep.screensaver_s = u.screensaver_s
    BY ZenonT(30) DEF UiType, Uis
  <2>4. sleep.autoboot = FALSE /\ sleep.saver_active = TRUE
    BY Zenon DEF UiType, Uis
  <2>. HIDE DEF v, sleep
  <2>5. SaverOK(sleep, t)
    BY <1>1, <1>2, <1>4, <2>3 DEF SaverOK, IdleReady
  <2>6. FlagsOK(sleep)
    BY <2>3, <2>4 DEF FlagsOK
  <2>7. ~Counting(sleep)
    BY <2>4, Zenon DEF Counting
  <2>8. sleep.state # "launching"
    BY <2>3
  <2>9. UiOK(sleep, t)
    BY <2>5, <2>6, <2>7, <2>8, Zenon DEF UiOK, CountOK, SecondsOK
  <2>. QED
    BY <2>1, <2>2, <2>3, <2>9 DEF v
<1>5. CASE u.state = "manual" /\ ~IdleReady(u)
  <2>1. v = wait
    BY <1>5, Zenon DEF OnTick, TickLaunches
  <2>2. wait \in UiType
    BY <1>2 DEF UiType, Uis
  <2>3. /\ wait.state = "manual" /\ wait.selected = u.selected
        /\ wait.idle_s = Bump(u.idle_s)
    BY <1>5 DEF UiType, Uis
  <2>4. wait.saver_active = u.saver_active /\ wait.autoboot = u.autoboot
        /\ wait.cancelled = u.cancelled
    BY Zenon DEF UiType, Uis
  <2>. HIDE DEF v, wait
  <2>5. SaverOK(wait, t)
    BY <1>2, <2>3 DEF SaverOK
  <2>6. FlagsOK(wait)
    BY <1>5, <2>3, <2>4 DEF FlagsOK, UiOK
  <2>7. ~Counting(u)
    BY <1>5, "manual" # "autoboot", Zenon DEF UiOK, CountOK
  <2>8. ~Counting(wait)
    BY <2>4, <2>7, Zenon DEF Counting
  <2>9. wait.state # "launching"
    BY <2>3
  <2>10. UiOK(wait, t)
    BY <2>5, <2>6, <2>8, <2>9, Zenon DEF UiOK, CountOK, SecondsOK
  <2>. QED
    BY <2>1, <2>2, <2>3, <2>10 DEF v
<1>6. CASE u.state = "saver"
  <2>1. v = dream
    BY <1>6, Zenon DEF OnTick, TickLaunches
  <2>2. dream \in UiType
    BY <1>2, ZenonT(30) DEF UiType, Uis
  <2>3. /\ dream.state = "saver" /\ dream.selected = u.selected
        /\ dream.idle_s = Bump(u.idle_s) /\ dream.screensaver_s = u.screensaver_s
    BY <1>6, ZenonT(30) DEF UiType, Uis
  <2>4. dream.saver_active = TRUE /\ dream.autoboot = u.autoboot
    BY Zenon DEF UiType, Uis
  <2>5. u.autoboot = FALSE /\ u.screensaver_s > 0 /\ u.idle_s >= u.screensaver_s
    BY <1>6 DEF UiOK, FlagsOK, SaverOK
  <2>. HIDE DEF v, dream
  <2>6. SaverOK(dream, t)
    BY <1>1, <1>2, <2>3, <2>5 DEF SaverOK
  <2>7. FlagsOK(dream)
    BY <2>3, <2>4, <2>5 DEF FlagsOK
  <2>8. ~Counting(dream)
    BY <2>4, <2>5, Zenon DEF Counting
  <2>9. dream.state # "launching"
    BY <2>3
  <2>10. UiOK(dream, t)
    BY <2>6, <2>7, <2>8, <2>9, Zenon DEF UiOK, CountOK, SecondsOK
  <2>. QED
    BY <2>1, <2>2, <2>3, <2>10 DEF v
<1>7. CASE /\ u.state = "autoboot"
           /\ ~(Counting(u) /\ u.countdown_s > 1)
  <2>1. v = u
    BY <1>7, "autoboot" # "manual", "autoboot" # "saver", Zenon DEF OnTick
  <2>2. ~Counting(u)
    BY <1>1, <1>7 DEF TickLaunches
  <2>3. SaverOK(u, t)
    BY <1>2, <1>7 DEF SaverOK
  <2>4. UiOK(u, t)
    BY <2>2, <2>3, Zenon DEF UiOK, CountOK, SecondsOK
  <2>. QED
    BY <2>1, <2>4 DEF v
<1>8. u.state \in {"autoboot", "manual", "saver", "launching"} /\ u.state # "launching"
  BY DEF UiType, Uis, UiOK
<1>. QED
  BY <1>3, <1>4, <1>5, <1>6, <1>7, <1>8 DEF v

\* Calling the countdown off keeps the rest in order.
LEMMA CalledOffFacts ==
    ASSUME NEW u \in UiType, NEW s \in SeenType, UiOK(u, s)
    PROVE  LET v == [u EXCEPT !.autoboot = FALSE]
           IN  v \in UiType /\ v.selected = u.selected /\ UiOK(v, s)
<1>. DEFINE v == [u EXCEPT !.autoboot = FALSE]
<1>1. v \in UiType
  BY Zenon DEF UiType, Uis
<1>2. /\ v.state = u.state /\ v.selected = u.selected /\ v.idle_s = u.idle_s
      /\ v.screensaver_s = u.screensaver_s
  BY DEF UiType, Uis
<1>3. v.autoboot = FALSE /\ v.saver_active = u.saver_active
  BY Zenon DEF UiType, Uis
<1>. HIDE DEF v
<1>4. SaverOK(v, s)
  BY <1>2, Zenon DEF UiOK, SaverOK
<1>5. FlagsOK(v)
  BY <1>2, <1>3, Zenon DEF UiOK, FlagsOK
<1>6. ~Counting(v)
  BY <1>3, Zenon DEF Counting
<1>7. UiOK(v, s)
  BY <1>2, <1>4, <1>5, <1>6, Zenon DEF UiOK, CountOK, SecondsOK
<1>. QED
  BY <1>1, <1>2, <1>7 DEF v

\* Any other activity keeps a menu that is not asleep in order.
LEMMA ActivityFacts ==
    ASSUME NEW u \in UiType, NEW s \in SeenType, UiOK(u, s), ~InSaver(u)
    PROVE  LET v == [u EXCEPT !.idle_s = 0]
               t == [s EXCEPT !.quiet = 0]
           IN  v \in UiType /\ v.selected = u.selected /\ UiOK(v, t)
<1>. DEFINE v == [u EXCEPT !.idle_s = 0]
            t == [s EXCEPT !.quiet = 0]
<1>1. 0 \in 0..MaxIdle
  BY ConnUiAssumption
<1>2. v \in UiType
  BY <1>1 DEF UiType, Uis
<1>3. /\ v.state = u.state /\ v.selected = u.selected /\ v.idle_s = 0
      /\ v.countdown_s = u.countdown_s
  BY <1>1 DEF UiType, Uis
<1>4. v.autoboot = u.autoboot /\ v.cancelled = u.cancelled /\ v.saver_active = u.saver_active
  BY Zenon DEF UiType, Uis
<1>5. t.quiet = 0
  BY DEF SeenType
<1>6. t.touched = s.touched /\ t.expired = s.expired
  BY Zenon DEF SeenType
<1>7. u.state # "saver"
  BY Zenon DEF InSaver, UiOK, FlagsOK
<1>. HIDE DEF v, t
<1>8. SaverOK(v, t)
  BY <1>3, <1>5, <1>7 DEF SaverOK
<1>9. FlagsOK(v)
  BY <1>3, <1>4, Zenon DEF UiOK, FlagsOK
<1>10. Counting(v) => Counting(u)
  BY <1>4, Zenon DEF Counting
<1>11. CountOK(v, t)
  BY <1>3, <1>6, <1>10, Zenon DEF UiOK, CountOK
<1>12. SecondsOK(v)
  BY <1>3, <1>10, Zenon DEF UiOK, SecondsOK
<1>13. UiOK(v, t)
  BY <1>3, <1>8, <1>9, <1>11, <1>12, Zenon DEF UiOK
<1>. QED
  BY <1>2, <1>3, <1>13 DEF v, t

\* N stops the countdown too, in whatever state the menu is awake.
LEMMA NetworkFacts ==
    ASSUME NEW u \in UiType, NEW s \in SeenType, NEW t \in SeenType,
           UiOK(u, s), ~InSaver(u)
    PROVE  LET v == [u EXCEPT !.autoboot = FALSE, !.cancelled = TRUE, !.idle_s = 0]
           IN  v \in UiType /\ v.selected = u.selected /\ UiOK(v, t) /\ ~Counting(v)
<1>. DEFINE v == [u EXCEPT !.autoboot = FALSE, !.cancelled = TRUE, !.idle_s = 0]
<1>1. 0 \in 0..MaxIdle
  BY ConnUiAssumption
<1>2. v \in UiType
  BY <1>1, ZenonT(30) DEF UiType, Uis
<1>3. v.state = u.state /\ v.selected = u.selected /\ v.idle_s = 0
  BY <1>1, ZenonT(30) DEF UiType, Uis
<1>4. v.autoboot = FALSE /\ v.saver_active = u.saver_active
  BY ZenonT(30) DEF UiType, Uis
<1>5. u.state # "saver"
  BY Zenon DEF InSaver, UiOK, FlagsOK
<1>6. t.quiet \in 0..MaxIdle
  BY DEF SeenType
<1>. HIDE DEF v
<1>7. SaverOK(v, t)
  BY <1>3, <1>5, <1>6 DEF SaverOK
<1>8. FlagsOK(v)
  BY <1>3, <1>4, Zenon DEF UiOK, FlagsOK
<1>9. ~Counting(v)
  BY <1>4, Zenon DEF Counting
<1>10. UiOK(v, t)
  BY <1>3, <1>7, <1>8, <1>9, Zenon DEF UiOK, CountOK, SecondsOK
<1>. QED
  BY <1>2, <1>3, <1>9, <1>10 DEF v

\* Opening the options keeps the selection.
LEMMA OptionsFacts ==
    ASSUME NEW u \in UiType
    PROVE  OpenOptions(u) \in UiType /\ OpenOptions(u).selected = u.selected
<1>1. 0 \in 0..MaxIdle
  BY ConnUiAssumption
<1>2. OpenOptions(u) \in UiType
  BY <1>1, ZenonT(30) DEF UiType, Uis, OpenOptions
<1>3. OpenOptions(u).selected = u.selected
  BY ZenonT(30) DEF UiType, Uis, OpenOptions
<1>. QED
  BY <1>2, <1>3

(***************************************************************************)
(* The menu as it opens is in order, asleep or awake.                      *)
(***************************************************************************)
LEMMA OpenedFacts ==
    ASSUME NEW d \in Rows, NEW secs \in Int, NEW saver \in 0..MaxIdle,
           NEW s \in SeenType, s.quiet = 0, s.touched = FALSE,
           s.expired = TRUE => ~(secs > 0)
    PROVE  /\ Opened(d, secs, saver) \in UiType
           /\ Opened(d, secs, saver).selected = d
           /\ UiOK(Opened(d, secs, saver), s)
<1>. DEFINE u == Opened(d, secs, saver)
<1>1. 0 \in 0..MaxIdle
  BY ConnUiAssumption
<1>2. CASE secs > 0
  <2>1. u = [state |-> "autoboot", selected |-> d, countdown_s |-> secs, idle_s |-> 0,
             screensaver_s |-> saver, autoboot |-> TRUE, cancelled |-> FALSE,
             saver_active |-> FALSE]
    BY <1>2, Zenon DEF Opened
  <2>2. secs \in Nat /\ secs >= 1
    BY <1>2
  <2>. HIDE DEF u
  <2>3. u \in UiType
    BY <1>1, <2>1, <2>2, ZenonT(30) DEF UiType, Uis
  <2>4. /\ u.state = "autoboot" /\ u.selected = d /\ u.idle_s = 0 /\ u.countdown_s = secs
    BY <2>1
  <2>5. u.saver_active = FALSE /\ u.autoboot = TRUE
    BY <2>1, Zenon
  <2>6. s.expired = FALSE
    BY <1>2, Zenon DEF SeenType
  <2>7. SaverOK(u, s)
    BY <2>4 DEF SaverOK
  <2>8. FlagsOK(u) /\ u.state # "launching"
    BY <2>4, <2>5 DEF FlagsOK
  <2>9. CountOK(u, s) /\ SecondsOK(u)
    BY <2>2, <2>4, <2>6, Zenon DEF CountOK, SecondsOK
  <2>10. UiOK(u, s)
    BY <2>7, <2>8, <2>9, Zenon DEF UiOK
  <2>. QED
    BY <2>3, <2>4, <2>10 DEF u
<1>3. CASE ~(secs > 0)
  <2>1. u = [state |-> "manual", selected |-> d, countdown_s |-> 0, idle_s |-> 0,
             screensaver_s |-> saver, autoboot |-> FALSE, cancelled |-> FALSE,
             saver_active |-> FALSE]
    <3>1. (secs > 0) = FALSE
      BY <1>3
    <3>. QED
      BY <3>1, Zenon DEF Opened
  <2>. HIDE DEF u
  <2>2. u \in UiType
    BY <1>1, <2>1, 0 \in Nat, ZenonT(30) DEF UiType, Uis
  <2>3. u.state = "manual" /\ u.selected = d /\ u.idle_s = 0
    BY <2>1
  <2>4. u.saver_active = FALSE /\ u.autoboot = FALSE
    BY <2>1, Zenon
  <2>5. UiOK(u, s)
    BY <2>2, <2>3, <2>4, StoppedOK
  <2>. QED
    BY <2>2, <2>3, <2>5 DEF u
<1>. QED
  BY <1>2, <1>3

-----------------------------------------------------------------------------
(***************************************************************************)
(* The inductive invariant.  TypeOK alone is not one: that the selected    *)
(* row is on the list, that the saver goes with its flag and its seconds,  *)
(* that nothing is counted in a menu that was touched, and that no seconds *)
(* are left once a countdown has expired, all depend on each other.        *)
(***************************************************************************)
ListInv ==
    pc \in {"menu", "options"} =>
        count \in 1..MaxEntries /\ ui.selected < count /\ def < count

MenuInv == pc = "menu" => UiOK(ui, seen)

ExpiredInv == seen.expired = TRUE => timeout = 0

IInv == TypeOK /\ ListInv /\ MenuInv /\ ExpiredInv

\* efi_main comes to its loop with the invariant true (Init).
LEMMA InitIInv == Init => IInv
<1>. SUFFICES ASSUME Init PROVE IInv
  OBVIOUS
<1>1. pc = "loop" /\ seen = Fresh /\ ui = Opened(0, 0, 0) /\ def = 0
  BY DEF Init
<1>2. Fresh \in SeenType /\ Fresh.expired = FALSE
  BY ConnUiAssumption DEF Fresh, SeenType
<1>3. ui \in UiType
  <2>1. 0 \in Rows /\ 0 \in 0..MaxIdle /\ 0 \in Int /\ ~(0 > 0)
    BY ConnUiAssumption, ConnMenuAssumption DEF Rows
  <2>2. Fresh.quiet = 0 /\ Fresh.touched = FALSE
    BY DEF Fresh
  <2>. QED
    BY <1>1, <1>2, <2>1, <2>2, OpenedFacts, ZenonT(60)
<1>4. /\ config \in [timeout: Timeouts, screensaver: Savers]
      /\ gop \in BOOLEAN /\ count \in Counts /\ direct \in BOOLEAN
      /\ timer \in BOOLEAN
  BY Zenon DEF Init
<1>5. /\ timeout \in Timeouts \cup {0}
      /\ screensaver \in Savers \cup {DirectSaver}
      /\ hovered \in Rows \cup {-1}
      /\ exit \in {"none", "escape", "enter", "timeout"}
      /\ chosen \in Nat
      /\ def \in Rows
  BY ConnMenuAssumption DEF Init, Rows
<1>6. TypeOK
  BY <1>1, <1>2, <1>3, <1>4, <1>5 DEF TypeOK, UiType, SeenType
<1>7. ListInv /\ MenuInv
  BY <1>1 DEF ListInv, MenuInv
<1>8. ExpiredInv
  BY <1>1, <1>2, Zenon DEF ExpiredInv
<1>. QED
  BY <1>6, <1>7, <1>8 DEF IInv

\* What an action that leaves for the loop of efi_main has to show.
LEMMA AwayFacts ==
    ASSUME TypeOK', ExpiredInv', pc' \notin {"menu", "options"}
    PROVE  IInv'
BY DEF IInv, ListInv, MenuInv

\* And what an input has to show that stays in the menu.
LEMMA StayFacts ==
    ASSUME IInv, pc = "menu", InMenu, Stay,
           ui' \in UiType, seen' \in SeenType, hovered' \in Rows \cup {-1},
           ui'.selected < count, UiOK(ui', seen'), seen'.expired = seen.expired
    PROVE  IInv'
<1>1. TypeOK'
  BY DEF IInv, TypeOK, InMenu, machine, Stay, UiType, SeenType
<1>2. ListInv'
  BY DEF IInv, ListInv, InMenu, Stay
<1>3. MenuInv'
  BY DEF MenuInv
<1>4. ExpiredInv'
  BY Zenon DEF IInv, ExpiredInv, Stay
<1>. QED
  BY <1>1, <1>2, <1>3, <1>4 DEF IInv

\* And one that starts a row.
LEMMA LaunchFacts ==
    ASSUME IInv, NEW why \in {"enter", "timeout"}, Launch(why),
           UNCHANGED <<machine, count, direct, screensaver, timer, def>>,
           ui' \in UiType, seen' \in SeenType, hovered' \in Rows \cup {-1}
    PROVE  IInv'
<1>1. chosen' \in Nat
  BY ConnMenuAssumption DEF Launch, UiType, Uis, Rows
<1>2. TypeOK'
  BY <1>1 DEF IInv, TypeOK, machine, Launch, UiType, SeenType
<1>3. ExpiredInv' /\ pc' = "return"
  BY Zenon DEF ExpiredInv, Launch
<1>. QED
  BY <1>2, <1>3, AwayFacts

\* What the steps below know of the state they start in.
LEMMA InMenuFacts ==
    ASSUME IInv, pc = "menu"
    PROVE  /\ ui \in UiType /\ seen \in SeenType /\ def \in Rows /\ def < count
           /\ count \in 1..MaxEntries /\ ui.selected < count /\ UiOK(ui, seen)
           /\ hovered \in Rows \cup {-1}
           /\ \A r \in 0..(count - 1) : r \in Rows /\ r < count
BY ConnMenuAssumption DEF IInv, TypeOK, ListInv, MenuInv, UiType, SeenType, Rows

\* The menu is shown with the invariant true (ConnRunMainMenu up to its loop).
LEMMA PresentIInv == IInv /\ Present => IInv'
<1>. SUFFICES ASSUME IInv, Present PROVE IInv'
  OBVIOUS
<1>. DEFINE q == IF OpensAsleep THEN 1 ELSE 0
            s == [seen EXCEPT !.quiet = 0, !.touched = FALSE]
            t == [seen EXCEPT !.quiet = q, !.touched = FALSE]
            opened(d) == Opened(d, timeout, SaverSeconds)
            shown(d) == IF OpensAsleep THEN OnTick(opened(d), d) ELSE opened(d)
<1>1. PICK d \in 0..(count - 1) : \E running \in BOOLEAN :
         /\ ui' = IF running THEN shown(d) ELSE [shown(d) EXCEPT !.autoboot = FALSE]
         /\ def' = d /\ timer' = running
  BY Zenon DEF Present
<1>2. /\ count \in 1..MaxEntries /\ hovered' = -1 /\ pc' = "menu" /\ exit' = "escape"
      /\ seen' = t
      /\ UNCHANGED <<machine, main, chosen>>
  BY Zenon DEF Present
<1>3. /\ seen \in SeenType /\ timeout \in Int /\ screensaver \in Int
      /\ d \in Rows /\ d < count
  BY <1>1, <1>2, ConnMenuAssumption DEF IInv, TypeOK, SeenType, Rows
<1>4. /\ SaverSeconds \in 0..MaxIdle
      /\ OpensAsleep => SaverSeconds = 1 /\ ~(timeout > 0)
      /\ q \in 0..MaxIdle /\ 0 \in 0..MaxIdle
  BY <1>3, ConnUiAssumption DEF SaverSeconds, OpensAsleep
<1>5. s \in SeenType /\ t \in SeenType
  BY <1>3, <1>4, ZenonT(30) DEF SeenType
<1>6. s.quiet = 0 /\ t.quiet = q
  BY <1>3, ZenonT(30) DEF SeenType
<1>7. /\ s.touched = FALSE /\ t.touched = FALSE
      /\ s.expired = seen.expired /\ t.expired = seen.expired
  BY <1>3, ZenonT(30) DEF SeenType
<1>8. seen.expired = TRUE => timeout = 0
  BY Zenon DEF IInv, ExpiredInv
<1>. HIDE DEF s, t
<1>9. s.expired = TRUE => ~(timeout > 0)
  BY <1>7, <1>8
<1>10. /\ opened(d) \in UiType /\ opened(d).selected = d /\ UiOK(opened(d), s)
  <2>1. s.quiet = 0 /\ s.touched = FALSE
    BY <1>6, <1>7
  <2>2. SaverSeconds \in 0..MaxIdle /\ timeout \in Int /\ d \in Rows /\ s \in SeenType
    BY <1>3, <1>4, <1>5
  <2>. DEFINE o == Opened(d, timeout, SaverSeconds)
  <2>3. o \in UiType /\ o.selected = d /\ UiOK(o, s)
    BY <1>9, <2>1, <2>2, OpenedFacts
  <2>. QED
    BY <2>3
<1>11. shown(d) \in UiType /\ shown(d).selected = d /\ UiOK(shown(d), t)
  <2>1. CASE OpensAsleep
    <3>1. opened(d).state = "manual"
      BY <1>4, <2>1 DEF Opened
    <3>2. ~TickLaunches(opened(d))
      BY <3>1, Zenon, "manual" # "autoboot" DEF TickLaunches
    <3>3. t.quiet = Bump(s.quiet)
      BY <1>6, <2>1, ConnUiAssumption DEF Bump
    <3>. QED
      BY <1>3, <1>5, <1>7, <1>10, <2>1, <3>2, <3>3, TickFacts
  <2>2. CASE ~OpensAsleep
    <3>1. s = t
      BY <2>2 DEF s, t
    <3>. QED
      BY <1>10, <2>2, <3>1
  <2>. QED
    BY <2>1, <2>2
<1>. HIDE DEF shown
<1>12. ui' \in UiType /\ ui'.selected = d /\ UiOK(ui', t)
  <2>1. ui' = shown(d) \/ ui' = [shown(d) EXCEPT !.autoboot = FALSE]
    BY <1>1
  <2>. QED
    BY <1>5, <1>11, <2>1, CalledOffFacts
<1>13. def' = d /\ timer' \in BOOLEAN
  BY <1>1
<1>14. TypeOK'
  BY <1>2, <1>3, <1>5, <1>12, <1>13 DEF IInv, TypeOK, machine, main, UiType, SeenType
<1>15. ListInv' /\ MenuInv'
  BY <1>2, <1>3, <1>12, <1>13 DEF ListInv, MenuInv, main
<1>16. ExpiredInv'
  BY <1>2, <1>7, <1>8, Zenon DEF ExpiredInv, main
<1>. QED
  BY <1>14, <1>15, <1>16 DEF IInv

(***************************************************************************)
(* One lemma for the inputs of the wait loop, one for what surrounds it.   *)
(***************************************************************************)
LEMMA InputIInv ==
    ASSUME IInv,
           \/ Key \/ Escape \/ Scroll \/ NetworkKey \/ OptionsKey
           \/ PointerWakes \/ PointerClicks \/ PointerHovers
    PROVE  IInv'
<1>0. pc = "menu"
  BY DEF Key, Escape, Scroll, NetworkKey, OptionsKey, PointerWakes, PointerClicks,
         PointerHovers, InMenu
<1>1. /\ ui \in UiType /\ seen \in SeenType /\ def \in Rows /\ def < count
      /\ count \in 1..MaxEntries /\ ui.selected < count /\ UiOK(ui, seen)
      /\ hovered \in Rows \cup {-1}
      /\ \A r \in 0..(count - 1) : r \in Rows /\ r < count
  BY <1>0, InMenuFacts
<1>2. /\ Touch(seen) \in SeenType /\ Touch(seen).expired = seen.expired
      /\ [seen EXCEPT !.quiet = 0] \in SeenType
  BY <1>1, TouchFacts
<1>3. [seen EXCEPT !.quiet = 0].expired = seen.expired
  BY <1>1, Zenon DEF SeenType
<1>4. CASE Key
  <2>1. PICK key \in Keys, digit \in 1..9 :
           LET heard == IF InSaver(ui) THEN "other" ELSE key
           IN  /\ ui' = OnKey(ui, heard, digit, count)
               /\ \/ ~KeyLaunches(ui, heard) /\ Stay
                  \/ KeyLaunches(ui, heard) /\ Launch("enter")
    BY <1>4, Zenon DEF Key
  <2>. DEFINE heard == IF InSaver(ui) THEN "other" ELSE key
  <2>2. heard \in Keys
    BY DEF Keys
  <2>. HIDE DEF heard
  <2>3. ui' = OnKey(ui, heard, digit, count) /\ (Stay \/ Launch("enter"))
    BY <2>1 DEF heard
  <2>4. /\ ui' \in UiType /\ ui'.selected < count /\ UiOK(ui', Touch(seen))
    BY <1>1, <1>2, <2>2, <2>3, KeyFacts
  <2>5. InMenu /\ seen' = Touch(seen) /\ hovered' = hovered
    BY <1>4 DEF Key
  <2>6. CASE Stay
    BY <1>0, <1>1, <1>2, <2>4, <2>5, <2>6, StayFacts
  <2>7. CASE Launch("enter")
    BY <1>1, <1>2, <2>4, <2>5, <2>7, LaunchFacts DEF InMenu
  <2>. QED
    BY <2>3, <2>6, <2>7
<1>5. CASE Escape
  <2>1. /\ UNCHANGED <<machine, count, direct, screensaver, timer, def, timeout, ui,
                       hovered, chosen>>
        /\ pc' = "return" /\ exit' = "escape" /\ seen' = [seen EXCEPT !.quiet = 0]
    BY <1>5 DEF Escape, InMenu
  <2>2. TypeOK'
    BY <1>2, <2>1 DEF IInv, TypeOK, machine, SeenType
  <2>3. ExpiredInv'
    BY <1>3, <2>1, Zenon DEF IInv, ExpiredInv
  <2>. QED
    BY <2>1, <2>2, <2>3, AwayFacts
<1>6. CASE Scroll
  <2>1. /\ InMenu /\ Stay /\ ~InSaver(ui) /\ hovered' = hovered
        /\ ui' = [ui EXCEPT !.idle_s = 0] /\ seen' = [seen EXCEPT !.quiet = 0]
    BY <1>6 DEF Scroll
  <2>2. ui' \in UiType /\ ui'.selected = ui.selected /\ UiOK(ui', seen')
    BY <1>1, <2>1, ActivityFacts
  <2>. QED
    BY <1>0, <1>1, <1>2, <1>3, <2>1, <2>2, StayFacts
<1>7. CASE NetworkKey
  <2>1. /\ InMenu /\ Stay /\ ~InSaver(ui) /\ hovered' = hovered
        /\ ui' = [ui EXCEPT !.autoboot = FALSE, !.cancelled = TRUE, !.idle_s = 0]
        /\ seen' = Touch(seen)
    BY <1>7 DEF NetworkKey
  <2>2. ui' \in UiType /\ ui'.selected = ui.selected /\ UiOK(ui', seen')
    BY <1>1, <1>2, <2>1, NetworkFacts
  <2>. QED
    BY <1>0, <1>1, <1>2, <2>1, <2>2, StayFacts
<1>8. CASE OptionsKey
  <2>1. /\ UNCHANGED <<machine, count, direct, screensaver, timer, def, timeout,
                       hovered, exit, chosen>>
        /\ ui' = OpenOptions(ui) /\ pc' = "options" /\ seen' = Touch(seen)
    BY <1>8 DEF OptionsKey, InMenu
  <2>2. ui' \in UiType /\ ui'.selected = ui.selected
    BY <1>1, <2>1, OptionsFacts
  <2>3. TypeOK'
    BY <1>2, <2>1, <2>2 DEF IInv, TypeOK, machine, UiType, SeenType
  <2>4. ListInv' /\ MenuInv'
    BY <1>1, <2>1, <2>2 DEF ListInv, MenuInv
  <2>5. ExpiredInv'
    BY <1>2, <2>1, Zenon DEF IInv, ExpiredInv
  <2>. QED
    BY <2>3, <2>4, <2>5 DEF IInv
<1>9. CASE PointerWakes
  <2>1. /\ InMenu /\ Stay /\ hovered' = -1 /\ seen' = Touch(seen)
        /\ ui' = OnKey(ui, "other", 1, count)
    BY <1>9 DEF PointerWakes
  <2>2. "other" \in Keys /\ 1 \in 1..9
    BY DEF Keys
  <2>3. ui' \in UiType /\ ui'.selected < count /\ UiOK(ui', Touch(seen))
    BY <1>1, <1>2, <2>1, <2>2, KeyFacts
  <2>. QED
    BY <1>0, <1>1, <1>2, <2>1, <2>3, StayFacts
<1>10. CASE PointerClicks
  <2>1. PICK row \in 0..(count - 1) : ui' = OnPoint(ui, row) /\ hovered' = row
    BY <1>10 DEF PointerClicks
  <2>2. InMenu /\ Launch("enter") /\ seen' = Touch(seen)
    BY <1>10 DEF PointerClicks
  <2>3. ui' \in UiType
    BY <1>1, <2>1, PointFacts
  <2>. QED
    BY <1>1, <1>2, <2>1, <2>2, <2>3, LaunchFacts DEF InMenu
<1>11. CASE PointerHovers
  <2>1. PICK row \in 0..(count - 1) : ui' = OnPoint(ui, row) /\ hovered' = row
    BY <1>11 DEF PointerHovers
  <2>2. InMenu /\ Stay /\ seen' = Touch(seen)
    BY <1>11 DEF PointerHovers
  <2>3. ui' \in UiType /\ ui'.selected < count /\ UiOK(ui', Touch(seen))
    BY <1>1, <1>2, <2>1, PointFacts
  <2>. QED
    BY <1>0, <1>1, <1>2, <2>1, <2>2, <2>3, StayFacts
<1>. QED
  BY <1>4, <1>5, <1>6, <1>7, <1>8, <1>9, <1>10, <1>11

\* A second keeps the menu in order, and the last one launches the default.
LEMMA TickIInv ==
    ASSUME IInv, Tick
    PROVE  IInv'
<1>0. pc = "menu" /\ InMenu /\ hovered' = hovered /\ ui' = OnTick(ui, def)
  BY DEF Tick, InMenu
<1>1. /\ ui \in UiType /\ seen \in SeenType /\ def \in Rows /\ def < count
      /\ count \in 1..MaxEntries /\ ui.selected < count /\ UiOK(ui, seen)
      /\ hovered \in Rows \cup {-1}
  BY <1>0, InMenuFacts
<1>2. /\ [seen EXCEPT !.quiet = Bump(@)] \in SeenType
      /\ [seen EXCEPT !.quiet = Bump(@), !.expired = TRUE] \in SeenType
  BY <1>1, TouchFacts
<1>3. CASE TickLaunches(ui)
  <2>1. Launch("timeout") /\ seen' = [seen EXCEPT !.quiet = Bump(@), !.expired = TRUE]
    BY <1>3, Zenon DEF Tick
  <2>2. ui' \in UiType
    BY <1>0, <1>1, <1>3, TickLaunchFacts
  <2>. QED
    BY <1>0, <1>1, <1>2, <2>1, <2>2, LaunchFacts DEF InMenu
<1>4. CASE ~TickLaunches(ui)
  <2>1. Stay /\ seen' = [seen EXCEPT !.quiet = Bump(@)]
    BY <1>4, Zenon DEF Tick
  <2>2. seen'.quiet = Bump(seen.quiet)
    BY <1>1, <2>1 DEF SeenType
  <2>3. seen'.touched = seen.touched /\ seen'.expired = seen.expired
    BY <1>1, <2>1, Zenon DEF SeenType
  <2>4. ui' \in UiType /\ ui'.selected = ui.selected /\ UiOK(ui', seen')
    BY <1>0, <1>1, <1>2, <1>4, <2>1, <2>2, <2>3, TickFacts
  <2>. QED
    BY <1>0, <1>1, <1>2, <2>1, <2>3, <2>4, StayFacts
<1>. QED
  BY <1>3, <1>4

\* Leaving the menu, its options and the loop of efi_main.
LEMMA AroundIInv ==
    ASSUME IInv,
           \/ CannotPresent \/ NothingToPresent \/ EventsFail
           \/ SubmenuLaunches \/ EditorCommits \/ LeaveOptions
           \/ Rescan \/ ComesBack \/ Ignored \/ Leaves
    PROVE  IInv'
<1>1. /\ ui \in UiType /\ seen \in SeenType /\ Counts \subseteq Nat
      /\ config \in [timeout: Timeouts, screensaver: Savers]
      /\ hovered \in Rows \cup {-1} /\ ui.selected \in Nat
  BY ConnMenuAssumption DEF IInv, TypeOK, UiType, SeenType, Uis, Rows
<1>2. CASE CannotPresent \/ NothingToPresent
  <2>1. TypeOK'
    BY <1>1, <1>2, ConnMenuAssumption
    DEF IInv, TypeOK, CannotPresent, NothingToPresent, machine, main
  <2>2. ExpiredInv' /\ pc' = "return"
    BY <1>2, Zenon DEF IInv, ExpiredInv, CannotPresent, NothingToPresent, main
  <2>. QED
    BY <2>1, <2>2, AwayFacts
<1>3. CASE EventsFail \/ EditorCommits \/ LeaveOptions
  <2>1. TypeOK'
    BY <1>1, <1>3
    DEF IInv, TypeOK, EventsFail, EditorCommits, LeaveOptions, InMenu, InOptions, machine
  <2>2. ExpiredInv' /\ pc' \notin {"menu", "options"}
    BY <1>3 DEF IInv, ExpiredInv, EventsFail, EditorCommits, LeaveOptions
  <2>. QED
    BY <2>1, <2>2, AwayFacts
<1>4. CASE SubmenuLaunches
  BY <1>1, <1>4, LaunchFacts DEF SubmenuLaunches, InOptions
<1>5. CASE Rescan \/ ComesBack
  <2>1. /\ pc' = "loop" /\ count' \in Counts
        /\ screensaver' \in Savers \cup {DirectSaver}
        /\ UNCHANGED <<machine, timer, ui, def, hovered, result>>
        /\ timeout' \in {timeout, 0}
    BY <1>1, <1>5 DEF IInv, TypeOK, Rescan, ComesBack
  <2>2. direct' \in BOOLEAN
    BY <1>5, Zenon DEF Rescan, ComesBack
  <2>3. seen' \in SeenType /\ seen'.expired = seen.expired
    <3>1. CASE Rescan
      BY <1>1, <3>1 DEF Rescan
    <3>2. CASE ComesBack
      <4>1. (seen.returned \/ exit = "enter") \in BOOLEAN
        OBVIOUS
      <4>2. seen' = [seen EXCEPT !.returned = @ \/ exit = "enter"]
        BY <3>2, Zenon DEF ComesBack
      <4>. QED
        BY <1>1, <4>1, <4>2, ZenonT(30) DEF SeenType
    <3>. QED
      BY <1>5, <3>1, <3>2
  <2>4. TypeOK'
    BY <2>1, <2>2, <2>3 DEF IInv, TypeOK, machine, result, SeenType
  <2>5. ExpiredInv'
    BY <2>1, <2>3, Zenon DEF IInv, ExpiredInv
  <2>. QED
    BY <2>1, <2>4, <2>5, AwayFacts
<1>6. CASE Ignored \/ Leaves
  <2>1. TypeOK'
    BY <1>6 DEF IInv, TypeOK, Ignored, Leaves, machine, main, result
  <2>2. ExpiredInv' /\ pc' \in {"loop", "gone"}
    BY <1>6 DEF IInv, ExpiredInv, Ignored, Leaves, main
  <2>. QED
    BY <2>1, <2>2, AwayFacts
<1>. QED
  BY <1>2, <1>3, <1>4, <1>5, <1>6

\* Together: every step keeps the invariant.
LEMMA StepIInv == IInv /\ [Next]_vars => IInv'
<1>. SUFFICES ASSUME IInv, [Next]_vars PROVE IInv'
  OBVIOUS
<1>1. CASE UNCHANGED vars
  BY <1>1
  DEF vars, IInv, TypeOK, ListInv, MenuInv, ExpiredInv, UiOK, SaverOK, FlagsOK, CountOK,
      SecondsOK, Counting
<1>2. CASE Present
  BY <1>2, PresentIInv
<1>3. CASE Tick
  BY <1>3, TickIInv
<1>. QED
  BY <1>1, <1>2, <1>3, InputIInv, AroundIInv DEF Next, Show

\* The invariant holds throughout.
LEMMA SpecIInv == Spec => []IInv
  BY InitIInv, StepIInv, PTL DEF Spec

-----------------------------------------------------------------------------
(***************************************************************************)
(* The model of the menu and everything efi_main keeps for it stay well    *)
(* formed: in particular the row that is launched exists (conn_model in    *)
(* ui.c, ConnRunMainMenu).                                                 *)
(***************************************************************************)
THEOREM TypeOKHolds == Spec => []TypeOK
<1>1. IInv => TypeOK
  BY DEF IInv
<1>. QED
  BY <1>1, SpecIInv, PTL

(***************************************************************************)
(* The screen saver covers the menu only after the configured seconds      *)
(* without activity and never a countdown (guard_idle_ready).              *)
(***************************************************************************)
THEOREM SaverAfterQuietHolds == Spec => []SaverAfterQuiet
<1>1. IInv => SaverAfterQuiet
  <2>. SUFFICES ASSUME IInv, pc = "menu", ui.saver_active
                PROVE  ~ui.autoboot /\ ui.screensaver_s > 0 /\ seen.quiet >= ui.screensaver_s
    BY DEF SaverAfterQuiet
  <2>1. ui \in UiType /\ seen \in SeenType /\ UiOK(ui, seen)
    BY InMenuFacts
  <2>2. ui.state = "saver"
    BY <2>1, Zenon DEF UiOK, FlagsOK
  <2>3. ui.autoboot = FALSE
    BY <2>1, <2>2, Zenon DEF UiOK, FlagsOK
  <2>4. ui.screensaver_s > 0 /\ ui.idle_s >= ui.screensaver_s /\ ui.idle_s <= seen.quiet
    BY <2>1, <2>2 DEF UiOK, SaverOK
  <2>5. seen.quiet >= ui.screensaver_s
    BY <2>1, <2>4 DEF UiType, Uis, SeenType
  <2>. QED
    BY <2>3, <2>4, <2>5, Zenon
<1>. QED
  BY <1>1, SpecIInv, PTL

(***************************************************************************)
(* What the menu starts by itself is the default of a menu nobody has      *)
(* touched (MENU_EXIT_TIMEOUT in ConnRunMainMenu).                         *)
(***************************************************************************)
THEOREM UnattendedIsDefaultHolds == Spec => UnattendedIsDefault
<1>1. ASSUME IInv, [Next]_vars, pc = "menu", pc' = "return", exit' = "timeout"
      PROVE  ~seen.touched /\ chosen' = def
  <2>1. pc' # pc
    BY <1>1
  <2>2. Tick \/ Key \/ Escape \/ PointerClicks \/ EventsFail
    BY <1>1, <2>1
    DEF Next, Show, Present, CannotPresent, NothingToPresent, Scroll, NetworkKey, OptionsKey,
        PointerWakes, PointerHovers, SubmenuLaunches, EditorCommits, LeaveOptions, InOptions,
        Rescan, ComesBack, Ignored, Leaves, Stay, vars
  <2>3. ~Key /\ ~PointerClicks
    BY <1>1, <2>1 DEF Key, PointerClicks, Launch, Stay
  <2>4. ~Escape /\ ~EventsFail
    BY <1>1 DEF Escape, EventsFail
  <2>5. TickLaunches(ui) /\ Launch("timeout") /\ ui' = OnTick(ui, def)
    BY <2>1, <2>2, <2>3, <2>4, Zenon DEF Tick, Stay
  <2>6. ui \in UiType /\ def \in Rows /\ UiOK(ui, seen)
    BY <1>1, InMenuFacts
  <2>7. chosen' = def
    BY <2>5, <2>6, TickLaunchFacts DEF Launch
  <2>8. seen.touched = FALSE
    BY <2>5, <2>6, Zenon DEF TickLaunches, UiOK, CountOK
  <2>. QED
    BY <2>7, <2>8
<1>2. IInv /\ [Next]_vars =>
        (pc = "menu" /\ pc' = "return" /\ exit' = "timeout" => ~seen.touched /\ chosen' = def)
  BY <1>1
<1>. QED
  BY <1>2, SpecIInv, PTL DEF Spec, UnattendedIsDefault

(***************************************************************************)
(* The input that wakes the menu does nothing else (ConnRunMainMenu asks   *)
(* for the saver before it looks at the key; action_wake).                 *)
(***************************************************************************)
THEOREM WakeIsSwallowedHolds == Spec => WakeIsSwallowed
<1>1. ASSUME IInv, [Next]_vars, pc = "menu", ui.saver_active
      PROVE  /\ ui'.selected = ui.selected
             /\ pc' = "menu" \/ (pc' = "return" /\ exit' = "escape" /\ seen' = seen)
  <2>1. /\ ui \in UiType /\ seen \in SeenType /\ def \in Rows /\ def < count
        /\ count \in 1..MaxEntries /\ ui.selected < count /\ UiOK(ui, seen)
    BY <1>1, InMenuFacts
  <2>2. ui.state = "saver" /\ InSaver(ui)
    BY <1>1, <2>1, Zenon DEF InSaver, UiOK, FlagsOK
  <2>3. Key \/ PointerWakes \/ Tick \/ EventsFail \/ UNCHANGED vars
    BY <1>1, <2>2
    DEF Next, Show, Present, CannotPresent, NothingToPresent, Escape, Scroll, NetworkKey,
        OptionsKey, PointerClicks, PointerHovers, SubmenuLaunches, EditorCommits, LeaveOptions,
        InOptions, Rescan, ComesBack, Ignored, Leaves
  <2>4. \A key \in Keys, d \in 1..9 : OnKey(ui, key, d, count).selected = ui.selected
    BY <2>1, <2>2, StoppedFacts DEF OnKey
  <2>5. CASE Key
    <3>1. ~KeyLaunches(ui, "other")
      BY DEF KeyLaunches
    <3>2. \E d \in 1..9 : ui' = OnKey(ui, "other", d, count) /\ Stay
      BY <2>2, <2>5, <3>1, Zenon DEF Key
    <3>3. "other" \in Keys
      BY DEF Keys
    <3>. QED
      BY <1>1, <2>4, <3>2, <3>3 DEF Stay
  <2>6. CASE PointerWakes
    BY <1>1, <2>4, <2>6 DEF PointerWakes, Stay, Keys
  <2>7. CASE Tick
    <3>1. ~TickLaunches(ui)
      BY <2>2, "saver" # "autoboot", Zenon DEF TickLaunches
    <3>2. Stay /\ ui' = OnTick(ui, def) /\ seen' = [seen EXCEPT !.quiet = Bump(@)]
      BY <2>7, <3>1, Zenon DEF Tick
    <3>3. seen' \in SeenType
      BY <2>1, <3>2, TouchFacts
    <3>4. seen'.quiet = Bump(seen.quiet)
      BY <2>1, <3>2 DEF SeenType
    <3>5. seen'.touched = seen.touched /\ seen'.expired = seen.expired
      BY <2>1, <3>2, Zenon DEF SeenType
    <3>6. ui'.selected = ui.selected
      BY <2>1, <3>1, <3>2, <3>3, <3>4, <3>5, TickFacts
    <3>. QED
      BY <1>1, <3>2, <3>6 DEF Stay
  <2>8. CASE EventsFail
    BY <2>8 DEF EventsFail
  <2>9. CASE UNCHANGED vars
    BY <1>1, <2>9 DEF vars
  <2>. QED
    BY <2>3, <2>5, <2>6, <2>7, <2>8, <2>9
<1>2. IInv /\ [Next]_vars =>
        (pc = "menu" /\ ui.saver_active =>
           /\ ui'.selected = ui.selected
           /\ pc' = "menu" \/ (pc' = "return" /\ exit' = "escape" /\ seen' = seen))
  BY <1>1
<1>. QED
  BY <1>2, SpecIInv, PTL DEF Spec, WakeIsSwallowed

-----------------------------------------------------------------------------
(***************************************************************************)
(* The refinement of AutoBoot.  One lemma says what a second does to the   *)
(* countdown; every other step arms it, stops it or leaves it alone.       *)
(***************************************************************************)
Left == IF CountingDown THEN ui.countdown_s ELSE 0

LEMMA SecondFacts ==
    ASSUME NEW u \in UiType, NEW d \in Rows, NEW s \in SeenType,
           UiOK(u, s), ~TickLaunches(u)
    PROVE  /\ Counting(OnTick(u, d)) <=> Counting(u)
           /\ Counting(u) => /\ u.countdown_s > 1
                             /\ OnTick(u, d).countdown_s = u.countdown_s - 1
<1>1. u.countdown_s \in Nat
  BY DEF UiType, Uis
<1>2. CASE Counting(u)
  <2>1. u.state = "autoboot" /\ u.countdown_s >= 1
    BY <1>2, Zenon DEF UiOK, CountOK, SecondsOK
  <2>2. u.countdown_s > 1
    BY <1>1, <1>2, <2>1 DEF TickLaunches
  <2>. DEFINE v == [u EXCEPT !.countdown_s = @ - 1]
  <2>3. OnTick(u, d) = v
    BY <1>2, <2>1, <2>2, Zenon DEF OnTick
  <2>4. v.countdown_s = u.countdown_s - 1
    BY DEF UiType, Uis
  <2>5. v.autoboot = u.autoboot /\ v.cancelled = u.cancelled
    BY Zenon DEF UiType, Uis
  <2>. HIDE DEF v
  <2>6. Counting(v)
    BY <1>2, <2>5, Zenon DEF Counting
  <2>. QED
    BY <1>2, <2>2, <2>3, <2>4, <2>6
<1>3. CASE ~Counting(u)
  <2>. DEFINE sleep == [u EXCEPT !.state = "saver", !.idle_s = Bump(@),
                                 !.saver_active = TRUE, !.autoboot = FALSE]
              wait == [u EXCEPT !.idle_s = Bump(@)]
              dream == [u EXCEPT !.idle_s = Bump(@), !.saver_active = TRUE]
  <2>1. OnTick(u, d) = sleep \/ OnTick(u, d) = wait \/ OnTick(u, d) = dream
          \/ OnTick(u, d) = u
    BY <1>3, ZenonT(30) DEF OnTick
  <2>2. sleep.autoboot = FALSE
    BY Zenon DEF UiType, Uis
  <2>3. wait.autoboot = u.autoboot /\ wait.cancelled = u.cancelled
    BY Zenon DEF UiType, Uis
  <2>4. dream.autoboot = u.autoboot /\ dream.cancelled = u.cancelled
    BY Zenon DEF UiType, Uis
  <2>. HIDE DEF sleep, wait, dream
  <2>5. ~Counting(OnTick(u, d))
    BY <1>3, <2>1, <2>2, <2>3, <2>4, Zenon DEF Counting
  <2>. QED
    BY <1>3, <2>5
<1>. QED
  BY <1>2, <1>3

\* A countdown that is not shown stands at zero, one that is shown does not.
LeftInv ==
    /\ CountingDown => /\ Left = ui.countdown_s
                       /\ Left \in Nat \ {0}
                       /\ seen.expired = FALSE
    /\ ~CountingDown => Left = 0

LEMMA LeftFacts == IInv => LeftInv
<1>. SUFFICES ASSUME IInv PROVE LeftInv
  OBVIOUS
<1>1. CASE CountingDown
  <2>1. pc = "menu" /\ Counting(ui)
    BY <1>1 DEF CountingDown
  <2>2. ui \in UiType /\ UiOK(ui, seen)
    BY <2>1, InMenuFacts
  <2>3. ui.countdown_s >= 1 /\ seen.expired = FALSE
    BY <2>1, <2>2, Zenon DEF UiOK, CountOK, SecondsOK
  <2>4. ui.countdown_s \in Nat \ {0}
    BY <2>2, <2>3 DEF UiType, Uis
  <2>5. Left = ui.countdown_s
    BY <1>1 DEF Left
  <2>. QED
    BY <1>1, <2>3, <2>4, <2>5, Zenon DEF LeftInv
<1>2. CASE ~CountingDown
  BY <1>2, Zenon DEF LeftInv, Left
<1>. QED
  BY <1>1, <1>2

\* Steps that keep the history leave AutoBoot alone unless they arm or stop it.
LEMMA NoSecond ==
    ASSUME IInv, IInv', seen'.expired = seen.expired,
           \/ ~CountingDown
           \/ ~CountingDown'
           \/ CountingDown /\ CountingDown' /\ ui'.countdown_s = ui.countdown_s
    PROVE  [Countdown!Next]_(Countdown!vars)
<1>1. LeftInv
  BY LeftFacts
<1>2. LeftInv'
  BY LeftFacts, PTL
<1>3. \/ Left' = Left
      \/ Left = 0 /\ Left' \in Nat \ {0} /\ ~seen.expired
      \/ Left > 0 /\ Left' = 0
  BY <1>1, <1>2 DEF LeftInv
<1>. QED
  BY <1>3
  DEF Left, Countdown!Next, Countdown!Arm, Countdown!Stop, Countdown!vars

LEMMA AutoBootStep == IInv /\ IInv' /\ [Next]_vars => [Countdown!Next]_(Countdown!vars)
<1>. SUFFICES ASSUME IInv, IInv', [Next]_vars
              PROVE  [Countdown!Next]_(Countdown!vars)
  OBVIOUS
<1>0. seen \in SeenType
  BY DEF IInv, TypeOK, SeenType
<1>1. CASE UNCHANGED vars
  BY <1>1, NoSecond DEF vars, CountingDown, Counting
<1>2. CASE pc # "menu" /\ ~Tick /\ ~(UNCHANGED vars)
  <2>1. ~CountingDown
    BY <1>2 DEF CountingDown
  <2>2. seen'.expired = seen.expired
    BY <1>0, <1>2
    DEF Next, Show, Present, CannotPresent, NothingToPresent, Key, Escape, Scroll, NetworkKey,
        OptionsKey, PointerWakes, PointerClicks, PointerHovers, EventsFail, SubmenuLaunches,
        EditorCommits, LeaveOptions, InMenu, Rescan, ComesBack, Ignored, Leaves, SeenType
  <2>. QED
    BY <2>1, <2>2, NoSecond
<1>3. CASE pc = "menu" /\ ~Tick /\ ~(UNCHANGED vars)
  <2>1. /\ ui \in UiType /\ seen \in SeenType /\ def \in Rows /\ def < count
        /\ count \in 1..MaxEntries /\ ui.selected < count /\ UiOK(ui, seen)
        /\ \A r \in 0..(count - 1) : r \in Rows /\ r < count
    BY <1>3, InMenuFacts
  <2>2. /\ Touch(seen) \in SeenType /\ Touch(seen).expired = seen.expired
    BY <2>1, TouchFacts
  <2>3. [seen EXCEPT !.quiet = 0].expired = seen.expired
    BY <2>1, Zenon DEF SeenType
  <2>4. Key \/ Escape \/ Scroll \/ NetworkKey \/ OptionsKey \/ PointerWakes
          \/ PointerClicks \/ PointerHovers \/ EventsFail
    BY <1>3
    DEF Next, Show, Present, CannotPresent, NothingToPresent, SubmenuLaunches, EditorCommits,
        LeaveOptions, InOptions, Rescan, ComesBack, Ignored, Leaves
  <2>5. CASE Key
    <3>1. PICK key \in Keys, digit \in 1..9 :
             ui' = OnKey(ui, IF InSaver(ui) THEN "other" ELSE key, digit, count)
      BY <2>5, Zenon DEF Key
    <3>2. (IF InSaver(ui) THEN "other" ELSE key) \in Keys
      BY DEF Keys
    <3>3. ~Counting(ui')
      BY <2>1, <3>1, <3>2, KeyFacts
    <3>4. seen' = Touch(seen)
      BY <2>5 DEF Key
    <3>. QED
      BY <2>2, <3>3, <3>4, NoSecond DEF CountingDown
  <2>6. CASE Escape \/ EventsFail \/ OptionsKey
    <3>1. pc' # "menu" /\ seen'.expired = seen.expired
      BY <2>2, <2>3, <2>6 DEF Escape, EventsFail, OptionsKey
    <3>. QED
      BY <3>1, NoSecond DEF CountingDown
  <2>7. CASE Scroll
    <3>1. ui' = [ui EXCEPT !.idle_s = 0] /\ seen' = [seen EXCEPT !.quiet = 0]
      BY <2>7 DEF Scroll
    <3>2. ui'.countdown_s = ui.countdown_s
      BY <2>1, <3>1 DEF UiType, Uis
    <3>3. seen'.expired = seen.expired
      BY <2>3, <3>1
    <3>. QED
      BY <3>2, <3>3, NoSecond
  <2>8. CASE NetworkKey
    <3>1. /\ ui' = [ui EXCEPT !.autoboot = FALSE, !.cancelled = TRUE, !.idle_s = 0]
          /\ seen' = Touch(seen) /\ ~InSaver(ui)
      BY <2>8 DEF NetworkKey
    <3>2. ~Counting(ui')
      BY <2>1, <2>2, <3>1, NetworkFacts
    <3>. QED
      BY <2>2, <3>1, <3>2, NoSecond DEF CountingDown
  <2>9. CASE PointerWakes
    <3>1. ui' = OnKey(ui, "other", 1, count) /\ seen' = Touch(seen)
      BY <2>9 DEF PointerWakes
    <3>2. "other" \in Keys /\ 1 \in 1..9
      BY DEF Keys
    <3>3. ~Counting(ui')
      BY <2>1, <3>1, <3>2, KeyFacts
    <3>. QED
      BY <2>2, <3>1, <3>3, NoSecond DEF CountingDown
  <2>10. CASE PointerClicks \/ PointerHovers
    <3>1. seen' = Touch(seen) /\ \E row \in 0..(count - 1) : ui' = OnPoint(ui, row)
      BY <2>10 DEF PointerClicks, PointerHovers
    <3>2. ~Counting(ui')
      BY <2>1, <3>1, PointFacts
    <3>. QED
      BY <2>2, <3>1, <3>2, NoSecond DEF CountingDown
  <2>. QED
    BY <2>4, <2>5, <2>6, <2>7, <2>8, <2>9, <2>10
<1>4. CASE Tick
  <2>1. pc = "menu" /\ ui' = OnTick(ui, def)
    BY <1>4 DEF Tick, InMenu
  <2>2. ui \in UiType /\ seen \in SeenType /\ def \in Rows /\ UiOK(ui, seen)
    BY <2>1, InMenuFacts
  <2>3. CASE TickLaunches(ui)
    <3>1. pc' = "return" /\ seen' = [seen EXCEPT !.quiet = Bump(@), !.expired = TRUE]
      BY <1>4, <2>3, Zenon DEF Tick, Launch
    <3>2. seen'.expired = TRUE
      BY <2>2, <3>1, ZenonT(30) DEF SeenType
    <3>3. CountingDown /\ ~CountingDown'
      BY <2>1, <2>3, <3>1 DEF CountingDown, TickLaunches
    <3>4. ui.countdown_s <= 1
      BY <2>3 DEF TickLaunches
    <3>5. Left = 1
      BY <2>2, <3>3, <3>4, LeftFacts DEF LeftInv, UiType, Uis
    <3>6. Left' = 0
      BY <3>3 DEF Left
    <3>. QED
      BY <3>2, <3>5, <3>6 DEF Left, Countdown!Next, Countdown!Expire
  <2>4. CASE ~TickLaunches(ui)
    <3>1. Stay /\ seen' = [seen EXCEPT !.quiet = Bump(@)]
      BY <1>4, <2>4, Zenon DEF Tick
    <3>2. seen'.expired = seen.expired
      BY <2>2, <3>1, Zenon DEF SeenType
    <3>3. /\ Counting(ui') <=> Counting(ui)
          /\ Counting(ui) => ui.countdown_s > 1 /\ ui'.countdown_s = ui.countdown_s - 1
      BY <2>1, <2>2, <2>4, SecondFacts
    <3>4. CASE Counting(ui)
      <4>1. CountingDown /\ CountingDown'
        BY <2>1, <3>1, <3>3, <3>4 DEF CountingDown, Stay
      <4>2. Left > 1 /\ Left' = Left - 1
        BY <3>3, <3>4, <4>1 DEF Left
      <4>. QED
        BY <3>2, <4>2 DEF Left, Countdown!Next, Countdown!Second
    <3>5. CASE ~Counting(ui)
      BY <3>2, <3>5, NoSecond DEF CountingDown
    <3>. QED
      BY <3>4, <3>5
  <2>. QED
    BY <2>3, <2>4
<1>. QED
  BY <1>1, <1>2, <1>3, <1>4

(***************************************************************************)
(* The countdown is the one of AutoBoot, up to its liveness: it goes down  *)
(* one by one, launches after exactly its seconds, and does not come back  *)
(* once it has run out (TimeoutSeconds = 0 in ConnRunMainMenu).            *)
(***************************************************************************)
THEOREM CountdownIsSafe == Spec => Countdown!Safety
<1>1. Init => Countdown!Init
  BY DEF Init, Countdown!Init, CountingDown, Fresh
<1>2. IInv /\ IInv' /\ [Next]_vars => [Countdown!Next]_(Countdown!vars)
  BY AutoBootStep
<1>. QED
  BY <1>1, <1>2, SpecIInv, PTL DEF Spec, Countdown!Safety

=============================================================================

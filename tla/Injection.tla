----------------------------- MODULE Injection -----------------------------
(***************************************************************************)
(* InjectionFragment: its button, the LiveData mState, the field timer and *)
(* the java.util.Timer threads that count an injection down.               *)
(*                                                                         *)
(* A press that starts an injection and the Timer it makes share a name k. *)
(* Timer threads interleave with the handlers of the main thread at every  *)
(* access to the field and to mState.  One instance is modelled: a visit   *)
(* of the screen makes a new one, and the timers of an old instance only   *)
(* see the old instance.                                                   *)
(***************************************************************************)
EXTENDS Integers

CONSTANTS
    Timers,       \* presses that start an injection, and their Timers
    NONE,         \* the null reference
    Confs,        \* what the user may enter: delay, period (ms) and number
    Second,       \* milliseconds in a second (1000)
    Half,         \* an int is in -Half..Half-1 (2^31)
    Env           \* what user and environment may do beyond the ordinary

(* impatient   clicks before a post is dispatched, or while the last tick  *)
(*             of a timer runs                                             *)
(* leaves      the user leaves the screen                                  *)
(* menu        the user picks "reload firmware" or "restart nic"           *)
(* noSu        the root shell is refused or dies                           *)
(* blank       the user presses start with an empty number field           *)
InjectionLiberties == {"impatient", "leaves", "menu", "noSu", "blank"}

ASSUME InjectionAssumption ==
    /\ NONE \notin Timers \cup {"idle", "injecting"}
    /\ NONE \notin Confs
    /\ Second \in Nat \ {0}
    /\ Half \in Nat \ {0}
    /\ Confs \subseteq [delay : 0..Half - 1, period : 0..Half - 1, number : 0..Half - 1]
    /\ Env \subseteq InjectionLiberties

VARIABLES
    viewUp,       \* the view exists
    shell,        \* the process behind field bp
    state,        \* the fragment's field `state`
    mState,       \* the value of the LiveData mState
    pending,      \* the value postValue has queued for the main looper
    button,       \* the text of button_start
    timer,        \* field timer: the Timer last assigned, or NONE
    mainPc,       \* where the main thread is in the click handler
    pressed,      \* the press the handler is working on
    timerPc,      \* where each Timer thread is
    cancelled,    \* the Timers cancel() has been called on
    left,         \* seconds2 of each TimerTask
    victim,       \* the Timer a task has read from the field
    conf,         \* the parameters of each injection
    appUp         \* no thread has died of an uncaught exception

screenVars == <<viewUp, shell, state, mState, pending, button>>
timerVars == <<timerPc, cancelled, left, victim, conf>>
vars == <<screenVars, timerVars, timer, mainPc, pressed, appUp>>

Int32 == -Half..Half - 1

MainPc == {"looper", "configure", "input", "output", "newTimer", "schedule", "stopped"}

TimerPc == {"unborn", "started", "failed", "wait", "read", "cancel", "post", "dead"}

TypeOK ==
    /\ viewUp \in BOOLEAN
    /\ shell \in {"none", "up", "dead", "closed"}
    /\ state \in {"idle", "injecting"}
    /\ mState \in {"idle", "injecting"}
    /\ pending \in {"idle", "injecting", NONE}
    /\ button \in {"start", "stop"}
    /\ timer \in Timers \cup {NONE}
    /\ mainPc \in MainPc
    /\ pressed \in Timers \cup {NONE}
    /\ timerPc \in [Timers -> TimerPc]
    /\ cancelled \subseteq Timers
    /\ left \in [Timers -> Int32]
    /\ victim \in [Timers -> Timers \cup {NONE}]
    /\ conf \in [Timers -> Confs \cup {NONE}]
    /\ appUp \in BOOLEAN

Init ==
    /\ viewUp = TRUE
    /\ shell = "none"
    /\ state = "idle"
    /\ mState = "idle"
    /\ pending = NONE
    /\ button = "start"
    /\ timer = NONE
    /\ mainPc = "looper"
    /\ pressed = NONE
    /\ timerPc = [k \in Timers |-> "unborn"]
    /\ cancelled = {}
    /\ left = [k \in Timers |-> 0]
    /\ victim = [k \in Timers |-> NONE]
    /\ conf = [k \in Timers |-> NONE]
    /\ appUp = TRUE

-----------------------------------------------------------------------------
(* Java's int arithmetic: wrap-around, and division that rounds to zero *)

Wrap(x) == ((x + Half) % (2 * Half)) - Half

Quotient(x, y) == IF x >= 0 THEN x \div y ELSE -((-x) \div y)

(* Mutants of HalfSeconds: the delay is forgotten; nothing wraps. *)
HalfSecondsNoDelay(c) ==
    Wrap(2 * Quotient(Wrap(c.number * c.period), Second))

HalfSecondsUnbounded(c) ==
    2 * (Quotient(c.delay, Second) + Quotient(c.number * c.period, Second))

(* (delay/1000 + number*period/1000)*2, the initial value of seconds2. *)
HalfSeconds(c) ==
    Wrap(2 * Wrap(Quotient(c.delay, Second)
                  + Quotient(Wrap(c.number * c.period), Second)))

-----------------------------------------------------------------------------
(* The main thread *)

OnMain == appUp /\ mainPc = "looper"

Handler(from, to) == appUp /\ mainPc = from /\ mainPc' = to

Crash == appUp' = FALSE /\ UNCHANGED <<screenVars, timerVars, timer, mainPc, pressed>>

Running(k) == timerPc[k] \in {"read", "cancel", "post"}

UserWaited == pending = NONE /\ \A k \in Timers : ~Running(k)

(* The observer of mState tests the field `state`, not the value. *)
DispatchPosted ==
    /\ OnMain
    /\ pending # NONE
    /\ mState' = pending
    /\ pending' = NONE
    /\ button' = IF ~viewUp THEN button ELSE IF state = "idle" THEN "start" ELSE "stop"
    /\ UNCHANGED <<viewUp, shell, state, timerVars, timer, mainPc, pressed, appUp>>

(* button_root: a new BashProcess; an old one is dropped.  A shell that su *)
(* refuses is up and then dies.                                            *)
OpenRoot ==
    /\ OnMain
    /\ viewUp
    /\ shell # "up"
    /\ shell' = "up"
    /\ UNCHANGED <<viewUp, state, mState, pending, button, timerVars, timer,
                   mainPc, pressed, appUp>>

ShellDies ==
    /\ "noSu" \in Env /\ appUp
    /\ shell = "up"
    /\ shell' = "dead"
    /\ UNCHANGED <<viewUp, state, mState, pending, button, timerVars, timer,
                   mainPc, pressed, appUp>>

(* button_start posts injecting, ... *)
ClickStart ==
    /\ Handler("looper", "configure")
    /\ viewUp /\ shell # "none"
    /\ mState = "idle"
    /\ "impatient" \in Env \/ UserWaited
    /\ pending' = "injecting"
    /\ \E k \in Timers :
         /\ timerPc[k] = "unborn"
         /\ timerPc' = [timerPc EXCEPT ![k] = "started"]
         /\ pressed' = k
    /\ UNCHANGED <<viewUp, shell, state, mState, button, cancelled, left, victim,
                   conf, timer, appUp>>

(* ... parses the three numbers, which throws for an empty field, ... *)
Configure ==
    \/ /\ Handler("configure", "input")
       /\ \E c \in Confs : conf' = [conf EXCEPT ![pressed] = c]
       /\ UNCHANGED <<screenVars, timerPc, cancelled, left, victim, timer, pressed, appUp>>
    \/ /\ appUp /\ mainPc = "configure"
       /\ "blank" \in Env
       /\ Crash

Fail ==
    /\ mainPc' = "looper"
    /\ pressed' = NONE
    /\ timerPc' = [timerPc EXCEPT ![pressed] = "failed"]
    /\ UNCHANGED <<screenVars, cancelled, left, victim, conf, timer, appUp>>

(* ... writes the nexutil and injectutil command lines, ... *)
InputCommands ==
    \/ /\ Handler("input", "output")
       /\ shell = "up"
       /\ UNCHANGED <<screenVars, timerVars, timer, pressed, appUp>>
    \/ /\ appUp /\ mainPc = "input"
       /\ shell # "up"
       /\ Fail

(* ... waits for their output (the number field takes digits only, so the  *)
(* test number >= 0 that follows holds), ...                               *)
ReadOutput ==
    \/ /\ Handler("output", "newTimer")
       /\ UNCHANGED <<screenVars, timerVars, timer, pressed, appUp>>
    \/ /\ appUp /\ mainPc = "output"
       /\ shell # "up"
       /\ Fail

(* Mutant of NewTimer: a Timer that is there is used again. *)
NewTimerOnlyOnce ==
    /\ Handler("newTimer", "schedule")
    /\ timer' = IF timer = NONE THEN pressed ELSE timer
    /\ UNCHANGED <<screenVars, timerVars, pressed, appUp>>

(* ... assigns a new Timer to the field, ... *)
NewTimer ==
    /\ Handler("newTimer", "schedule")
    /\ timer' = pressed
    /\ UNCHANGED <<screenVars, timerVars, pressed, appUp>>

(* ... and schedules the countdown on what the field holds; on a Timer     *)
(* that has been cancelled that throws IllegalStateException.              *)
Schedule ==
    \/ /\ Handler("schedule", "looper")
       /\ timer \notin cancelled
       /\ timerPc' = [timerPc EXCEPT ![timer] = "wait"]
       /\ left' = [left EXCEPT ![timer] = HalfSeconds(conf[timer])]
       /\ pressed' = NONE
       /\ UNCHANGED <<screenVars, cancelled, victim, conf, timer, appUp>>
    \/ /\ appUp /\ mainPc = "schedule"
       /\ timer \in cancelled
       /\ Crash

(* Mutant of ClickStop: the timer is not cancelled. *)
ClickStopNoCancel ==
    /\ Handler("looper", "stopped")
    /\ viewUp /\ shell # "none"
    /\ mState # "idle"
    /\ "impatient" \in Env \/ UserWaited
    /\ UNCHANGED <<screenVars, timerVars, timer, pressed, appUp>>

(* button_start while mState is not idle: cancel the timer, ... *)
ClickStop ==
    /\ Handler("looper", "stopped")
    /\ viewUp /\ shell # "none"
    /\ mState # "idle"
    /\ "impatient" \in Env \/ UserWaited
    /\ cancelled' = IF timer = NONE THEN cancelled ELSE cancelled \cup {timer}
    /\ UNCHANGED <<screenVars, timerPc, left, victim, conf, timer, pressed, appUp>>

(* ... then post idle. *)
StopPostsIdle ==
    /\ Handler("stopped", "looper")
    /\ pending' = "idle"
    /\ UNCHANGED <<viewUp, shell, state, mState, button, timerVars, timer, pressed, appUp>>

(* onDestroyView exits the shell (which throws, and is caught, when it is  *)
(* dead) and leaves the timer alone.                                       *)
OnDestroyView ==
    /\ OnMain
    /\ viewUp
    /\ "leaves" \in Env
    /\ viewUp' = FALSE
    /\ shell' = IF shell = "up" THEN "closed" ELSE shell
    /\ UNCHANGED <<state, mState, pending, button, timerVars, timer, mainPc, pressed, appUp>>

(* A NIC menu item shows a toast from a thread without a looper when there *)
(* is no shell; with one it writes command lines nothing here depends on.  *)
NicMenuWithoutShell ==
    /\ OnMain
    /\ viewUp
    /\ "menu" \in Env
    /\ shell = "none"
    /\ Crash

-----------------------------------------------------------------------------
(* The Timer threads *)

(* The countdown after a tick.  Below zero all values act the same, so -1  *)
(* stands for them.                                                        *)
Countdown(n) == IF n > 0 THEN n - 1 ELSE -1

(* A tick of the task, unless the Timer was cancelled before it began. *)
Tick(k) ==
    /\ appUp
    /\ timerPc[k] = "wait"
    /\ k \notin cancelled
    /\ left' = [left EXCEPT ![k] = Countdown(@)]
    /\ timerPc' = [timerPc EXCEPT ![k] = IF left'[k] <= 0 THEN "read" ELSE "wait"]
    /\ UNCHANGED <<screenVars, cancelled, victim, conf, timer, mainPc, pressed, appUp>>

(* timer.cancel() in the task: read the fragment's field, ... *)
ReadTimerField(k) ==
    /\ appUp
    /\ timerPc[k] = "read"
    /\ timerPc' = [timerPc EXCEPT ![k] = "cancel"]
    /\ victim' = [victim EXCEPT ![k] = timer]
    /\ UNCHANGED <<screenVars, cancelled, left, conf, timer, mainPc, pressed, appUp>>

(* ... cancel that Timer, ... *)
CancelVictim(k) ==
    /\ appUp
    /\ timerPc[k] = "cancel"
    /\ timerPc' = [timerPc EXCEPT ![k] = "post"]
    /\ cancelled' = cancelled \cup {victim[k]}
    /\ victim' = [victim EXCEPT ![k] = NONE]
    /\ UNCHANGED <<screenVars, left, conf, timer, mainPc, pressed, appUp>>

(* Mutant of TimerPostsIdle: the task only stops itself. *)
TimerPostsNothing(k) ==
    /\ appUp
    /\ timerPc[k] = "post"
    /\ timerPc' = [timerPc EXCEPT ![k] = "wait"]
    /\ UNCHANGED <<screenVars, cancelled, left, victim, conf, timer, mainPc, pressed, appUp>>

(* ... and post idle.  The task ticks again if its own Timer goes on. *)
TimerPostsIdle(k) ==
    /\ appUp
    /\ timerPc[k] = "post"
    /\ timerPc' = [timerPc EXCEPT ![k] = "wait"]
    /\ pending' = "idle"
    /\ UNCHANGED <<viewUp, shell, state, mState, button, cancelled, left, victim,
                   conf, timer, mainPc, pressed, appUp>>

(* The thread of a cancelled Timer ends. *)
TimerEnds(k) ==
    /\ appUp
    /\ timerPc[k] = "wait"
    /\ k \in cancelled
    /\ timerPc' = [timerPc EXCEPT ![k] = "dead"]
    /\ UNCHANGED <<screenVars, cancelled, left, victim, conf, timer, mainPc, pressed, appUp>>

-----------------------------------------------------------------------------
(* The whole *)

ClickHandler ==
    \/ Configure \/ InputCommands \/ ReadOutput \/ NewTimer \/ Schedule \/ StopPostsIdle

MainThread ==
    \/ DispatchPosted \/ ClickStart \/ ClickHandler \/ ClickStop
    \/ OpenRoot \/ OnDestroyView \/ NicMenuWithoutShell

TimerThread(k) ==
    Tick(k) \/ ReadTimerField(k) \/ CancelVictim(k) \/ TimerPostsIdle(k) \/ TimerEnds(k)

Next == MainThread \/ ShellDies \/ \E k \in Timers : TimerThread(k)

Spec == Init /\ [][Next]_vars

(* A handler that runs goes on and timers tick; a posted value is in the   *)
(* looper's queue and is dispatched however often the user clicks.         *)
FairSpec ==
    /\ Spec
    /\ WF_vars(ClickHandler)
    /\ SF_vars(DispatchPosted)
    /\ \A k \in Timers : WF_vars(TimerThread(k))

-----------------------------------------------------------------------------
(* Properties *)

(* What mState is once the main looper has caught up. *)
Shown == IF pending = NONE THEN mState ELSE pending

WillPost(k) == Running(k) \/ (timerPc[k] = "wait" /\ k \notin cancelled)

(* However presses, ticks and dispatches interleave, and although a task   *)
(* may cancel another injection's Timer: as long as the screen says        *)
(* injecting, some Timer is left that will post idle, unless a start has   *)
(* failed with an IOException (InjectionFragment:273, 303-304, 309-316).   *)
InjectingHasTimer ==
    OnMain /\ Shown = "injecting"
        => \E k \in Timers : WillPost(k) \/ timerPc[k] = "failed"

(* The countdown of a Timer that has been scheduled is over.               *)
RanOut(k) == timerPc[k] \notin {"unborn", "started", "failed"} /\ left[k] <= 0

(* Besides an empty number field and a menu item without a shell, the app  *)
(* dies only when the last tick of another injection's Timer comes between *)
(* the assignment of a new Timer and its schedule (InjectionFragment:      *)
(* 287-288, 303).                                                          *)
CrashNeedsStaleTick ==
    [][appUp /\ ~appUp' =>
         \/ mainPc = "configure"
         \/ mainPc = "looper" /\ shell = "none"
         \/ mainPc = "schedule" /\ \E k \in Timers \ {timer} : RanOut(k)]_vars

(* For a user who waits, the only Timer that ticks is the one in the field *)
(* and the screen says injecting: nothing ticks on behind an idle screen   *)
(* or cancels the Timer of a later injection.                              *)
NoStrayTimer ==
    OnMain => \A k \in Timers :
        timerPc[k] = "wait" /\ k \notin cancelled => k = timer /\ Shown = "injecting"

Duration(c) == c.delay + c.number * c.period

Fits(c) ==
    /\ c.number * c.period < Half
    /\ 2 * (c.delay \div Second + (c.number * c.period) \div Second) < Half

(* When a countdown runs out, less than two seconds of the injection are   *)
(* left, for parameters whose arithmetic fits an int                       *)
(* (InjectionFragment:289, 292, 302).                                      *)
NeverIdleEarly ==
    \A k \in Timers :
        timerPc[k] = "read" /\ Fits(conf[k])
            => (HalfSeconds(conf[k]) - left[k]) * Second
                   > 2 * Duration(conf[k]) - 4 * Second

(* Every injection is over some time on the screen: the countdown or a     *)
(* stop takes "injecting" back, also when timers cancel each other (if no   *)
(* start fails).                                                           *)
InjectionEnds ==
    mState = "injecting"
        ~> mState = "idle" \/ ~appUp \/ \E k \in Timers : timerPc[k] = "failed"

(* The observer that updates the UI (InjectionFragment:88, 108-116): while *)
(* the screen's state is injecting the button says "stop".                 *)
ButtonFollowsState ==
    OnMain /\ pending = NONE /\ mState = "injecting" => button = "stop"
=============================================================================

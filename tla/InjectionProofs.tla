-------------------------- MODULE InjectionProofs --------------------------
(***************************************************************************)
(* What holds of the injection screen for any number of presses, any       *)
(* parameters, any int width and any Env.                                  *)
(***************************************************************************)
EXTENDS Injection, TLAPS

InStart == {"configure", "input", "output", "newTimer", "schedule"}

(* What the places of the threads say about fields and locals. *)
Anchored ==
    /\ mainPc \in InStart => pressed \in Timers /\ timerPc[pressed] = "started"
    /\ mainPc \in InStart \ {"configure"} => conf[pressed] \in Confs
    /\ mainPc = "schedule" => timer = pressed
    /\ \A k \in Timers :
         /\ timerPc[k] \in {"wait", "read", "cancel", "post"}
              => timer \in Timers /\ conf[k] # NONE
         /\ timerPc[k] = "cancel" => victim[k] \in Timers
         /\ Running(k) => left[k] <= 0

(* Something that will put an injecting screen back, or a failed start.    *)
Backed ==
    Shown = "injecting"
        => \/ mainPc \in InStart \cup {"stopped"}
           \/ \E k \in Timers : WillPost(k) \/ timerPc[k] = "failed"

(* Only a Timer that has been scheduled, or is about to be, is cancelled.  *)
Past(v) == timerPc[v] \notin {"unborn", "started"} \/ (mainPc = "schedule" /\ v = timer)

OnlyPastCancelled ==
    /\ timer # NONE => Past(timer)
    /\ \A v \in cancelled : Past(v)
    /\ \A k \in Timers : timerPc[k] = "cancel" => Past(victim[k])

(* A Timer cancelled before its schedule has met another one's last tick.  *)
StaleTick ==
    mainPc = "schedule" /\ timer \in cancelled
        => \E k \in Timers \ {timer} : RanOut(k)

-----------------------------------------------------------------------------
(* Arithmetic *)

LEMMA WrapRange ==
    ASSUME NEW x \in Int
    PROVE  Wrap(x) \in Int32
<1>1. 2 * Half \in Nat \ {0} /\ x + Half \in Int
  BY InjectionAssumption
<1>2. (x + Half) % (2 * Half) \in 0..(2 * Half) - 1
  BY <1>1
<1>3. QED
  BY <1>2, InjectionAssumption DEF Wrap, Int32

LEMMA QuotientInt ==
    ASSUME NEW x \in Int, NEW y \in Nat \ {0}
    PROVE  Quotient(x, y) \in Int
<1>1. CASE x >= 0
  BY <1>1 DEF Quotient
<1>2. CASE ~(x >= 0)
  <2>1. (-x) \div y \in Int
    OBVIOUS
  <2>2. QED
    BY <1>2, <2>1 DEF Quotient
<1>3. QED
  BY <1>1, <1>2

LEMMA HalfSecondsRange ==
    ASSUME NEW c \in Confs
    PROVE  HalfSeconds(c) \in Int32
<1>1. c.delay \in Int /\ c.number \in Int /\ c.period \in Int
  BY InjectionAssumption
<1>2. c.number * c.period \in Int
  BY <1>1
<1>3. Int32 \subseteq Int
  BY InjectionAssumption DEF Int32
<1>4. Wrap(c.number * c.period) \in Int
  BY <1>2, <1>3, WrapRange
<1>5. /\ Quotient(c.delay, Second) \in Int
      /\ Quotient(Wrap(c.number * c.period), Second) \in Int
  BY <1>1, <1>4, QuotientInt, InjectionAssumption
<1> DEFINE sum == Quotient(c.delay, Second) + Quotient(Wrap(c.number * c.period), Second)
<1>6. Wrap(sum) \in Int
  <2>1. sum \in Int
    BY <1>5
  <2>2. QED
    BY <1>3, <2>1, WrapRange
<1>7. 2 * Wrap(sum) \in Int
  BY <1>6
<1>8. QED
  BY <1>7, WrapRange DEF HalfSeconds

-----------------------------------------------------------------------------
(* Types *)

LEMMA NextTypeOK == TypeOK /\ Anchored /\ [Next]_vars => TypeOK'
<1> SUFFICES ASSUME TypeOK, Anchored, [Next]_vars PROVE TypeOK'
  OBVIOUS
<1> USE DEF TypeOK, MainPc, TimerPc, screenVars, timerVars, Handler, OnMain
<1>1. CASE Crash
  <2>1. UNCHANGED <<screenVars, timerVars, timer, mainPc, pressed>> /\ appUp' \in BOOLEAN
    BY <1>1 DEF Crash
  <2>2. QED
    BY <2>1
<1>2. CASE DispatchPosted \/ OpenRoot \/ ShellDies \/ OnDestroyView \/ StopPostsIdle
  BY <1>2 DEF DispatchPosted, OpenRoot, ShellDies, OnDestroyView, StopPostsIdle
<1>3. CASE ClickStart
  BY <1>3 DEF ClickStart
<1>4. CASE Configure
  <2>1. CASE ~Crash
    BY <1>4, <2>1 DEF Configure
  <2>2. QED
    BY <1>1, <2>1
<1>5. CASE Fail
  BY <1>5 DEF Fail
<1>6. CASE InputCommands \/ ReadOutput
  BY <1>5, <1>6 DEF InputCommands, ReadOutput
<1>7. CASE NewTimer
  BY <1>7 DEF NewTimer
<1>8. CASE Schedule /\ ~Crash
  <2>1. timer \in Timers /\ conf[timer] \in Confs
    BY <1>8 DEF Schedule, Anchored, InStart
  <2>2. HalfSeconds(conf[timer]) \in Int32
    BY <2>1, HalfSecondsRange
  <2>3. QED
    BY <1>8, <2>1, <2>2 DEF Schedule
<1>9. CASE ClickStop
  BY <1>9 DEF ClickStop
<1>10. CASE NicMenuWithoutShell
  BY <1>1, <1>10 DEF NicMenuWithoutShell
<1>11. ASSUME NEW k \in Timers, Tick(k) PROVE TypeOK'
  <2>1. Countdown(left[k]) \in Int32
    BY InjectionAssumption DEF Countdown, Int32
  <2>2. QED
    BY <1>11, <2>1 DEF Tick
<1>12. ASSUME NEW k \in Timers,
              ReadTimerField(k) \/ CancelVictim(k) \/ TimerPostsIdle(k) \/ TimerEnds(k)
       PROVE  TypeOK'
  BY <1>12 DEF ReadTimerField, CancelVictim, TimerPostsIdle, TimerEnds, Anchored
<1>13. CASE UNCHANGED vars
  BY <1>13 DEF vars
<1>14. QED
  BY <1>1, <1>2, <1>3, <1>4, <1>6, <1>7, <1>8, <1>9, <1>10, <1>11, <1>12, <1>13
  DEF Next, MainThread, ClickHandler, TimerThread

LEMMA NextAnchored == TypeOK /\ Anchored /\ [Next]_vars => Anchored'
<1> SUFFICES ASSUME TypeOK, Anchored, [Next]_vars PROVE Anchored'
  OBVIOUS
<1> USE InjectionAssumption
    DEF TypeOK, Anchored, InStart, Running, screenVars, timerVars, Handler, OnMain
<1>1. CASE Crash
  BY <1>1 DEF Crash
<1>2. CASE DispatchPosted \/ OpenRoot \/ ShellDies \/ OnDestroyView \/ StopPostsIdle
  BY <1>2 DEF DispatchPosted, OpenRoot, ShellDies, OnDestroyView, StopPostsIdle
<1>3. CASE ClickStart
  BY <1>3 DEF ClickStart
<1>4. CASE Configure
  <2>1. CASE ~Crash
    BY <1>4, <2>1 DEF Configure
  <2>2. QED
    BY <1>1, <2>1
<1>5. CASE Fail
  BY <1>5 DEF Fail
<1>6. CASE InputCommands \/ ReadOutput
  BY <1>5, <1>6 DEF InputCommands, ReadOutput
<1>7. CASE NewTimer
  BY <1>7 DEF NewTimer
<1>8. CASE Schedule /\ ~Crash
  <2>1. /\ mainPc' = "looper" /\ timer' = timer /\ conf' = conf /\ victim' = victim
        /\ timer \in Timers /\ conf[timer] \in Confs
        /\ timerPc'[timer] = "wait"
        /\ \A k \in Timers : k # timer => timerPc'[k] = timerPc[k] /\ left'[k] = left[k]
    BY <1>8 DEF Schedule
  <2>2. ASSUME NEW k \in Timers
        PROVE  /\ timerPc'[k] \in {"wait", "read", "cancel", "post"}
                    => timer' \in Timers /\ conf'[k] # NONE
               /\ timerPc'[k] = "cancel" => victim'[k] \in Timers
               /\ Running(k)' => left'[k] <= 0
    <3>1. CASE k = timer
      BY <2>1, <3>1
    <3>2. CASE k # timer
      BY <2>1, <3>2
    <3>3. QED
      BY <3>1, <3>2
  <2>3. QED
    BY <2>1, <2>2
<1>9. CASE ClickStop
  BY <1>9 DEF ClickStop
<1>10. CASE NicMenuWithoutShell
  BY <1>1, <1>10 DEF NicMenuWithoutShell
<1>11. ASSUME NEW k \in Timers, Tick(k) PROVE Anchored'
  BY <1>11 DEF Tick
<1>12. ASSUME NEW k \in Timers, ReadTimerField(k) PROVE Anchored'
  BY <1>12 DEF ReadTimerField
<1>13. ASSUME NEW k \in Timers, CancelVictim(k) PROVE Anchored'
  BY <1>13 DEF CancelVictim
<1>14. ASSUME NEW k \in Timers, TimerPostsIdle(k) \/ TimerEnds(k) PROVE Anchored'
  BY <1>14 DEF TimerPostsIdle, TimerEnds
<1>15. CASE UNCHANGED vars
  BY <1>15 DEF vars
<1>16. QED
  BY <1>1, <1>2, <1>3, <1>4, <1>6, <1>7, <1>8, <1>9, <1>10, <1>11, <1>12, <1>13,
     <1>14, <1>15
  DEF Next, MainThread, ClickHandler, TimerThread

LEMMA InitInv == Init => TypeOK /\ Anchored /\ Backed /\ OnlyPastCancelled /\ StaleTick
<1> SUFFICES ASSUME Init PROVE TypeOK /\ Anchored /\ Backed /\ OnlyPastCancelled /\ StaleTick
  OBVIOUS
<1>1. 0 \in Int32
  BY InjectionAssumption DEF Int32
<1>2. TypeOK
  BY <1>1 DEF Init, TypeOK, MainPc, TimerPc
<1>3. Anchored /\ Backed /\ OnlyPastCancelled /\ StaleTick
  BY InjectionAssumption
  DEF Init, Anchored, InStart, Running, Backed, Shown, OnlyPastCancelled, StaleTick
<1>4. QED
  BY <1>2, <1>3

(* In every reachable state each variable of the injection screen has a    *)
(* value of its type; the countdown stays an int, whatever was entered.    *)
THEOREM InjectionTypeCorrect == Spec => []TypeOK
BY InitInv, NextTypeOK, NextAnchored, PTL DEF Spec
-----------------------------------------------------------------------------
(* The screen goes back to idle *)

LEMMA NextBacked ==
    TypeOK /\ Anchored /\ Backed /\ [Next]_vars => Backed'
<1> SUFFICES ASSUME TypeOK, Anchored, Backed, [Next]_vars, Shown' = "injecting"
             PROVE  \/ mainPc' \in InStart \cup {"stopped"}
                    \/ \E k \in Timers : (WillPost(k) \/ timerPc[k] = "failed")'
  BY DEF Backed
<1> USE InjectionAssumption
    DEF TypeOK, Backed, InStart, Running, WillPost, Shown, screenVars, timerVars,
        Handler, OnMain
<1>1. CASE UNCHANGED <<mState, pending, mainPc, timerPc, cancelled>>
  BY <1>1
<1>2. CASE Crash \/ UNCHANGED vars \/ OpenRoot \/ ShellDies \/ OnDestroyView
  BY <1>1, <1>2 DEF Crash, vars, OpenRoot, ShellDies, OnDestroyView
<1>3. CASE DispatchPosted
  BY <1>3 DEF DispatchPosted
<1>4. CASE ClickStart
  BY <1>4 DEF ClickStart
<1>5. CASE Fail /\ mainPc \in InStart
  <2>1. pressed \in Timers /\ timerPc'[pressed] = "failed"
    BY <1>5 DEF Fail, Anchored
  <2>2. QED
    BY <2>1
<1>6. CASE Configure \/ InputCommands \/ ReadOutput \/ NewTimer
  BY <1>2, <1>5, <1>6 DEF Configure, InputCommands, ReadOutput, NewTimer
<1>7. CASE Schedule /\ ~Crash
  <2>1. timer \in Timers /\ timerPc'[timer] = "wait" /\ timer \notin cancelled'
    BY <1>7 DEF Schedule, Anchored
  <2>2. QED
    BY <2>1
<1>8. CASE StopPostsIdle
  BY <1>8 DEF StopPostsIdle
<1>9. CASE ClickStop
  BY <1>9 DEF ClickStop
<1>10. CASE NicMenuWithoutShell
  BY <1>2, <1>10 DEF NicMenuWithoutShell
<1>11. ASSUME NEW k \in Timers,
              Tick(k) \/ ReadTimerField(k) \/ CancelVictim(k)
       PROVE  \/ mainPc' \in InStart \cup {"stopped"}
              \/ \E u \in Timers : (WillPost(u) \/ timerPc[u] = "failed")'
  <2>1. WillPost(k)'
    BY <1>11 DEF Tick, ReadTimerField, CancelVictim
  <2>2. QED
    BY <2>1
<1>12. ASSUME NEW k \in Timers, TimerPostsIdle(k) PROVE FALSE
  BY <1>12 DEF TimerPostsIdle
<1>13. ASSUME NEW k \in Timers, TimerEnds(k)
       PROVE  \/ mainPc' \in InStart \cup {"stopped"}
              \/ \E u \in Timers : (WillPost(u) \/ timerPc[u] = "failed")'
  <2>1. /\ UNCHANGED <<mState, pending, mainPc, cancelled>>
        /\ \A u \in Timers : WillPost(u) \/ timerPc[u] = "failed"
             => (WillPost(u) \/ timerPc[u] = "failed")'
    BY <1>13 DEF TimerEnds
  <2>2. QED
    BY <2>1
<1>14. QED
  BY <1>2, <1>3, <1>4, <1>6, <1>7, <1>8, <1>9, <1>10, <1>11, <1>12, <1>13
  DEF Next, MainThread, ClickHandler, TimerThread

(* For any number of presses and any Env: while the screen says injecting  *)
(* and no click is being handled, some Timer will post idle, or a start    *)
(* has failed (InjectionFragment:273, 303-304, 309-316).                   *)
THEOREM InjectionSafety == Spec => []InjectingHasTimer
<1>1. Backed => InjectingHasTimer
  BY DEF Backed, InjectingHasTimer, OnMain, InStart
<1>2. QED
  BY <1>1, InitInv, NextTypeOK, NextAnchored, NextBacked, PTL DEF Spec

-----------------------------------------------------------------------------
(* What it takes to crash *)

LEMMA NextPast ==
    TypeOK /\ Anchored /\ OnlyPastCancelled /\ [Next]_vars => OnlyPastCancelled'
<1> SUFFICES ASSUME TypeOK, Anchored, OnlyPastCancelled, [Next]_vars
             PROVE  OnlyPastCancelled'
  OBVIOUS
<1> USE InjectionAssumption
    DEF TypeOK, OnlyPastCancelled, Past, InStart, screenVars, timerVars, Handler, OnMain
<1>1. CASE Crash \/ UNCHANGED vars
  BY <1>1 DEF Crash, vars
<1>2. CASE \/ DispatchPosted \/ OpenRoot \/ ShellDies \/ OnDestroyView \/ StopPostsIdle
  BY <1>2 DEF DispatchPosted, OpenRoot, ShellDies, OnDestroyView, StopPostsIdle
<1>3. CASE ClickStart
  BY <1>3 DEF ClickStart
<1>4. CASE Fail /\ mainPc \in InStart \ {"schedule"}
  BY <1>4 DEF Fail, Anchored
<1>5. CASE Configure \/ InputCommands \/ ReadOutput
  BY <1>1, <1>4, <1>5 DEF Configure, InputCommands, ReadOutput
<1>6. CASE NewTimer
  BY <1>6 DEF NewTimer, Anchored
<1>7. CASE Schedule /\ ~Crash
  BY <1>7 DEF Schedule, Anchored
<1>8. CASE ClickStop
  BY <1>8 DEF ClickStop
<1>9. CASE NicMenuWithoutShell
  BY <1>1, <1>9 DEF NicMenuWithoutShell
<1>10. ASSUME NEW k \in Timers, Tick(k) \/ TimerPostsIdle(k) \/ TimerEnds(k)
       PROVE  OnlyPastCancelled'
  <2>1. /\ UNCHANGED <<timer, cancelled, mainPc, victim>>
        /\ timerPc[k] \in {"wait", "post"} /\ timerPc'[k] \in {"wait", "read", "dead"}
        /\ \A u \in Timers : u # k => timerPc'[u] = timerPc[u]
    BY <1>10 DEF Tick, TimerPostsIdle, TimerEnds
  <2>2. \A v \in Timers : Past(v) => Past(v)'
    BY <2>1
  <2>3. \A u \in Timers : timerPc'[u] = "cancel"
                             => timerPc[u] = "cancel" /\ victim[u] \in Timers
    BY <2>1 DEF Anchored
  <2>4. QED
    BY <2>1, <2>2, <2>3
<1>11. ASSUME NEW k \in Timers, ReadTimerField(k) PROVE OnlyPastCancelled'
  <2>1. timer \in Timers
    BY <1>11 DEF ReadTimerField, Anchored
  <2>2. QED
    BY <1>11, <2>1 DEF ReadTimerField
<1>12. ASSUME NEW k \in Timers, CancelVictim(k) PROVE OnlyPastCancelled'
  BY <1>12 DEF CancelVictim
<1>13. QED
  BY <1>1, <1>2, <1>3, <1>5, <1>6, <1>7, <1>8, <1>9, <1>10, <1>11, <1>12
  DEF Next, MainThread, ClickHandler, TimerThread

LEMMA NextStale ==
    TypeOK /\ Anchored /\ OnlyPastCancelled /\ StaleTick /\ [Next]_vars => StaleTick'
<1> SUFFICES ASSUME TypeOK, Anchored, OnlyPastCancelled, StaleTick, [Next]_vars,
                    mainPc' = "schedule", timer' \in cancelled'
             PROVE  \E k \in Timers \ {timer'} : RanOut(k)'
  BY DEF StaleTick
<1> USE InjectionAssumption DEF TypeOK, screenVars, timerVars, Handler, OnMain
<1>1. CASE UNCHANGED <<mainPc, timer, cancelled, timerPc, left>>
  BY <1>1 DEF StaleTick, RanOut
<1>2. CASE \/ DispatchPosted \/ OpenRoot \/ ShellDies \/ OnDestroyView \/ Crash
           \/ UNCHANGED vars \/ NicMenuWithoutShell
  BY <1>1, <1>2 DEF DispatchPosted, OpenRoot, ShellDies, OnDestroyView, Crash, vars,
                    NicMenuWithoutShell
<1>3. CASE \/ ClickStart \/ ClickStop \/ StopPostsIdle \/ Fail
  BY <1>3 DEF ClickStart, ClickStop, StopPostsIdle, Fail
<1>4. CASE Configure \/ InputCommands \/ ReadOutput \/ Schedule
  BY <1>2, <1>3, <1>4 DEF Configure, InputCommands, ReadOutput, Schedule
<1>5. CASE NewTimer
  <2>1. timer' = pressed /\ timerPc[pressed] = "started" /\ mainPc = "newTimer"
        /\ pressed \in cancelled
    BY <1>5 DEF NewTimer, Anchored, InStart
  <2>2. QED
    BY <2>1 DEF OnlyPastCancelled, Past
<1>6. ASSUME NEW k \in Timers, Tick(k)
      PROVE  \E u \in Timers \ {timer'} : RanOut(u)'
  <2>1. PICK u \in Timers \ {timer} : RanOut(u)
    BY <1>6 DEF Tick, StaleTick
  <2>2. left'[u] <= 0
    <3>1. left'[u] = IF u = k THEN Countdown(left[k]) ELSE left[u]
      BY <1>6, <2>1 DEF Tick
    <3>2. CASE u = k
      BY <2>1, <3>1, <3>2 DEF Countdown, Int32, RanOut
    <3>3. CASE u # k
      BY <2>1, <3>1, <3>3 DEF RanOut
    <3>4. QED
      BY <3>2, <3>3
  <2>3. QED
    BY <1>6, <2>1, <2>2 DEF Tick, RanOut
<1>7. ASSUME NEW k \in Timers, ReadTimerField(k) \/ TimerPostsIdle(k) \/ TimerEnds(k)
      PROVE  \E u \in Timers \ {timer'} : RanOut(u)'
  BY <1>7 DEF ReadTimerField, TimerPostsIdle, TimerEnds, StaleTick, RanOut
<1>8. ASSUME NEW k \in Timers, CancelVictim(k)
      PROVE  \E u \in Timers \ {timer'} : RanOut(u)'
  <2>1. /\ UNCHANGED <<mainPc, timer, left>>
        /\ timerPc[k] = "cancel" /\ timerPc'[k] = "post"
    BY <1>8 DEF CancelVictim
  <2>2. timerPc[timer] = "started" /\ left[k] <= 0
    BY <2>1 DEF Anchored, InStart, Running
  <2>3. QED
    BY <2>1, <2>2 DEF RanOut
<1>9. QED
  BY <1>2, <1>3, <1>4, <1>5, <1>6, <1>7, <1>8
  DEF Next, MainThread, ClickHandler, TimerThread

(* For any number of presses and any Env: besides an empty number field    *)
(* and a menu item without a shell, the app dies only when the last tick   *)
(* of another injection's Timer comes between the assignment of a Timer    *)
(* and its schedule (InjectionFragment:287-288, 303).                      *)
THEOREM InjectionCrashSafety == Spec => CrashNeedsStaleTick
<1> DEFINE A == appUp /\ ~appUp' =>
                  \/ mainPc = "configure"
                  \/ mainPc = "looper" /\ shell = "none"
                  \/ /\ mainPc = "schedule"
                     /\ \E k \in Timers \ {timer} : RanOut(k)
<1>1. TypeOK /\ Anchored /\ StaleTick /\ [Next]_vars => [A]_vars
  <2> SUFFICES ASSUME TypeOK, Anchored, StaleTick, Next, appUp, ~appUp' PROVE A
    BY DEF vars
  <2>1. Configure \/ Schedule \/ NicMenuWithoutShell
    BY DEF Next, MainThread, ClickHandler, TimerThread, DispatchPosted, ClickStart,
           InputCommands, ReadOutput, Fail, NewTimer, StopPostsIdle, ClickStop, OpenRoot,
           OnDestroyView, ShellDies, Tick, ReadTimerField, CancelVictim,
           TimerPostsIdle, TimerEnds
  <2>2. CASE Configure
    BY <2>2 DEF Configure, Handler
  <2>3. CASE Schedule
    BY <2>3 DEF Schedule, Handler, StaleTick
  <2>4. CASE NicMenuWithoutShell
    BY <2>4 DEF NicMenuWithoutShell, OnMain
  <2>5. QED
    BY <2>1, <2>2, <2>3, <2>4
<1>2. QED
  BY <1>1, InitInv, NextTypeOK, NextAnchored, NextPast, NextStale, PTL
  DEF Spec, CrashNeedsStaleTick

-----------------------------------------------------------------------------
(* A user who waits *)

(* Nothing ticks while a click is handled, and while none is only the      *)
(* Timer in the field, behind a screen that says injecting; so a task that *)
(* cancels what the field holds cancels its own Timer before it posts.     *)
OneAtATime ==
    /\ mainPc # "looper" => \A k \in Timers : ~WillPost(k)
    /\ mainPc = "looper" =>
         \A k \in Timers : WillPost(k) => k = timer /\ Shown = "injecting"
    /\ mainPc \in InStart => Shown = "injecting"
    /\ \A k \in Timers : /\ timerPc[k] = "cancel" => victim[k] = k
                         /\ timerPc[k] = "post" => k \in cancelled

LEMMA NextOneAtATime ==
    ASSUME "impatient" \notin Env
    PROVE  TypeOK /\ Anchored /\ OneAtATime /\ [Next]_vars => OneAtATime'
<1> SUFFICES ASSUME TypeOK, Anchored, OneAtATime, [Next]_vars PROVE OneAtATime'
  OBVIOUS
<1> USE InjectionAssumption
    DEF TypeOK, OneAtATime, WillPost, Running, Shown, InStart, screenVars, timerVars,
        Handler, OnMain
<1>1. CASE \/ UNCHANGED <<mState, pending, mainPc, timerPc, cancelled, victim, timer>>
           \/ DispatchPosted
  BY <1>1 DEF DispatchPosted
<1>2. CASE \/ Crash \/ UNCHANGED vars \/ OpenRoot \/ ShellDies \/ OnDestroyView
           \/ NicMenuWithoutShell
  BY <1>1, <1>2 DEF Crash, vars, OpenRoot, ShellDies, OnDestroyView, NicMenuWithoutShell
<1>3. CASE ClickStart
  <2>1. /\ pending = NONE /\ mState = "idle" /\ \A k \in Timers : ~WillPost(k)
        /\ UNCHANGED <<cancelled, victim>>
        /\ mainPc' = "configure" /\ pending' = "injecting"
    BY <1>3 DEF ClickStart, UserWaited
  <2>2. \A k \in Timers : timerPc'[k] = timerPc[k] \/ timerPc'[k] = "started"
    BY <1>3 DEF ClickStart
  <2>3. QED
    BY <2>1, <2>2
<1>4. CASE Fail /\ mainPc \in InStart
  <2>1. \A k \in Timers : timerPc'[k] = timerPc[k] \/ timerPc'[k] = "failed"
    BY <1>4 DEF Fail
  <2>2. QED
    BY <1>4, <2>1 DEF Fail
<1>5. CASE Configure \/ InputCommands \/ ReadOutput \/ NewTimer
  BY <1>2, <1>4, <1>5 DEF Configure, InputCommands, ReadOutput, NewTimer
<1>6. CASE Schedule /\ ~Crash
  <2>1. /\ UNCHANGED <<mState, pending, cancelled, victim, timer>>
        /\ mainPc = "schedule" /\ mainPc' = "looper" /\ timer \in Timers
        /\ timerPc' = [timerPc EXCEPT ![timer] = "wait"]
    BY <1>6 DEF Schedule, Anchored
  <2>2. \A k \in Timers : WillPost(k)' => k = timer
    BY <2>1
  <2>3. QED
    BY <2>1, <2>2
<1>7. CASE ClickStop
  <2>1. \A k \in Timers : ~WillPost(k)'
    BY <1>7 DEF ClickStop, UserWaited, Anchored
  <2>2. QED
    BY <1>7, <2>1 DEF ClickStop
<1>8. CASE StopPostsIdle
  BY <1>8 DEF StopPostsIdle
<1>9. ASSUME NEW k \in Timers, TimerThread(k) PROVE OneAtATime'
  <2>1. UNCHANGED <<mState, mainPc, timer>>
        /\ \A u \in Timers : u # k => timerPc'[u] = timerPc[u] /\ victim'[u] = victim[u]
    BY <1>9 DEF TimerThread, Tick, ReadTimerField, CancelVictim, TimerPostsIdle, TimerEnds
  <2>2. CASE Tick(k)
    BY <2>1, <2>2 DEF Tick
  <2>3. CASE ReadTimerField(k)
    BY <2>1, <2>3 DEF ReadTimerField
  <2>4. CASE CancelVictim(k)
    BY <2>1, <2>4 DEF CancelVictim
  <2>5. CASE TimerPostsIdle(k)
    <3>1. mainPc = "looper" /\ k = timer /\ k \in cancelled
      BY <2>5 DEF TimerPostsIdle
    <3>2. \A u \in Timers : ~WillPost(u)'
      BY <2>1, <2>5, <3>1 DEF TimerPostsIdle
    <3>3. QED
      BY <2>1, <2>5, <3>1, <3>2 DEF TimerPostsIdle
  <2>6. CASE TimerEnds(k)
    BY <2>1, <2>6 DEF TimerEnds
  <2>7. QED
    BY <1>9, <2>2, <2>3, <2>4, <2>5, <2>6 DEF TimerThread
<1>10. QED
  BY <1>1, <1>2, <1>3, <1>5, <1>6, <1>7, <1>8, <1>9 DEF Next, MainThread, ClickHandler

(* For any number of presses by a user who waits, whatever else Env        *)
(* allows: nothing ticks behind an idle screen, and the only Timer that    *)
(* ticks is the one in the field (InjectionFragment:287-317).              *)
THEOREM InjectionPatient ==
    ASSUME "impatient" \notin Env
    PROVE  Spec => []NoStrayTimer
<1>1. Init => OneAtATime
  BY InjectionAssumption DEF Init, OneAtATime, WillPost, Running, InStart
<1>2. OneAtATime => NoStrayTimer
  BY DEF OneAtATime, NoStrayTimer, OnMain, WillPost
<1>3. TypeOK /\ Anchored /\ OneAtATime /\ [Next]_vars => OneAtATime'
  BY NextOneAtATime
<1>4. QED
  BY <1>1, <1>2, <1>3, InitInv, NextTypeOK, NextAnchored, PTL DEF Spec

-----------------------------------------------------------------------------
(* The length of the countdown *)

LEMMA DivisionBelow ==
    ASSUME NEW x \in Nat, NEW y \in Nat \ {0}
    PROVE  x \div y \in Nat /\ (x \div y) * y > x - y
OBVIOUS

LEMMA WrapSmall ==
    ASSUME NEW x \in Nat, x < Half
    PROVE  Wrap(x) = x
<1>1. (x + Half) % (2 * Half) = x + Half
  BY InjectionAssumption
<1>2. QED
  BY <1>1, InjectionAssumption DEF Wrap

LEMMA HalfSecondsFits ==
    ASSUME NEW c \in Confs, Fits(c)
    PROVE  HalfSeconds(c) \in Int /\ HalfSeconds(c) * Second > 2 * Duration(c) - 4 * Second
<1> DEFINE n == c.number * c.period
           a == c.delay \div Second
           b == n \div Second
<1>1. c.delay \in Nat /\ c.number \in Nat /\ c.period \in Nat /\ Second \in Nat \ {0}
      /\ Half \in Nat
  BY InjectionAssumption
<1>2. n \in Nat /\ n < Half /\ 2 * (a + b) < Half
  BY <1>1 DEF Fits
<1>3. a \in Nat /\ a * Second > c.delay - Second
  BY <1>1, DivisionBelow
<1>4. b \in Nat /\ b * Second > n - Second
  BY <1>1, <1>2, DivisionBelow
<1>5. Wrap(n) = n
  BY <1>2, WrapSmall
<1>6. Quotient(c.delay, Second) = a /\ Quotient(n, Second) = b
  BY <1>1, <1>2 DEF Quotient
<1> HIDE DEF a, b
<1>7. a + b \in Nat /\ a + b < Half /\ 2 * (a + b) \in Nat
  BY <1>1, <1>2, <1>3, <1>4
<1>8. Wrap(a + b) = a + b /\ Wrap(2 * (a + b)) = 2 * (a + b)
  BY <1>2, <1>7, WrapSmall
<1>9. HalfSeconds(c) = 2 * (a + b)
  BY <1>5, <1>6, <1>8 DEF HalfSeconds
<1>10. (2 * (a + b)) * Second = 2 * (a * Second + b * Second)
  BY <1>1, <1>3, <1>4
<1>11. Duration(c) = c.delay + n
  BY DEF Duration
<1> HIDE DEF n
<1>12. a * Second \in Nat /\ b * Second \in Nat
  BY <1>1, <1>3, <1>4
<1>13. 2 * (a * Second + b * Second) > 2 * (c.delay + n) - 4 * Second
  BY <1>1, <1>2, <1>3, <1>4, <1>12
<1>14. QED
  BY <1>7, <1>9, <1>10, <1>11, <1>13

(* For any parameters whose arithmetic fits an int: when a countdown runs  *)
(* out, less than two seconds of the injection are left                    *)
(* (InjectionFragment:289, 292, 302).                                      *)
THEOREM InjectionNotEarly == Spec => []NeverIdleEarly
<1>1. TypeOK /\ Anchored => NeverIdleEarly
  <2> SUFFICES ASSUME TypeOK, Anchored, NEW k \in Timers,
                      timerPc[k] = "read", Fits(conf[k])
               PROVE  (HalfSeconds(conf[k]) - left[k]) * Second
                          > 2 * Duration(conf[k]) - 4 * Second
    BY DEF NeverIdleEarly
  <2>1. conf[k] \in Confs /\ left[k] \in Int /\ left[k] <= 0
    BY InjectionAssumption DEF TypeOK, Anchored, Running, Int32
  <2> DEFINE h == HalfSeconds(conf[k])
             d == Duration(conf[k])
  <2>2. h \in Int /\ h * Second > 2 * d - 4 * Second
    BY <2>1, HalfSecondsFits
  <2>3. d \in Int /\ Second \in Nat
    BY <2>1, InjectionAssumption DEF Duration
  <2> HIDE DEF h, d
  <2>4. (h - left[k]) * Second >= h * Second /\ (h - left[k]) * Second \in Int
        /\ h * Second \in Int
    BY <2>1, <2>2, <2>3
  <2>5. (h - left[k]) * Second > 2 * d - 4 * Second
    BY <2>2, <2>3, <2>4
  <2>6. QED
    BY <2>5 DEF h, d
<1>2. QED
  BY <1>1, InitInv, NextTypeOK, NextAnchored, PTL DEF Spec
=============================================================================

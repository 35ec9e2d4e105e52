------------------------------- MODULE Keyboard -------------------------------
(***************************************************************************)
(* One button of h::Keyboard, its two drivers and the listener that drops  *)
(* the wifi settings after a long press. "poll": a thread of its own looks *)
(* at the level every pull period. "irq": every edge has the time          *)
(* scheduler look a while later, and the sensor service looks as well, on  *)
(* a thread of its own. Times are ages in ticks of a counter that wraps.   *)
(***************************************************************************)
EXTENDS Integers

CONSTANTS
    PullPeriod,     \* 50 ms between the looks of the polling thread
    RepeatPeriod,   \* 200 ms between two STILL_PRESSED
    EdgeGap,        \* 50 ms: an edge sooner after the last one is dropped
    Delay,          \* 50 ms from an edge to the look of the scheduler
    LongPress,      \* 2000 ms of holding RESET
    TickWrap        \* TickType_t wraps here

\* (The module that composes the devices assumes it of its values.)
TimesFit == {PullPeriod, LongPress, TickWrap} \subseteq Nat /\ TickWrap > 0

VARIABLES
    driver,         \* "poll" (KeyboardSensor) or "irq" (KeyboardSensorIrq)
    level,          \* the pin: "down" is a pressed button
    button,         \* [pressed, held, since]: _isPressed, ages of its times
    reading,        \* what a thread has read and not handled yet
    pushing,        \* the event a thread waits to push: [movement, long]
    pollAge,        \* since the polling thread went to sleep
    edgeAge,        \* since the previousTick of the interrupt
    looks,          \* ages of the looks the scheduler holds
    told,           \* the movement of the last event
    forgot,         \* the release dropped the wifi settings
    \* What really happened, of the polled driver only:
    lookAge,        \* since the last look at the pin
    seen,           \* a look has shown the level as it is now
    missed,         \* a level came and went while nobody looked
    downFor,        \* how long the button is, or was, really down
    pressGap,       \* between the looks before and after the button went down
    verdict         \* what the true hold of the last release was: see Verdict

truth == <<lookAge, seen, missed, downFor, pressGap, verdict>>
vars == <<driver, level, button, reading, pushing, pollAge, edgeAge, looks, told, forgot,
          truth>>

Threads == {"poll", "scheduler", "service"}

Later(age) == (age + 1) % TickWrap
Capped(age, limit) == IF age < limit THEN age + 1 ELSE limit

\* An event with its hold, which only its one use tells apart.
ButtonAction(movement, hold) == [movement |-> movement, long |-> hold >= LongPress]
NoAction == [movement |-> "none", long |-> FALSE]
Free(t) == reading[t] = "none" /\ pushing[t] = NoAction

-----------------------------------------------------------------------------

\* keyboardAddButton(): setup() takes the level for the state, without an event.
\* keyboardStart(): the thread looks at once.
Init ==
    /\ driver \in {"poll", "irq"} /\ level \in {"up", "down"}
    /\ button = [pressed |-> level = "down", held |-> 0, since |-> 0]
    /\ reading = [t \in Threads |-> "none"] /\ pushing = [t \in Threads |-> NoAction]
    /\ pollAge = PullPeriod /\ edgeAge = 0 /\ looks = {}
    /\ told = "none" /\ forgot = FALSE
    /\ lookAge = 0 /\ seen = TRUE /\ missed = FALSE
    /\ downFor = 0 /\ pressGap = 0 /\ verdict = "unclear"

\* _gpio_isr(): one time stamp for the edges of all the pins.
Interrupt ==
    IF edgeAge < EdgeGap THEN UNCHANGED <<edgeAge, looks>>
    ELSE edgeAge' = 0 /\ looks' = looks \cup {0}

\* The button is pressed or let go, or its contact bounces.
Move ==
    /\ level' = IF level = "up" THEN "down" ELSE "up"
    /\ IF driver = "irq"
       THEN Interrupt /\ UNCHANGED truth
       ELSE /\ seen' = FALSE /\ missed' = (missed \/ ~seen)
            /\ downFor' = IF level = "up" THEN 0 ELSE downFor
            /\ UNCHANGED <<edgeAge, looks, lookAge, pressGap, verdict>>
    /\ UNCHANGED <<driver, button, reading, pushing, pollAge, told, forgot>>

\* The counter of ticks goes on. A thread may be late with its turn and wait in
\* its push; only what a polled button is judged by is as old as its time stamp.
\* (The ages of a released button are not read.)
Tick ==
    /\ driver = "poll" => reading["poll"] = "none"
    /\ button' = IF button.pressed
                 THEN [button EXCEPT !.held = Later(@), !.since = Capped(@, RepeatPeriod)]
                 ELSE button
    /\ IF driver = "poll"
       THEN /\ pollAge' = IF Free("poll") THEN Capped(pollAge, PullPeriod) ELSE pollAge
            /\ lookAge' = Capped(lookAge, TickWrap)
            /\ downFor' = IF level = "down" THEN Capped(downFor, TickWrap) ELSE downFor
            /\ UNCHANGED <<edgeAge, looks>>
       ELSE /\ edgeAge' = Later(edgeAge)
            /\ looks' = {Capped(age, Delay) : age \in looks}
            /\ UNCHANGED <<pollAge, lookAge, downFor>>
    /\ UNCHANGED <<driver, level, reading, pushing, told, forgot,
                   seen, missed, pressGap, verdict>>

\* Mutant: the update of the sensor does not look at the buttons.
TurnWithoutUpdate(t) ==
    CASE t = "poll" -> driver = "poll" /\ pollAge = PullPeriod
      [] t = "scheduler" -> Delay \in looks
      [] t = "service" -> FALSE

\* When a thread calls tick(): after vTaskDelay(), when the delayed action is
\* due, and whenever the sensor service updates.
Turn(t) ==
    CASE t = "poll" -> driver = "poll" /\ pollAge = PullPeriod
      [] t = "scheduler" -> Delay \in looks
      [] t = "service" -> driver = "irq"

\* What the button was really held, when a look shows that it was let go: the
\* two looks around the press and the two around the release are as much as a
\* hold may be told wrong by, unless presses in between went unseen or the
\* counter of ticks wrapped.
Verdict ==
    LET clear == ~missed /\ downFor + lookAge < TickWrap
    IN  CASE clear /\ downFor + lookAge < LongPress -> "short"
          [] clear /\ downFor >= LongPress + pressGap -> "long"
          [] OTHER -> "unclear"

\* What a look of the polling thread shows of the true hold.
Look ==
    /\ lookAge' = 0 /\ seen' = TRUE
    /\ \/ /\ level = "down" /\ button.pressed
          /\ UNCHANGED <<missed, downFor, pressGap, verdict>>
       \/ /\ level = "down" /\ ~button.pressed
          /\ pressGap' = lookAge /\ verdict' = "unclear" /\ missed' = FALSE
          /\ UNCHANGED downFor
       \/ /\ level = "up"
          /\ verdict' = IF button.pressed THEN Verdict ELSE verdict
          /\ pressGap' = 0 /\ downFor' = 0 /\ missed' = FALSE

\* readState()
Read(t) ==
    /\ Free(t) /\ Turn(t)
    /\ reading' = [reading EXCEPT ![t] = level]
    /\ looks' = IF t = "scheduler" THEN looks \ {Delay} ELSE looks
    /\ IF t = "poll" THEN Look ELSE UNCHANGED truth
    /\ UNCHANGED <<driver, level, button, pushing, pollAge, edgeAge, told, forgot>>

\* Mutant: the hold is measured from the last repeat.
HoldDurationSinceRepeat == button.since

\* holdDurationMs()
HoldDuration == button.held

Push(t, action) == pushing' = [pushing EXCEPT ![t] = action]

\* tick() of the polling thread ends: it sleeps for a pull period.
Sleep(t) == pollAge' = IF t = "poll" THEN 0 ELSE pollAge

\* _handleButton(), with the state that was read before, up to the event: its
\* hold is computed before the push.
Handle(t) ==
    /\ reading[t] # "none"
    /\ reading' = [reading EXCEPT ![t] = "none"]
    /\ \/ /\ reading[t] = "down" /\ ~button.pressed
          /\ button' = [pressed |-> TRUE, held |-> 0, since |-> 0]
          /\ Push(t, ButtonAction("PRESSED", 0)) /\ UNCHANGED pollAge
       \/ /\ reading[t] = "down" /\ button.pressed /\ button.since >= RepeatPeriod
          /\ Push(t, ButtonAction("STILL_PRESSED", HoldDuration))
          /\ UNCHANGED <<button, pollAge>>
       \/ /\ reading[t] = "down" /\ button.pressed /\ button.since < RepeatPeriod
          /\ UNCHANGED <<button, pushing>> /\ Sleep(t)
       \/ /\ reading[t] = "up" /\ button.pressed
          /\ button' = [pressed |-> FALSE, held |-> 0, since |-> 0]
          /\ Push(t, ButtonAction("RELEASED", HoldDuration)) /\ UNCHANGED pollAge
       \/ /\ reading[t] = "up" /\ ~button.pressed
          /\ UNCHANGED <<button, pushing>> /\ Sleep(t)
    /\ UNCHANGED <<driver, level, edgeAge, looks, told, forgot, truth>>

\* isLongJustPressed(): KeyboardHandler drops the wifi settings.
Forgets(action) == action.movement = "RELEASED" /\ action.long

\* _consumer(): the queue of events has room for it at last. The period of the
\* repeats starts now.
Consume(t) ==
    /\ pushing[t] # NoAction
    /\ told' = pushing[t].movement
    /\ forgot' = Forgets(pushing[t])
    /\ button' = IF pushing[t].movement = "STILL_PRESSED" THEN [button EXCEPT !.since = 0]
                 ELSE button
    /\ Push(t, NoAction) /\ Sleep(t)
    /\ UNCHANGED <<driver, level, reading, edgeAge, looks, truth>>

\* A thread goes on: with its turn, with what it has read, with its push.
Work(t) == Read(t) \/ Handle(t) \/ Consume(t)

Next == Move \/ Tick \/ \E t \in Threads : Work(t)

\* The queue of events gets room: its listener handles one event after another.
Fairness == WF_vars(Tick) /\ \A t \in Threads : WF_vars(Work(t))

Spec == Init /\ [][Next]_vars /\ Fairness

-----------------------------------------------------------------------------
(* Properties                                                              *)

\* A release drops the wifi settings after a press that was long and leaves them
\* after one that was short, as exactly as the looks of the polling thread let
\* one see it, however many events "still pressed" were sent in between and
\* however long its pushes wait for room (KeyboardHandler, KeyboardButtonI).
LongHoldForgets ==
    driver = "poll" /\ told = "RELEASED" =>
        /\ verdict = "long" => forgot
        /\ verdict = "short" => ~forgot

\* A level that lasts is the state of the button in the end, although edges
\* are dropped and two threads handle what they read a while ago.
SettledIsSeen ==
    /\ <>[](level = "down") => <>[]button.pressed
    /\ <>[](level = "up") => <>[](~button.pressed)
=============================================================================

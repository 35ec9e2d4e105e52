-------------------------------- MODULE Buzzer --------------------------------
(***************************************************************************)
(* The buzzer of the washer: the task that plays the melody, the tasks of  *)
(* the short signals, and the messages of mqtt that start and stop them.   *)
(***************************************************************************)
EXTENDS Integers

CONSTANTS
    NotesSize,      \* 62 notes of the melody
    Rests,          \* the notes with frequency 0
    Beeps,          \* 3 beeps of a signal
    Rings           \* signals that run at a time

\* The module that composes the devices assumes it of its values.
CountsAreNatural == NotesSize \in Nat /\ Beeps \in Nat

VARIABLES
    melody,         \* where the melody task is: [note, step]
    stopFlag,       \* _stopFlag
    notified,       \* requests to play, as a task notification
    ring,           \* half beeps left, by signal
    buzzing         \* the buzzer sounds

vars == <<melody, stopFlag, notified, ring, buzzing>>

Waiting == [note |-> -1, step |-> "wait"]

-----------------------------------------------------------------------------

Init ==
    /\ melody = Waiting /\ stopFlag = FALSE /\ notified = FALSE
    /\ ring = [r \in Rings |-> 0] /\ buzzing = FALSE

\* _startMelody(), _stopMelody() and _playBuzz(); a task may not be made.
MelodyMessage ==
    /\ \/ notified' = TRUE /\ UNCHANGED <<stopFlag, ring>>
       \/ stopFlag' = TRUE /\ UNCHANGED <<notified, ring>>
       \/ \E r \in Rings : /\ ring[r] = 0
                           /\ ring' = [ring EXCEPT ![r] = 2 * Beeps]
                           /\ UNCHANGED <<stopFlag, notified>>
    /\ UNCHANGED <<melody, buzzing>>

\* The next turn of the loop over the notes, or the end of the melody.
From(note) ==
    melody' = IF note = NotesSize THEN Waiting ELSE [note |-> note, step |-> "test"]

\* ulTaskNotifyTake() returns.
StartMelody ==
    /\ melody = Waiting /\ notified
    /\ notified' = FALSE /\ From(0)
    /\ UNCHANGED <<stopFlag, ring, buzzing>>

\* The flag is looked at before every note only; it takes the requests with it.
StopMelody ==
    /\ melody.step = "test" /\ stopFlag
    /\ stopFlag' = FALSE /\ notified' = FALSE /\ melody' = Waiting
    /\ UNCHANGED <<ring, buzzing>>

Sound ==
    /\ melody.step = "test" /\ ~stopFlag
    /\ melody' = [melody EXCEPT !.step = "sound"]
    /\ buzzing' = (buzzing \/ melody.note \notin Rests)
    /\ UNCHANGED <<stopFlag, notified, ring>>

Silence ==
    /\ melody.step = "sound"
    /\ buzzing' = FALSE /\ From(melody.note + 1)
    /\ UNCHANGED <<stopFlag, notified, ring>>

\* Mutant: a signal starts with the pause.
RingPauseFirst(r) ==
    /\ ring[r] > 0
    /\ ring' = [ring EXCEPT ![r] = @ - 1] /\ buzzing' = (ring[r] % 2 = 1)
    /\ UNCHANGED <<melody, stopFlag, notified>>

\* _ringTask(): half a beep.
Ring(r) ==
    /\ ring[r] > 0
    /\ ring' = [ring EXCEPT ![r] = @ - 1] /\ buzzing' = (ring[r] % 2 = 0)
    /\ UNCHANGED <<melody, stopFlag, notified>>

Next == \/ MelodyMessage \/ StartMelody \/ StopMelody \/ Sound \/ Silence
        \/ \E r \in Rings : Ring(r)

Spec == Init /\ [][Next]_vars

-----------------------------------------------------------------------------
(* Properties                                                              *)

\* With the melody and every signal over, the buzzer they share is silent.
SilentInTheEnd ==
    melody = Waiting /\ (\A r \in Rings : ring[r] = 0) => ~buzzing
=============================================================================

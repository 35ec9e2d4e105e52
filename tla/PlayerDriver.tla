---------------------------- MODULE PlayerDriver ----------------------------
(***************************************************************************)
(* The driver DFRobotDFPlayerMini of the mp3 player module: commands and    *)
(* queries go out over a serial line, frames come back: answers,           *)
(* acknowledgements and news of the module's own. One task calls it; the    *)
(* parser keeps its state between calls in globals.                        *)
(***************************************************************************)
EXTENDS Integers, Sequences, SequencesExt

CONSTANTS
    MaxCalls,       \* bound on the calls of the driver
    MaxFaults,      \* bound on lost bytes, answers too late and news
    MaxBytes        \* bound on the bytes waiting in the serial line

VARIABLES
    ack,            \* _sending[Stack_ACK]: the module is to acknowledge
    d,              \* the driver's globals
    pc,             \* "idle", or where the call in hand waits
    call,           \* the call in hand
    result,         \* what the last query answered
    finished,       \* the static counter of DF_isFinished()
    rx,             \* bytes in the serial line
    due,            \* frames the module is about to send
    calls, faults,  \* counters of the bounds
    asked,          \* number of the last query, which the module answers with
    disturbed,      \* something was lost, late or unasked for since then
    intact          \* the last frame on the line was whole

vars == <<ack, d, pc, call, result, finished, rx, due, calls, faults, asked,
          disturbed, intact>>

\* The frame: header, version, length, command, parameter, check sum, end.
Header == 126
Version == 255
Length == 6
End == 239
CheckSum(command, parameter) == (-(Version + Length + command + parameter)) % 65536
Frame(command, parameter) ==
    <<Header, Version, Length, command, parameter,
      CheckSum(command, parameter), End>>

Ack == 65
PlayFinished == 61
Online == 63
Inserted == 58
Removed == 59
Failure == 64
FeedBacks == {60, 62, 66, 67, 68, 69, 70, 71, 72, 73, 75, 76, 77, 78, 79}

Query(command, typed) ==
    [kind |-> IF typed THEN "typed" ELSE "untyped", command |-> command]
Order(command) == [kind |-> "order", command |-> command]

\* readVolume() takes whatever message there is for its answer; the other
\* queries want a feedback.
Queries == {Query(67, FALSE)} \cup
           {Query(c, TRUE) : c \in {66, 68, 71, 72, 73, 75, 76, 77, 78, 79}}
Orders == {Order(c) : c \in {1, 2, 3, 4, 5, 6, 7, 8, 9, 10, 12, 13, 14, 15, 16, 17,
                             18, 19, 20, 21, 22, 23, 24, 25, 26}}
\* The line does not tell one order from another, nor one typed query.
Calls == {Order(3), Query(67, FALSE), Query(72, TRUE),
          [kind |-> "begin", command |-> 12], [kind |-> "poll", command |-> 0]}
CallsOfTheDriver ==
    \A c \in Calls : c.kind \in {"begin", "poll"} \/ c \in Queries \cup Orders

-----------------------------------------------------------------------------
(* The parser                                                              *)

\* Mutant: a frame that goes wrong is not given up.
HandleErrorGoesOn(s, type) ==
    [s EXCEPT !.index = s.index + 1, !.type = type, !.available = TRUE, !.sending = FALSE]

HandleMessage(s, type, parameter) ==
    [s EXCEPT !.index = 0, !.type = type, !.parameter = parameter,
              !.available = TRUE]
HandleError(s, type) ==
    [HandleMessage(s, type, 0) EXCEPT !.sending = FALSE]

Bit(n, w) == (n \div w) % 2 = 1
\* What bit of the parameter tells a disk and a card apart. The parameter is kept
\* even if there is no message.
Which(s, p, disk, card) ==
    CASE Bit(p, 1) -> HandleMessage(s, disk, p)
      [] ~Bit(p, 1) /\ Bit(p, 2) -> HandleMessage(s, card, p)
      [] OTHER -> [s EXCEPT !.parameter = p]

ParseStack(s) ==
    LET c == s.received[4]
        p == s.received[5]
    IN  CASE c = Ack -> [s EXCEPT !.sending = FALSE]
          [] c = PlayFinished -> HandleMessage(s, "PlayFinished", p)
          [] c = Online -> Which(s, p, "USBOnline", "CardOnline")
          [] c = Inserted -> Which(s, p, "USBInserted", "CardInserted")
          [] c = Removed -> Which(s, p, "USBRemoved", "CardRemoved")
          [] c = Failure -> HandleMessage(s, "Error", p)
          [] c \in FeedBacks -> HandleMessage(s, "FeedBack", p)
          [] OTHER -> HandleError(s, "WrongStack")

IsValid(r) == CheckSum(r[4], r[5]) = r[6]

IsWrong(s, b) == \/ s.index = 1 /\ b # Version
                 \/ s.index = 2 /\ b # Length
                 \/ s.index = 6 /\ (b # End \/ ~IsValid(s.received))

\* One byte of DF_available(): a frame that goes wrong is given up at once.
Received(s, b) ==
    LET took == [s EXCEPT !.index = s.index + 1, !.received = Append(s.received, b)]
    IN  CASE s.index = 0 -> IF b = Header THEN [took EXCEPT !.received = <<b>>] ELSE s
          [] IsWrong(s, b) -> HandleError(s, "WrongStack")
          [] s.index = 6 /\ ~IsWrong(s, b) -> ParseStack([s EXCEPT !.index = 0])
          [] OTHER -> took

\* DF_available() returns at the end of a frame, whole or wrong.
Returns(s, b) == s.index # 0 /\ Received(s, b).index = 0
\* It returns false for a wrong frame, which it makes available all the same.
Answers(s, b) == Returns(s, b) /\ ~IsWrong(s, b) /\ Received(s, b).available

\* Mutant: reading an answer leaves it available.
ConsumedNot(s) == s
\* DF_readType() and DF_read()
Consumed(s) == [s EXCEPT !.available = FALSE]

-----------------------------------------------------------------------------

Init ==
    /\ ack \in BOOLEAN
    /\ d = [index |-> 0, received |-> << >>, sending |-> FALSE,
            available |-> FALSE, type |-> "None", parameter |-> 0]
    /\ pc = "idle" /\ call = Order(3) /\ result = -1 /\ finished = 0
    /\ rx = << >> /\ due = << >>
    /\ calls = 0 /\ faults = 0 /\ asked = 0
    /\ disturbed = FALSE /\ intact = TRUE

Begin ==
    /\ pc = "idle" /\ calls < MaxCalls
    /\ call' \in Calls
    /\ calls' = calls + 1
    /\ pc' = IF call'.kind = "poll" THEN "poll" ELSE "send"
    /\ UNCHANGED <<ack, d, result, finished, rx, due, faults, asked, disturbed, intact>>

\* What the module answers: the answer first, the acknowledgement after it.
Reply ==
    LET acked == IF ack THEN <<Frame(Ack, 0)>> ELSE << >>
    IN  CASE call.kind = "order" -> acked
          [] call.kind = "begin" -> Append(acked, Frame(Online, 2))
          [] OTHER -> <<Frame(call.command, asked')>> \o acked

IsQuery == call.kind \in {"typed", "untyped"}

\* DF_sendStack(), once nothing sent before waits for its acknowledgement.
Transmit ==
    /\ pc = "send" /\ ~(ack /\ d.sending)
    /\ d' = [d EXCEPT !.sending = ack]
    /\ asked' = IF IsQuery THEN asked + 1 ELSE asked
    /\ due' = due \o Reply
    /\ pc' = IF call.kind = "order" THEN "idle" ELSE "answer"
    /\ UNCHANGED <<ack, call, result, finished, rx, calls, faults, disturbed, intact>>

\* What the call makes of the message there is.
Answer(s) ==
    CASE call.kind = "untyped" -> s.parameter
      [] call.kind = "typed" -> IF s.type = "FeedBack" THEN s.parameter ELSE -1
      [] call.kind = "begin" -> IF s.type \in {"CardOnline", "USBOnline"} \/ ~ack THEN 1 ELSE 0

\* DF_isFinished() wants two messages of the end of a track.
Polled(s) ==
    IF s.type = "PlayFinished" THEN (finished + 1) % 2 ELSE finished

Return(s) ==
    /\ pc' = "idle"
    /\ d' = Consumed(s)
    /\ IF pc = "poll" THEN finished' = Polled(s) /\ UNCHANGED result
       ELSE result' = Answer(s) /\ UNCHANGED finished

Waits == \/ pc = "send" /\ ack /\ d.sending
         \/ pc \in {"answer", "poll"}

ReadByte ==
    /\ Waits /\ rx # << >>
    /\ rx' = Tail(rx)
    /\ IF pc # "send" /\ Answers(d, Head(rx))
       THEN Return(Received(d, Head(rx)))
       ELSE /\ d' = Received(d, Head(rx))
            /\ pc' = IF pc = "poll" /\ Returns(d, Head(rx)) THEN "idle" ELSE pc
            /\ UNCHANGED <<result, finished>>
    /\ UNCHANGED <<ack, call, due, calls, faults, asked, disturbed, intact>>

\* Nothing on the line: a message that was available before is taken.
TakeAvailable ==
    /\ pc \in {"answer", "poll"} /\ rx = << >> /\ d.available
    /\ Return(d)
    /\ UNCHANGED <<ack, call, rx, due, calls, faults, asked, disturbed, intact>>

PollNothing ==
    /\ pc = "poll" /\ rx = << >> /\ ~d.available
    /\ pc' = "idle"
    /\ UNCHANGED <<ack, d, call, result, finished, rx, due, calls, faults, asked,
                   disturbed, intact>>

\* No acknowledgement in time: the caller is told by a message of its own.
AckTimeOut ==
    /\ Waits /\ rx = << >> /\ d.sending /\ faults < MaxFaults
    /\ d' = HandleError(d, "TimeOut")
    /\ pc' = IF pc = "poll" THEN "idle" ELSE pc
    /\ faults' = faults + 1 /\ disturbed' = TRUE
    /\ UNCHANGED <<ack, call, result, finished, rx, due, calls, asked, intact>>

\* DF_waitAvailable() gives up.
AnswerTimeOut ==
    /\ pc = "answer" /\ rx = << >> /\ ~d.available /\ faults < MaxFaults
    /\ pc' = "idle"
    /\ result' = IF call.kind = "begin" THEN Answer(d) ELSE -1
    /\ faults' = faults + 1 /\ disturbed' = TRUE
    /\ UNCHANGED <<ack, d, call, finished, rx, due, calls, asked, intact>>

-----------------------------------------------------------------------------
(* The module                                                              *)

Deliver ==
    /\ due # << >> /\ Len(rx) + Len(Head(due)) <= MaxBytes
    /\ rx' = rx \o Head(due) /\ due' = Tail(due) /\ intact' = TRUE
    /\ UNCHANGED <<ack, d, pc, call, result, finished, calls, faults, asked, disturbed>>

DeliverBroken ==
    /\ due # << >> /\ Len(rx) + Len(Head(due)) <= MaxBytes /\ faults < MaxFaults
    /\ \E i \in DOMAIN Head(due) : rx' = rx \o RemoveAt(Head(due), i)
    /\ due' = Tail(due) /\ intact' = FALSE
    /\ faults' = faults + 1 /\ disturbed' = TRUE
    /\ UNCHANGED <<ack, d, pc, call, result, finished, calls, asked>>

\* News: the end of a track, told twice, a card put in or taken out, an error.
News ==
    /\ faults < MaxFaults
    /\ \E f \in {<<Frame(PlayFinished, 1), Frame(PlayFinished, 1)>>,
                 <<Frame(Inserted, 1)>>, <<Frame(Removed, 2)>>, <<Frame(Failure, 5)>>,
                 <<Frame(Online, 1)>>, <<Frame(0, 0)>>} : due' = due \o f
    /\ faults' = faults + 1 /\ disturbed' = TRUE
    /\ UNCHANGED <<ack, d, pc, call, result, finished, rx, calls, asked, intact>>

Next == \/ Begin \/ Transmit \/ ReadByte \/ TakeAvailable \/ PollNothing
        \/ AckTimeOut \/ AnswerTimeOut \/ Deliver \/ DeliverBroken \/ News

Spec == Init /\ [][Next]_vars

-----------------------------------------------------------------------------
(* Properties                                                              *)

\* A query is answered with the answer to it, never with what an earlier
\* call left behind, as long as the line is quiet: nothing was lost, came
\* too late or unasked for. (When something was, the next query may take it
\* for its answer.)
AnswerIsOfTheQuery ==
    pc = "idle" /\ IsQuery /\ ~disturbed => result = asked

\* Whatever was lost, the parser is at the start of a frame again when a
\* whole frame has passed: one lost byte costs one frame more at most, and
\* never writes past the buffer of a frame.
ParserRecovers ==
    /\ d.index <= 6
    /\ rx = << >> /\ intact => d.index = 0
=============================================================================

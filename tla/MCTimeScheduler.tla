--------------------------- MODULE MCTimeScheduler ---------------------------
\* Ticks of two milliseconds; a delay below, at and above a tick.
EXTENDS TimeScheduler

MCDelay == [a \in Actions |-> CASE a = "once" -> 3 [] a = "blink" -> 2 [] a = "key" -> 5]
MCRepeated == Actions \cap {"blink"}
MCIrq == Actions \cap {"key"}
=============================================================================

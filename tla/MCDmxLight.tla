----------------------------- MODULE MCDmxLight -----------------------------
(***************************************************************************)
(* A lamp controller of two channels whose values are 0..3, arrays of up to *)
(* 3 values and counters of two bits.                                      *)
(***************************************************************************)
EXTENDS DmxLight

R(f, t, c) == [f |-> f, t |-> t, c |-> c]
Scene(i, vals, times, repeat) ==
    [topic |-> "scenery",
     data |-> <<[i |-> i, vals |-> vals, times |-> times, repeat |-> repeat]>>]

Sceneries ==
    { \* a value on both channels, and a fade
      Scene(<<0, 1>>, <<3>>, <<0>>, << >>),
      Scene(<<0, 1>>, <<0, 3>>, <<1, 2>>, << >>),
      \* a loop in a loop, and a second loop of the same entry
      Scene(<<0>>, <<1, 3, 2>>, <<0, 1, 0>>, <<R(1, 1, 2), R(2, 0, 2), R(2, 1, 1)>>),
      \* values and a repeat that are left out, a loop without an end
      Scene(<<1, 2>>, <<1, 4, 2>>, <<0, 1>>, <<R(1, 0, Missing), R(7, 0, 2)>>),
      \* a loop of count 0
      Scene(<<1>>, <<0, 3>>, <<1, 1>>, <<R(1, 0, 0)>>),
      \* more values than the index can count
      Scene(<<1>>, <<1, 2, 3, 0, 1>>, <<0, 0, 0, 0, 0>>, <<R(3, 0, 2)>>),
      \* arrays of different lengths
      Scene(<<0>>, <<1, 2>>, <<1>>, << >>) }

Object(i, v, a, b, T, cycle) ==
    [i |-> i, v |-> v, a |-> a, b |-> b, T |-> T, cycle |-> cycle]
Others ==
    { [topic |-> "rgb", data |-> <<3, 9, 1, 2>>],
      [topic |-> "func", data |-> <<Object(0, 2, 0, 0, 0, FALSE),
                                    Object(1, -1, 0, 3, 1, TRUE)>>],
      [topic |-> "func", data |-> <<Object(1, -1, 3, 1, 2, FALSE),
                                    Object(5, -1, 0, 1, 0, FALSE)>>],
      [topic |-> "relay", data |-> 1],
      [topic |-> "clear"] }
AllMessages == Sceneries \cup Others
=============================================================================

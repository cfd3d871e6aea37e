---------------------------------- MODULE AirMC --------------------------------
(* Two calls: a private one with a nine-character alias, whose LC bytes are all    *)
(* over the range, and a group call at the edge of the 24-bit ids without one.     *)
EXTENDS Air

MCCalls ==
  { [group |-> FALSE, dst |-> 3151234, src |-> 9998877, colour |-> 9,
     alias |-> << 78, 48, 67, 65, 76, 76, 47, 80, 127 >>],
    [group |-> TRUE, dst |-> 16777215, src |-> 1, colour |-> 1, alias |-> << >>] }

\* Two frames of indices all over their ranges, and the silent one.
MCVoice == << << 5, 30, 17, 300, 99, 3, 9, 14, 6 >>, << 90, 1, 14, 211, 28, 28, 6, 1, 1 >>,
              << 124, 0, 0, 0, 0, 0, 0, 0, 0 >> >>
================================================================================

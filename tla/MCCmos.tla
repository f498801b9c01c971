------------------------------- MODULE MCCmos -------------------------------
EXTENDS Cmos

\* Times at which one, three or all six registers are about to change, and an
\* hour of the afternoon that stays.
MCStarts ==
    {[second |-> 58, minute |-> 59, hour |-> 23, day |-> 31, month |-> 12,
      year |-> 2024],
     [second |-> 58, minute |-> 59, hour |-> 12, day |-> 9, month |-> 5,
      year |-> 2024],
     [second |-> 8, minute |-> 30, hour |-> 17, day |-> 28, month |-> 2,
      year |-> 2099]}
=============================================================================

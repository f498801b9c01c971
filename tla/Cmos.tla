-------------------------------- MODULE Cmos --------------------------------
(***************************************************************************)
(* The real-time clock: read_rtc, called by system call 14 with interrupts *)
(* off, against the chip, which goes on counting while its registers are   *)
(* read one by one, and the clock program (timer.c), which makes the call  *)
(* again and again and shows what it gets.  The chip is external: once a   *)
(* second it raises its update-in-progress flag, replaces the registers    *)
(* one after the other and lowers the flag.  The driver may be as slow as  *)
(* it likes between two reads, up to MaxTick updates in a behaviour.       *)
(* century_register is 0 and never set, so the century is not read; its    *)
(* variable is only compared with its own copy.                            *)
(***************************************************************************)
EXTENDS Integers, Sequences

CONSTANTS
    Starts,     \* the times at which the chip may be found
    MaxTick     \* bound on the updates in a behaviour

\* Between two reads of the seconds register less than a minute goes by.
ASSUME TickAssumption == MaxTick \in 0 .. 59

VARIABLES
    \* the chip
    now,        \* the time, in UTC, that the last complete update gave
    ticks,      \* the number of complete updates
    uip,        \* update in progress
    rolled,     \* the number of registers this update has replaced
    regs,       \* the registers
    mode,       \* register B: binary-coded decimal or binary, 24 hours or 12
    \* read_rtc
    pc,         \* "idle", "wait" for the flag, "read", "compare", "convert",
                \* and "show" once the call has returned
    idx,        \* the register that is read next
    raw,        \* second, minute, ... of read_rtc
    last,       \* last_second, last_minute, ...
    first,      \* whether this is the pass before the loop
    time,       \* *current_time
    shown,      \* the digits on the screen, none before the first time
    seen        \* history: the times the chip has shown during the call

vars == <<now, ticks, uip, rolled, regs, mode, pc, idx, raw, last, first,
          time, shown, seen>>

CURRENT_YEAR == 2023

\* The registers in the order in which they are read.
Field == <<"second", "minute", "hour", "day", "month", "year">>

NoTime == [second |-> 0, minute |-> 0, hour |-> 0, day |-> 0, month |-> 0,
           year |-> 0]

-----------------------------------------------------------------------------
\* The calendar of the chip.
DaysIn(month, year) ==
    CASE month \in {4, 6, 9, 11} -> 30
      [] month = 2 -> IF year % 4 = 0 THEN 29 ELSE 28
      [] OTHER -> 31

\* The times there are.
Times ==
    {t \in [second : 0 .. 59, minute : 0 .. 59, hour : 0 .. 23, day : 1 .. 31,
            month : 1 .. 12, year : Nat] : t.day <= DaysIn(t.month, t.year)}

ASSUME StartsAssumption == Starts \subseteq Times

DayAfter(t) ==
    LET endOfMonth == t.day = DaysIn(t.month, t.year)
        endOfYear  == endOfMonth /\ t.month = 12
    IN  [t EXCEPT !.day   = IF endOfMonth THEN 1 ELSE @ + 1,
                  !.month = IF endOfYear THEN 1
                            ELSE IF endOfMonth THEN @ + 1 ELSE @,
                  !.year  = IF endOfYear THEN @ + 1 ELSE @]

SecondAfter(t) ==
    LET minuteFull == t.second = 59
        hourFull   == minuteFull /\ t.minute = 59
        dayFull    == hourFull /\ t.hour = 23
        face == [t EXCEPT !.second = (@ + 1) % 60,
                          !.minute = IF minuteFull THEN (@ + 1) % 60 ELSE @,
                          !.hour   = IF hourFull THEN (@ + 1) % 24 ELSE @]
    IN  IF dayFull THEN DayAfter(face) ELSE face

\* What the registers hold for time t in mode m: hours of the 12-hour clock
\* run from 1 to 12 with bit 7 set in the afternoon.
Digits(m, n) == IF m.bcd THEN 16 * (n \div 10) + (n % 10) ELSE n

HourRegister(m, h) ==
    IF m.h24 THEN Digits(m, h)
    ELSE Digits(m, IF h % 12 = 0 THEN 12 ELSE h % 12)
         + (IF h >= 12 THEN 128 ELSE 0)

Registers(m, t) ==
    [f \in DOMAIN t |->
        CASE f = "hour" -> HourRegister(m, t.hour)
          [] f = "year" -> Digits(m, t.year % 100)
          [] OTHER      -> Digits(m, t[f])]

-----------------------------------------------------------------------------
\* The conversions at the end of read_rtc.
FromBcd(x) == (x % 16) + (x \div 16) * 10

\* Fault: bit 7 is not masked out of the tens of the hour.
HourDecoded_Unmasked(b) == ((FromBcd(b) + 7) % 24) + (IF b >= 128 THEN 128 ELSE 0)

\* Fault: the seven hours are added without the step over midnight.
HourDecoded_Unwrapped(b) ==
    (b % 16) + ((b \div 16) % 8) * 10 + 7 + (IF b >= 128 THEN 128 ELSE 0)

\* The hour of a binary-coded register, seven hours on, with bit 7 kept.
HourDecoded(b) ==
    (((b % 16) + ((b \div 16) % 8) * 10 + 7) % 24)
    + (IF b >= 128 THEN 128 ELSE 0)

FullYear(y) ==
    LET year == y + (CURRENT_YEAR \div 100) * 100
    IN  IF year < CURRENT_YEAR THEN year + 100 ELSE year

\* What is stored in *current_time for registers r in mode m.
Converted(m, r) ==
    LET hour == IF m.bcd THEN HourDecoded(r.hour) ELSE r.hour
        Plain(x) == IF m.bcd THEN FromBcd(x) ELSE x
    IN  [second |-> Plain(r.second),
         minute |-> Plain(r.minute),
         hour   |-> IF ~m.h24 /\ (hour \div 128) % 2 = 1
                    THEN ((hour % 128) + 12) % 24 ELSE hour,
         day    |-> Plain(r.day) + (IF m.bcd /\ hour % 24 # 0 THEN 1 ELSE 0),
         month  |-> Plain(r.month),
         year   |-> FullYear(Plain(r.year))]

-----------------------------------------------------------------------------
Init ==
    /\ now \in Starts
    /\ mode \in [bcd : BOOLEAN, h24 : BOOLEAN]
    /\ regs = Registers(mode, now)
    /\ ticks = 0 /\ uip = FALSE /\ rolled = 0
    /\ pc = "idle" /\ idx = 1 /\ first = TRUE
    /\ raw = NoTime /\ last = NoTime /\ time = NoTime /\ shown = << >>
    /\ seen = {}

\* The chip starts an update.
UpdateStart ==
    /\ ~uip
    /\ ticks < MaxTick
    /\ uip' = TRUE
    /\ rolled' = 0
    /\ UNCHANGED <<now, ticks, regs, mode, pc, idx, raw, last, first, time, shown, seen>>

\* The chip replaces one register.
UpdateRegister ==
    /\ uip
    /\ rolled < Len(Field)
    /\ rolled' = rolled + 1
    /\ LET f == Field[rolled + 1]
       IN  regs' = [regs EXCEPT ![f] = Registers(mode, SecondAfter(now))[f]]
    /\ UNCHANGED <<now, ticks, uip, mode, pc, idx, raw, last, first, time, shown, seen>>

\* The update is complete.
UpdateEnd ==
    /\ uip
    /\ rolled = Len(Field)
    /\ now' = SecondAfter(now)
    /\ ticks' = ticks + 1
    /\ uip' = FALSE
    /\ rolled' = 0
    /\ seen' = IF pc \in {"idle", "show"} THEN seen ELSE seen \union {now'}
    /\ UNCHANGED <<regs, mode, pc, idx, raw, last, first, time, shown>>

\* The clock program clears its copy of the time and makes system call 14.
Begin ==
    /\ pc = "idle"
    /\ pc' = "wait"
    /\ first' = TRUE
    /\ time' = NoTime
    /\ seen' = {now}
    /\ UNCHANGED <<now, ticks, uip, rolled, regs, mode, idx, raw, last, shown>>

\* while (get_update_in_progress_flag()) ends.
FlagDown ==
    /\ pc = "wait"
    /\ ~uip
    /\ pc' = "read"
    /\ idx' = 1
    /\ UNCHANGED <<now, ticks, uip, rolled, regs, mode, raw, last, first, time, shown, seen>>

\* get_RTC_register of the next register.
ReadRegister ==
    /\ pc = "read"
    /\ raw' = [raw EXCEPT ![Field[idx]] = regs[Field[idx]]]
    /\ IF idx < Len(Field)
       THEN idx' = idx + 1 /\ pc' = pc
       ELSE idx' = 1 /\ pc' = "compare"
    /\ UNCHANGED <<now, ticks, uip, rolled, regs, mode, last, first, time, shown, seen>>

\* Fault: the values of the first pass are compared with for ever.
Again_KeepsLast ==
    /\ pc = "compare"
    /\ first \/ last # raw
    /\ last' = IF first THEN raw ELSE last
    /\ first' = FALSE
    /\ pc' = "wait"
    /\ UNCHANGED <<now, ticks, uip, rolled, regs, mode, idx, raw, time, shown, seen>>

\* The head of the loop: after the first pass, and when a pass differs from
\* the one before.
Again ==
    /\ pc = "compare"
    /\ first \/ last # raw
    /\ last' = raw
    /\ first' = FALSE
    /\ pc' = "wait"
    /\ UNCHANGED <<now, ticks, uip, rolled, regs, mode, idx, raw, time, shown, seen>>

\* Fault: only the seconds are compared.
Agree_Seconds ==
    /\ pc = "compare"
    /\ ~first
    /\ last.second = raw.second
    /\ pc' = "convert"
    /\ UNCHANGED <<now, ticks, uip, rolled, regs, mode, idx, raw, last, first, time, shown, seen>>

\* The condition of the loop fails.
Agree ==
    /\ pc = "compare"
    /\ ~first
    /\ last = raw
    /\ pc' = "convert"
    /\ UNCHANGED <<now, ticks, uip, rolled, regs, mode, idx, raw, last, first, time, shown, seen>>

\* Register B is read, and the result converted and stored.
Convert ==
    /\ pc = "convert"
    /\ time' = Converted(mode, raw)
    /\ pc' = "show"
    /\ UNCHANGED <<now, ticks, uip, rolled, regs, mode, idx, raw, last, first, shown, seen>>

\* The digits of buf: four of the year, two of each other field.
Face(t) ==
    <<t.year \div 1000, (t.year % 1000) \div 100, (t.year % 100) \div 10, t.year % 10,
      t.month \div 10, t.month % 10, t.day \div 10, t.day % 10,
      t.hour \div 10, t.hour % 10, t.minute \div 10, t.minute % 10,
      t.second \div 10, t.second % 10>>

\* The clock program puts the time on the screen.
Show ==
    /\ pc = "show"
    /\ shown' = Face(time)
    /\ pc' = "idle"
    /\ UNCHANGED <<now, ticks, uip, rolled, regs, mode, idx, raw, last, first, time, seen>>

Chip == UpdateStart \/ UpdateRegister \/ UpdateEnd

Driver == FlagDown \/ ReadRegister \/ Again \/ Agree \/ Convert

Next == Chip \/ Begin \/ Driver \/ Show

\* A call under way goes on, and an update that has begun comes to its end.
Fairness == WF_vars(Driver) /\ WF_vars(UpdateRegister \/ UpdateEnd)

Spec == Init /\ [][Next]_vars /\ Fairness

-----------------------------------------------------------------------------
Byte == 0 .. 255
Fields == {Field[i] : i \in 1 .. Len(Field)}

\* A call has returned and its time is shown.
Returned == pc = "idle" /\ seen # {}

\* Seven hours after t.
Wib(t) ==
    LET face == [t EXCEPT !.hour = (@ + 7) % 24]
    IN  IF t.hour + 7 >= 24 THEN DayAfter(face) ELSE face

\* The registers and the local variables of read_rtc are bytes, and the hour
\* it stores is one of the 24, whatever the mode of the chip.
TypeOK ==
    /\ ticks \in 0 .. MaxTick
    /\ uip \in BOOLEAN
    /\ rolled \in 0 .. Len(Field)
    /\ regs \in [Fields -> Byte]
    /\ pc \in {"idle", "wait", "read", "compare", "convert", "show"}
    /\ idx \in 1 .. Len(Field)
    /\ raw \in [Fields -> Byte]
    /\ last \in [Fields -> Byte]
    /\ first \in BOOLEAN
    /\ time.hour \in 0 .. 23

\* What read_rtc goes on to convert is no mixture of two times: all six
\* registers are those of one time the chip has shown since the call began,
\* wherever the updates fall among the reads.
Snapshot ==
    pc = "convert" => \E t \in seen : raw = Registers(mode, t)

\* With registers in binary-coded decimal, the clock shows the hour, minute and
\* second of western Indonesian time at a moment of the call, as decimal digits,
\* in the 24-hour mode and, but for the hours that begin with 12, in the 12-hour
\* mode.
ClockFaceInWib ==
    /\ Returned /\ mode.bcd
    /\ mode.h24 \/ \A t \in seen : t.hour % 12 # 0
    => /\ \A i \in 1 .. 14 : shown[i] \in 0 .. 9
       /\ \E t \in seen :
            /\ 10 * shown[9] + shown[10] = Wib(t).hour
            /\ 10 * shown[11] + shown[12] = Wib(t).minute
            /\ 10 * shown[13] + shown[14] = Wib(t).second

\* read_rtc returns: an update under its reads costs it a further pass and
\* never all passes to come.
ReadReturns == pc = "wait" ~> pc = "show"

\* With registers in binary-coded decimal and the 24-hour mode, the day that
\* read_rtc stores with the hour is that of western Indonesian time.
DayInWib ==
    Returned /\ mode.bcd /\ mode.h24 => \E t \in seen : time.day = Wib(t).day
=============================================================================

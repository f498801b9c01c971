----------------------------- MODULE CmosProofs -----------------------------
(***************************************************************************)
(* Proofs about the real-time clock (Cmos.tla): two passes over registers   *)
(* that change underneath are equal only when they show one time.           *)
(***************************************************************************)
EXTENDS Cmos, TLAPS

-----------------------------------------------------------------------------
(* The times of a behaviour *)

LEMMA TimesFields ==
    ASSUME NEW t
    PROVE  t \in Times <=>
             /\ t \in [second : 0 .. 59, minute : 0 .. 59, hour : 0 .. 23, day : 1 .. 31,
                       month : 1 .. 12, year : Nat]
             /\ t.day <= DaysIn(t.month, t.year)
BY DEF Times

LEMMA DaysInBounds ==
    ASSUME NEW m \in 1 .. 12, NEW y \in Nat PROVE DaysIn(m, y) \in 28 .. 31
BY DEF DaysIn

LEMMA DayAfterTime ==
    ASSUME NEW t \in Times
    PROVE  DayAfter(t) \in Times /\ DayAfter(t).second = t.second
           /\ DayAfter(t).minute = t.minute /\ DayAfter(t).hour = t.hour
<1> DEFINE final == t.day = DaysIn(t.month, t.year)
           d == IF final THEN 1 ELSE t.day + 1
           m == IF final /\ t.month = 12 THEN 1 ELSE IF final THEN t.month + 1 ELSE t.month
           y == IF final /\ t.month = 12 THEN t.year + 1 ELSE t.year
           r == DayAfter(t)
<1>1. /\ t \in [second : 0 .. 59, minute : 0 .. 59, hour : 0 .. 23, day : 1 .. 31,
                month : 1 .. 12, year : Nat]
      /\ t.day <= DaysIn(t.month, t.year)
  BY TimesFields
<1>2. r = [t EXCEPT !.day = d, !.month = m, !.year = y]
  BY Zenon DEF DayAfter
<1>3. DaysIn(t.month, t.year) \in 28 .. 31
  BY <1>1, DaysInBounds
<1>4. m \in 1 .. 12 /\ y \in Nat /\ d \in 1 .. 31
  BY <1>1, <1>3
<1>5. DaysIn(m, y) \in 28 .. 31
  BY <1>4, DaysInBounds
<1>6. d <= DaysIn(m, y)
  <2>1. CASE final
    BY <1>5, <2>1
  <2>2. CASE ~ final
    <3>1. m = t.month /\ y = t.year /\ d = t.day + 1
      BY <2>2
    <3> QED BY <1>1, <1>3, <2>2, <3>1
  <2> QED BY <2>1, <2>2
<1> HIDE DEF d, m, y, r
<1>7. /\ r \in [second : 0 .. 59, minute : 0 .. 59, hour : 0 .. 23, day : 1 .. 31,
                month : 1 .. 12, year : Nat]
      /\ r.day = d /\ r.month = m /\ r.year = y
      /\ r.second = t.second /\ r.minute = t.minute /\ r.hour = t.hour
  BY <1>1, <1>2, <1>4
<1>8. r \in Times
  BY <1>6, <1>7, TimesFields
<1> QED BY <1>7, <1>8 DEF r

\* Within a minute a second only counts.
LEMMA SecondWithin ==
    ASSUME NEW t \in Times, t.second # 59
    PROVE  SecondAfter(t) = [t EXCEPT !.second = t.second + 1]
<1>1. t \in [second : 0 .. 59, minute : 0 .. 59, hour : 0 .. 23, day : 1 .. 31,
             month : 1 .. 12, year : Nat]
  BY TimesFields
<1>2. (t.second + 1) % 60 = t.second + 1
  BY <1>1
<1> QED BY <1>1, <1>2 DEF SecondAfter

LEMMA FaceSet ==
    ASSUME NEW t \in [second : 0 .. 59, minute : 0 .. 59, hour : 0 .. 23, day : 1 .. 31,
                      month : 1 .. 12, year : Nat],
           NEW s \in 0 .. 59, NEW m \in 0 .. 59, NEW h \in 0 .. 23, NEW r,
           r = [t EXCEPT !.second = s, !.minute = m, !.hour = h]
    PROVE  /\ r \in [second : 0 .. 59, minute : 0 .. 59, hour : 0 .. 23, day : 1 .. 31,
                     month : 1 .. 12, year : Nat]
           /\ r.day = t.day /\ r.month = t.month /\ r.year = t.year /\ r.second = s
           /\ r.minute = m /\ r.hour = h
OBVIOUS

\* A second after second 59 another minute begins.
LEMMA MinuteAfter ==
    ASSUME NEW t \in Times, t.second = 59
    PROVE  SecondAfter(t) \in Times /\ SecondAfter(t).second = 0
<1> DEFINE hourFull == t.minute = 59
           dayFull == hourFull /\ t.hour = 23
           m == (t.minute + 1) % 60
           h == IF hourFull THEN (t.hour + 1) % 24 ELSE t.hour
           face == [t EXCEPT !.second = 0, !.minute = m, !.hour = h]
<1>1. t \in [second : 0 .. 59, minute : 0 .. 59, hour : 0 .. 23, day : 1 .. 31,
             month : 1 .. 12, year : Nat]
  BY TimesFields
<1>2. (t.second + 1) % 60 = 0 /\ m \in 0 .. 59 /\ h \in 0 .. 23
  BY <1>1
<1>3. SecondAfter(t) = IF dayFull THEN DayAfter(face) ELSE face
  BY <1>2 DEF SecondAfter
<1> HIDE DEF m, h
<1>4. face \in Times /\ face.second = 0
  <2>1. t.day <= DaysIn(t.month, t.year)
    BY TimesFields
  <2>2. PICK s : s = 0
    OBVIOUS
  <2>3. s \in 0 .. 59 /\ face = [t EXCEPT !.second = s, !.minute = m, !.hour = h]
    BY <2>2
  <2> HIDE DEF face
  <2>4. /\ face \in [second : 0 .. 59, minute : 0 .. 59, hour : 0 .. 23, day : 1 .. 31,
                     month : 1 .. 12, year : Nat]
        /\ face.day = t.day /\ face.month = t.month /\ face.year = t.year /\ face.second = s
    BY <1>1, <1>2, <2>3, FaceSet
  <2> QED BY <2>1, <2>2, <2>4, TimesFields
<1> HIDE DEF face
<1> QED BY <1>3, <1>4, DayAfterTime

\* The time k seconds after a, for less than a minute.
Next60(a) == SecondAfter([a EXCEPT !.second = 59])

At(a, k) ==
    IF a.second + k < 60 THEN [a EXCEPT !.second = a.second + k]
    ELSE [Next60(a) EXCEPT !.second = a.second + k - 60]

Seconded(t, s, r) == r = [t EXCEPT !.second = s]

LEMMA SetSecond ==
    ASSUME NEW t \in Times, NEW s \in 0 .. 59, NEW r, Seconded(t, s, r)
    PROVE  r \in Times /\ r.second = s
<1>1. /\ t \in [second : 0 .. 59, minute : 0 .. 59, hour : 0 .. 23, day : 1 .. 31,
                month : 1 .. 12, year : Nat]
      /\ t.day <= DaysIn(t.month, t.year)
  BY TimesFields
<1>2. /\ r \in [second : 0 .. 59, minute : 0 .. 59, hour : 0 .. 23, day : 1 .. 31,
                month : 1 .. 12, year : Nat]
      /\ r.day = t.day /\ r.month = t.month /\ r.year = t.year /\ r.second = s
  BY <1>1 DEF Seconded
<1> QED BY <1>1, <1>2, TimesFields

LEMMA SecondOf ==
    ASSUME NEW t \in Times PROVE t.second \in 0 .. 59
BY TimesFields

LEMMA Next60Time ==
    ASSUME NEW a \in Times PROVE Next60(a) \in Times /\ Next60(a).second = 0
<1> DEFINE t == [a EXCEPT !.second = 59]
<1>1. t \in Times /\ t.second = 59
  <2>1. Seconded(a, 59, t)
    BY DEF Seconded
  <2> HIDE DEF t
  <2> QED BY <2>1, SetSecond
<1> HIDE DEF t
<1>2. SecondAfter(t) \in Times /\ SecondAfter(t).second = 0
  BY <1>1, MinuteAfter
<1> QED BY <1>2 DEF Next60, t

LEMMA AtTime ==
    ASSUME NEW a \in Times, NEW k \in 0 .. 59
    PROVE  /\ At(a, k) \in Times
           /\ a.second + k < 60 => At(a, k).second = a.second + k
           /\ ~ (a.second + k < 60) => At(a, k).second = a.second + k - 60
<1>1. a.second \in 0 .. 59
  BY SecondOf
<1>2. CASE a.second + k < 60
  <2>1. a.second + k \in 0 .. 59 /\ Seconded(a, a.second + k, At(a, k))
    BY <1>1, <1>2 DEF At, Seconded
  <2>2. At(a, k) \in Times /\ At(a, k).second = a.second + k
    BY <2>1, SetSecond
  <2> QED BY <1>2, <2>2
<1>3. CASE ~ (a.second + k < 60)
  <2>1. a.second + k - 60 \in 0 .. 59
        /\ Seconded(Next60(a), a.second + k - 60, At(a, k))
    BY <1>1, <1>3 DEF At, Seconded
  <2>2. At(a, k) \in Times /\ At(a, k).second = a.second + k - 60
    BY <2>1, SetSecond, Next60Time
  <2> QED BY <1>3, <2>2
<1> QED BY <1>2, <1>3

\* The second of a time set twice.
LEMMA SecondSetTwice ==
    ASSUME NEW t \in Times, NEW s, NEW r
    PROVE  [[t EXCEPT !.second = s] EXCEPT !.second = r] = [t EXCEPT !.second = r]
OBVIOUS

LEMMA AtZero == ASSUME NEW a \in Times PROVE At(a, 0) = a
<1>1. a.second + 0 < 60 /\ a.second + 0 = a.second
  BY SecondOf
<1>2. At(a, 0) = [a EXCEPT !.second = a.second]
  BY <1>1 DEF At
<1>3. a \in [second : 0 .. 59, minute : 0 .. 59, hour : 0 .. 23, day : 1 .. 31,
             month : 1 .. 12, year : Nat]
  BY TimesFields
<1> QED BY <1>2, <1>3

LEMMA AtNext ==
    ASSUME NEW a \in Times, NEW k \in 0 .. 58 PROVE SecondAfter(At(a, k)) = At(a, k + 1)
<1> DEFINE t == At(a, k)
<1>1. /\ t \in Times /\ a.second \in 0 .. 59
      /\ a.second + k < 60 => t.second = a.second + k
      /\ ~ (a.second + k < 60) => t.second = a.second + k - 60
  <2>1. k \in 0 .. 59
    OBVIOUS
  <2>2. a.second \in 0 .. 59
    BY SecondOf
  <2> QED BY <2>1, <2>2, AtTime
<1>2. CASE a.second + k < 59
  <2>1. t = [a EXCEPT !.second = a.second + k]
    BY <1>1, <1>2 DEF At
  <2>2. At(a, k + 1) = [a EXCEPT !.second = a.second + (k + 1)]
    BY <1>1, <1>2 DEF At
  <2>3. t.second = a.second + k /\ t.second # 59 /\ t.second + 1 = a.second + (k + 1)
    BY <1>1, <1>2
  <2> HIDE DEF t
  <2>4. SecondAfter(t) = [t EXCEPT !.second = t.second + 1]
    BY <1>1, <2>3, SecondWithin
  <2>5. SecondAfter(t) = [[a EXCEPT !.second = a.second + k] EXCEPT !.second = a.second + (k + 1)]
    BY <2>1, <2>3, <2>4
  <2> QED BY <2>2, <2>5, SecondSetTwice DEF t
<1>3. CASE a.second + k = 59
  <2>1. At(a, k) = [a EXCEPT !.second = 59]
    BY <1>1, <1>3 DEF At
  <2>2. a.second + (k + 1) = 60 /\ ~ (a.second + (k + 1) < 60) /\ a.second + (k + 1) - 60 = 0
    BY <1>1, <1>3
  <2>3. At(a, k + 1) = [Next60(a) EXCEPT !.second = 0]
    BY <2>2 DEF At
  <2>4. [Next60(a) EXCEPT !.second = 0] = Next60(a)
    BY Next60Time, TimesFields
  <2> QED BY <2>1, <2>3, <2>4 DEF Next60
<1>4. CASE a.second + k >= 60
  <2>0. ~ (a.second + k < 60) /\ ~ (a.second + (k + 1) < 60)
    BY <1>1, <1>4
  <2>1. t = [Next60(a) EXCEPT !.second = a.second + k - 60]
    BY <2>0 DEF At
  <2>2. At(a, k + 1) = [Next60(a) EXCEPT !.second = a.second + (k + 1) - 60]
    BY <2>0 DEF At
  <2>3. t.second # 59 /\ t.second + 1 = a.second + (k + 1) - 60
    BY <1>1, <2>0
  <2> HIDE DEF t
  <2>4. SecondAfter(t) = [t EXCEPT !.second = t.second + 1]
    BY <1>1, <2>3, SecondWithin
  <2>5. SecondAfter(t) = [[Next60(a) EXCEPT !.second = a.second + k - 60]
                             EXCEPT !.second = a.second + (k + 1) - 60]
    BY <2>1, <2>3, <2>4
  <2> QED BY <2>2, <2>5, SecondSetTwice, Next60Time DEF t
<1> QED BY <1>1, <1>2, <1>3, <1>4

-----------------------------------------------------------------------------
(* The inductive invariant *)

Mode == [bcd : BOOLEAN, h24 : BOOLEAN]

\* Which tick the register that is read i-th shows when k updates are
\* complete: the next one when the update under way has replaced it.
StageOf(u, r, k, i) == IF u /\ i <= r THEN k + 1 ELSE k

Stage(i) == StageOf(uip, rolled, ticks, i)

\* Register i of v is what the chip held at some tick from lo to hi.
Held(m, a, v, i, lo, hi) ==
    \E k \in lo .. hi : v[Field[i]] = Registers(m, At(a, k))[Field[i]]

TypeInv == TypeOK /\ mode \in Mode

\* a is the time at which the chip was found.
ChipInv(a) ==
    /\ now = At(a, ticks)
    /\ uip => ticks < MaxTick
    /\ \A i \in 1 .. 6 : Held(mode, a, regs, i, Stage(i), Stage(i))

\* c is the tick at which the flag was last seen down: what was read before
\* is not younger than it, what is read now is not older.
PassInv(a, c) ==
    /\ pc = "wait" /\ ~first => \A i \in 1 .. 6 : Held(mode, a, last, i, 0, Stage(i))
    /\ pc \in {"read", "compare"} => At(a, c) \in seen /\ c <= ticks
    /\ pc \in {"read", "compare"} /\ ~first => \A i \in 1 .. 6 : Held(mode, a, last, i, 0, c)
    /\ pc = "read" => \A i \in 1 .. idx - 1 : Held(mode, a, raw, i, c, Stage(i))
    /\ pc = "compare" => \A i \in 1 .. 6 : Held(mode, a, raw, i, c, Stage(i))

\* What the call goes on with is one time of the chip.
CallInv ==
    /\ seen \subseteq Times
    /\ pc \notin {"idle", "show"} => now \in seen
    /\ Snapshot
    /\ pc = "show" => \E t \in seen : time = Converted(mode, Registers(mode, t))
    /\ Returned => \E t \in seen : shown = Face(Converted(mode, Registers(mode, t)))

ClockInv == TypeInv /\ CallInv /\ \E a \in Starts, c \in 0 .. 59 : ChipInv(a) /\ PassInv(a, c)

-----------------------------------------------------------------------------
(* The registers *)

LEMMA FieldFacts ==
    /\ Len(Field) = 6
    /\ Fields = {"second", "minute", "hour", "day", "month", "year"}
    /\ Field[1] = "second" /\ Field[2] = "minute" /\ Field[3] = "hour"
    /\ Field[4] = "day" /\ Field[5] = "month" /\ Field[6] = "year"
<1>1. Len(Field) = 6
  BY DEF Field
<1>2. /\ Field[1] = "second" /\ Field[2] = "minute" /\ Field[3] = "hour"
      /\ Field[4] = "day" /\ Field[5] = "month" /\ Field[6] = "year"
  BY DEF Field
<1>3. 1 .. Len(Field) = {1, 2, 3, 4, 5, 6}
  BY <1>1
<1>4. Fields = {Field[i] : i \in {1, 2, 3, 4, 5, 6}}
  BY <1>3, Zenon DEF Fields
<1> HIDE DEF Fields, Field
<1>5. Fields = {"second", "minute", "hour", "day", "month", "year"}
  BY <1>2, <1>4
<1> QED BY <1>1, <1>2, <1>5

LEMMA FieldIndex ==
    /\ \A i \in 1 .. 6 : Field[i] \in Fields
    /\ \A f \in Fields : \E i \in 1 .. 6 : Field[i] = f
    /\ \A i, j \in 1 .. 6 : Field[i] = Field[j] => i = j
<1> HIDE DEF Fields, Field
<1>1. \A i \in 1 .. 6 : i = 1 \/ i = 2 \/ i = 3 \/ i = 4 \/ i = 5 \/ i = 6
  OBVIOUS
<1>2. \A i \in 1 .. 6 : Field[i] \in Fields
  BY <1>1, FieldFacts
<1>3. \A f \in Fields : \E i \in 1 .. 6 : Field[i] = f
  <2>1. TAKE f \in Fields
  <2>2. \/ f = Field[1] \/ f = Field[2] \/ f = Field[3] \/ f = Field[4] \/ f = Field[5]
        \/ f = Field[6]
    BY <2>1, FieldFacts
  <2>3. 1 \in 1 .. 6 /\ 2 \in 1 .. 6 /\ 3 \in 1 .. 6 /\ 4 \in 1 .. 6 /\ 5 \in 1 .. 6 /\ 6 \in 1 .. 6
    OBVIOUS
  <2> QED BY <2>2, <2>3
<1>4. \A i, j \in 1 .. 6 : Field[i] = Field[j] => i = j
  BY <1>1, FieldFacts
<1> QED BY <1>2, <1>3, <1>4

LEMMA DigitsByte ==
    ASSUME NEW m, NEW n \in 0 .. 99 PROVE Digits(m, n) \in 0 .. 153
BY DEF Digits

LEMMA HourByte ==
    ASSUME NEW m, NEW h \in 0 .. 23 PROVE HourRegister(m, h) \in Byte
<1>1. CASE m.h24
  <2>1. h \in 0 .. 99
    OBVIOUS
  <2>2. Digits(m, h) \in 0 .. 153
    BY <2>1, DigitsByte
  <2> QED BY <1>1, <2>2 DEF HourRegister, Byte
<1>2. CASE ~ m.h24
  <2> DEFINE n == IF h % 12 = 0 THEN 12 ELSE h % 12
  <2>1. n \in 1 .. 12
    OBVIOUS
  <2>2. HourRegister(m, h) = Digits(m, n) + (IF h >= 12 THEN 128 ELSE 0)
    BY <1>2 DEF HourRegister
  <2> HIDE DEF n
  <2>3. Digits(m, n) \in 0 .. 18
    BY <2>1 DEF Digits
  <2> QED BY <2>2, <2>3 DEF Byte
<1> QED BY <1>1, <1>2

LEMMA RegistersOf ==
    ASSUME NEW m, NEW t \in Times
    PROVE  /\ Registers(m, t).second = Digits(m, t.second)
           /\ Registers(m, t).minute = Digits(m, t.minute)
           /\ Registers(m, t).hour = HourRegister(m, t.hour)
           /\ Registers(m, t).day = Digits(m, t.day)
           /\ Registers(m, t).month = Digits(m, t.month)
           /\ Registers(m, t).year = Digits(m, t.year % 100)
           /\ Registers(m, t) \in [Fields -> Byte]
<1> DEFINE R == [f \in Fields |->
                   CASE f = "hour" -> HourRegister(m, t.hour)
                     [] f = "year" -> Digits(m, t.year % 100)
                     [] OTHER      -> Digits(m, t[f])]
<1>1. t \in [second : 0 .. 59, minute : 0 .. 59, hour : 0 .. 23, day : 1 .. 31,
             month : 1 .. 12, year : Nat]
  BY TimesFields
<1>2. DOMAIN t = Fields
  BY <1>1, FieldFacts
<1>3. Registers(m, t) = R
  BY <1>2, Zenon DEF Registers
<1>4. /\ "second" \in Fields /\ "minute" \in Fields /\ "hour" \in Fields /\ "day" \in Fields
      /\ "month" \in Fields /\ "year" \in Fields
  BY FieldFacts
<1>5. /\ R["second"] = Digits(m, t.second) /\ R["minute"] = Digits(m, t.minute)
      /\ R["hour"] = HourRegister(m, t.hour) /\ R["day"] = Digits(m, t.day)
      /\ R["month"] = Digits(m, t.month) /\ R["year"] = Digits(m, t.year % 100)
  BY <1>4
<1>6. /\ Digits(m, t.second) \in Byte /\ Digits(m, t.minute) \in Byte /\ Digits(m, t.day) \in Byte
      /\ Digits(m, t.month) \in Byte /\ Digits(m, t.year % 100) \in Byte
  <2>1. \A n \in 0 .. 99 : Digits(m, n) \in Byte
    BY DigitsByte DEF Byte
  <2>2. t.second \in 0 .. 99 /\ t.minute \in 0 .. 99 /\ t.day \in 0 .. 99 /\ t.month \in 0 .. 99
        /\ t.year % 100 \in 0 .. 99
    BY <1>1
  <2> QED BY <2>1, <2>2
<1>7. HourRegister(m, t.hour) \in Byte
  BY <1>1, HourByte
<1>8. DOMAIN R = Fields /\ R = [f \in DOMAIN R |-> R[f]]
  OBVIOUS
<1> HIDE DEF R
<1>9. \A f \in Fields : R[f] \in Byte
  BY <1>5, <1>6, <1>7, FieldFacts
<1>10. R \in [Fields -> Byte]
  BY <1>8, <1>9
<1> QED BY <1>3, <1>5, <1>10

\* Registers are equal when the times are, and read as one value.
LEMMA DigitsInjective ==
    ASSUME NEW m, NEW n \in 0 .. 59, NEW k \in 0 .. 59, Digits(m, n) = Digits(m, k)
    PROVE  n = k
<1>1. n = 10 * (n \div 10) + (n % 10) /\ k = 10 * (k \div 10) + (k % 10)
  OBVIOUS
<1>2. n % 10 \in 0 .. 9 /\ k % 10 \in 0 .. 9 /\ n \div 10 \in 0 .. 5 /\ k \div 10 \in 0 .. 5
  OBVIOUS
<1> QED BY <1>1, <1>2 DEF Digits

\* Only the seconds tell two times of a minute apart.
LEMMA SetSecondRegisters ==
    ASSUME NEW m, NEW t \in Times, NEW s \in 0 .. 59, NEW r, Seconded(t, s, r),
           NEW i \in 2 .. 6
    PROVE  Registers(m, r)[Field[i]] = Registers(m, t)[Field[i]]
<1> DEFINE Q == Registers(m, r)
           R == Registers(m, t)
<1>1. r \in Times
  BY SetSecond
<1>2. t \in [second : 0 .. 59, minute : 0 .. 59, hour : 0 .. 23, day : 1 .. 31,
             month : 1 .. 12, year : Nat]
  BY TimesFields
<1>3. /\ r.minute = t.minute /\ r.hour = t.hour /\ r.day = t.day /\ r.month = t.month
      /\ r.year = t.year
  BY <1>2 DEF Seconded
<1>4. /\ Q.minute = Digits(m, t.minute) /\ Q.hour = HourRegister(m, t.hour)
      /\ Q.day = Digits(m, t.day) /\ Q.month = Digits(m, t.month)
      /\ Q.year = Digits(m, t.year % 100)
  BY <1>1, <1>3, RegistersOf
<1>5. /\ R.minute = Digits(m, t.minute) /\ R.hour = HourRegister(m, t.hour)
      /\ R.day = Digits(m, t.day) /\ R.month = Digits(m, t.month)
      /\ R.year = Digits(m, t.year % 100)
  BY RegistersOf
<1> HIDE DEF Q, R
<1>6. /\ Q["minute"] = R["minute"] /\ Q["hour"] = R["hour"] /\ Q["day"] = R["day"]
      /\ Q["month"] = R["month"] /\ Q["year"] = R["year"]
  BY <1>4, <1>5
<1>7. Field[i] \in {"minute", "hour", "day", "month", "year"}
  <2>1. i = 2 \/ i = 3 \/ i = 4 \/ i = 5 \/ i = 6
    OBVIOUS
  <2> QED BY <2>1, FieldFacts
<1>8. Q[Field[i]] = R[Field[i]]
  BY <1>6, <1>7
<1> QED BY <1>8 DEF Q, R

\* q is t with other seconds.
Moved(t, q) == \E s \in 0 .. 59 : Seconded(t, s, q)

\* The registers other than the seconds are the same at q and at r.
SameFace(m, q, r) == \A i \in 2 .. 6 : Registers(m, q)[Field[i]] = Registers(m, r)[Field[i]]

LEMMA MovedFace ==
    ASSUME NEW m, NEW t \in Times, NEW q, NEW r, Moved(t, q), Moved(t, r)
    PROVE  SameFace(m, q, r)
<1>1. PICK s \in 0 .. 59 : Seconded(t, s, q)
  BY Zenon DEF Moved
<1>2. PICK u \in 0 .. 59 : Seconded(t, u, r)
  BY Zenon DEF Moved
<1>3. SUFFICES ASSUME NEW i \in 2 .. 6
               PROVE  Registers(m, q)[Field[i]] = Registers(m, r)[Field[i]]
  BY Zenon DEF SameFace
<1>4. Registers(m, q)[Field[i]] = Registers(m, t)[Field[i]]
  BY <1>1, SetSecondRegisters
<1>5. Registers(m, r)[Field[i]] = Registers(m, t)[Field[i]]
  BY <1>2, SetSecondRegisters
<1> QED BY <1>4, <1>5, Zenon

SameSide(a, j, k) == a.second + j < 60 <=> a.second + k < 60

\* The times of the same minute are the same time with other seconds.
LEMMA AtMoved ==
    ASSUME NEW a \in Times, NEW j \in 0 .. 59
    PROVE  Moved(IF a.second + j < 60 THEN a ELSE Next60(a), At(a, j))
<1> DEFINE s == a.second
<1>1. s \in 0 .. 59
  BY SecondOf
<1>2. /\ s + j < 60 => Seconded(a, s + j, At(a, j))
      /\ ~ (s + j < 60) => Seconded(Next60(a), s + j - 60, At(a, j))
  BY Zenon DEF At, Seconded
<1>3. Moved(IF s + j < 60 THEN a ELSE Next60(a), At(a, j))
  <2> HIDE DEF s
  <2>1. /\ s + j < 60 => s + j \in 0 .. 59
        /\ ~ (s + j < 60) => s + j - 60 \in 0 .. 59
    BY <1>1
  <2> QED BY <1>2, <2>1, Zenon DEF Moved
<1> QED BY <1>3

LEMMA SameMinute ==
    ASSUME NEW m, NEW a \in Times, NEW j \in 0 .. 59, NEW k \in 0 .. 59, SameSide(a, j, k)
    PROVE  SameFace(m, At(a, j), At(a, k))
<1>1. PICK t \in Times : Moved(t, At(a, j)) /\ Moved(t, At(a, k))
  <2>1. Next60(a) \in Times
    BY Next60Time
  <2>2. /\ Moved(IF a.second + j < 60 THEN a ELSE Next60(a), At(a, j))
        /\ Moved(IF a.second + k < 60 THEN a ELSE Next60(a), At(a, k))
    BY AtMoved
  <2> QED BY <2>1, <2>2, Zenon DEF SameSide
<1> QED BY <1>1, MovedFace

LEMMA SecondTells ==
    ASSUME NEW m, NEW a \in Times, NEW j \in 0 .. 59, NEW k \in 0 .. 59,
           Registers(m, At(a, j)).second = Registers(m, At(a, k)).second
    PROVE  j = k
<1>1. At(a, j) \in Times /\ At(a, k) \in Times
  BY AtTime
<1>2. Digits(m, At(a, j).second) = Digits(m, At(a, k).second)
  BY <1>1, RegistersOf
<1>3. At(a, j).second \in 0 .. 59 /\ At(a, k).second \in 0 .. 59
  BY <1>1, SecondOf
<1>4. At(a, j).second = At(a, k).second
  BY <1>2, <1>3, DigitsInjective
<1>5. a.second \in 0 .. 59
  BY SecondOf
<1>6. /\ a.second + j < 60 => At(a, j).second = a.second + j
      /\ ~ (a.second + j < 60) => At(a, j).second = a.second + j - 60
      /\ a.second + k < 60 => At(a, k).second = a.second + k
      /\ ~ (a.second + k < 60) => At(a, k).second = a.second + k - 60
  BY AtTime, Zenon
<1> DEFINE x == At(a, j).second
           y == At(a, k).second
           s == a.second
<1>7. /\ x \in 0 .. 59 /\ y \in 0 .. 59 /\ s \in 0 .. 59 /\ x = y
      /\ s + j < 60 => x = s + j
      /\ ~ (s + j < 60) => x = s + j - 60
      /\ s + k < 60 => y = s + k
      /\ ~ (s + k < 60) => y = s + k - 60
  BY <1>3, <1>4, <1>5, <1>6, Zenon
<1> HIDE DEF x, y, s
<1> QED BY <1>7

\* Two passes that agree, one read before tick c and one after it, both show
\* the time of tick c: the seconds say that nothing moved between the two
\* reads of them, and every other register is on the same side of the end of
\* the minute as tick c in the pass that is on that side.
LEMMA PassesAgree ==
    ASSUME NEW m, NEW a \in Times, NEW c \in 0 .. 59, NEW v \in [Fields -> Byte],
           NEW hi \in [1 .. 6 -> 0 .. 59],
           \A i \in 1 .. 6 : Held(m, a, v, i, 0, c),
           \A i \in 1 .. 6 : Held(m, a, v, i, c, hi[i])
    PROVE  v = Registers(m, At(a, c))
<1> DEFINE R == Registers(m, At(a, c))
<1>1. At(a, c) \in Times /\ a.second \in 0 .. 59
  BY AtTime, SecondOf
<1>2. R \in [Fields -> Byte]
  BY <1>1, RegistersOf
<1>s. \A j \in 0 .. 59, n \in 2 .. 6 :
         SameSide(a, j, c) => Registers(m, At(a, j))[Field[n]] = R[Field[n]]
  <2>1. ASSUME NEW j \in 0 .. 59, SameSide(a, j, c)
        PROVE  SameFace(m, At(a, j), At(a, c))
    BY <2>1, SameMinute
  <2> QED BY <2>1, Zenon DEF SameFace
<1>3. \A i \in 1 .. 6 : v[Field[i]] = R[Field[i]]
  <2>1. SUFFICES ASSUME NEW i \in 1 .. 6 PROVE v[Field[i]] = R[Field[i]]
    BY Zenon
  <2>2. PICK l \in 0 .. c : v[Field[i]] = Registers(m, At(a, l))[Field[i]]
    BY DEF Held
  <2>3. hi[i] \in 0 .. 59
    OBVIOUS
  <2>4. PICK k \in c .. hi[i] : v[Field[i]] = Registers(m, At(a, k))[Field[i]]
    BY DEF Held
  <2>5. l \in 0 .. 59 /\ k \in 0 .. 59 /\ l <= c /\ c <= k
    BY <2>3
  <2>6. CASE i = 1
    <3>1. Registers(m, At(a, l)).second = Registers(m, At(a, k)).second
      BY <2>2, <2>4, <2>6, FieldFacts
    <3>2. l = k
      BY <2>5, <3>1, SecondTells
    <3>3. l = c
      BY <2>5, <3>2
    <3> QED BY <2>2, <3>3
  <2>7. CASE i \in 2 .. 6 /\ a.second + c < 60
    <3>1. SameSide(a, l, c) /\ i \in 2 .. 6
      BY <1>1, <2>5, <2>7 DEF SameSide
    <3>2. Registers(m, At(a, l))[Field[i]] = R[Field[i]]
      BY <1>s, <2>5, <3>1
    <3> QED BY <2>2, <3>2
  <2>8. CASE i \in 2 .. 6 /\ ~ (a.second + c < 60)
    <3>1. SameSide(a, k, c) /\ i \in 2 .. 6
      BY <1>1, <2>5, <2>8 DEF SameSide
    <3>2. Registers(m, At(a, k))[Field[i]] = R[Field[i]]
      BY <1>s, <2>5, <3>1
    <3> QED BY <2>4, <3>2
  <2>9. i = 1 \/ i \in 2 .. 6
    OBVIOUS
  <2> QED BY <2>6, <2>7, <2>8, <2>9
<1> HIDE DEF R
<1>4. \A f \in Fields : v[f] = R[f]
  BY <1>3, FieldIndex
<1>5. v = R
  BY <1>2, <1>4
<1> QED BY <1>5 DEF R

-----------------------------------------------------------------------------
(* The conversions *)

LEMMA FromBcdDigits ==
    ASSUME NEW m, m.bcd, NEW n \in 0 .. 99 PROVE FromBcd(Digits(m, n)) = n
<1>1. n = 10 * (n \div 10) + (n % 10) /\ n \div 10 \in 0 .. 9 /\ n % 10 \in 0 .. 9
  OBVIOUS
<1>2. \A d \in 0 .. 9, u \in 0 .. 9 : (16 * d + u) % 16 = u /\ (16 * d + u) \div 16 = d
  OBVIOUS
<1> QED BY <1>1, <1>2 DEF FromBcd, Digits

\* What HourDecoded makes of a binary-coded hour n, with the flag or without.
LEMMA HourDecodes ==
    ASSUME NEW m, m.bcd, NEW n \in 0 .. 23
    PROVE  /\ HourDecoded(Digits(m, n)) = (n + 7) % 24
           /\ HourDecoded(Digits(m, n) + 128) = ((n + 7) % 24) + 128
<1> DEFINE d == n \div 10
           u == n % 10
<1>1. n = 10 * d + u /\ d \in 0 .. 2 /\ u \in 0 .. 9
  OBVIOUS
<1>2. Digits(m, n) = 16 * d + u
  BY DEF Digits
<1> HIDE DEF d, u
<1>3. /\ (16 * d + u) % 16 = u /\ (16 * d + u) \div 16 = d /\ d % 8 = d
      /\ 16 * d + u < 128
  BY <1>1
<1>4. /\ (16 * d + u + 128) % 16 = u /\ (16 * d + u + 128) \div 16 = d + 8 /\ (d + 8) % 8 = d
      /\ 16 * d + u + 128 >= 128
  BY <1>1
<1>5. u + d * 10 = n
  BY <1>1
<1>6. HourDecoded(16 * d + u) = ((n + 7) % 24) + 0
  BY <1>1, <1>3, <1>5 DEF HourDecoded
<1>7. HourDecoded(16 * d + u + 128) = ((n + 7) % 24) + 128
  BY <1>1, <1>4, <1>5 DEF HourDecoded
<1>8. ((n + 7) % 24) + 0 = (n + 7) % 24
  OBVIOUS
<1> QED BY <1>2, <1>6, <1>7, <1>8

\* An hour of the 12-hour clock.
Twelve(h) == IF h % 12 = 0 THEN 12 ELSE h % 12

\* The hour that read_rtc stores.
StoredHour(m, h) ==
    IF m.h24 THEN IF m.bcd THEN (h + 7) % 24 ELSE h
    ELSE LET n == IF m.bcd THEN (Twelve(h) + 7) % 24 ELSE Twelve(h)
         IN  IF h >= 12 THEN (n + 12) % 24 ELSE n

LEMMA StoredHourIs ==
    ASSUME NEW m \in Mode, NEW t \in Times
    PROVE  /\ Converted(m, Registers(m, t)).hour = StoredHour(m, t.hour)
           /\ StoredHour(m, t.hour) \in 0 .. 23
<1> DEFINE b == Registers(m, t).hour
           hour == IF m.bcd THEN HourDecoded(b) ELSE b
           h == t.hour
           n == Twelve(h)
           x == IF m.bcd THEN (n + 7) % 24 ELSE n
<1>0. h \in 0 .. 23
  BY TimesFields
<1>1. Converted(m, Registers(m, t)).hour
        = IF ~m.h24 /\ (hour \div 128) % 2 = 1 THEN ((hour % 128) + 12) % 24 ELSE hour
  BY Zenon DEF Converted
<1>2. b = HourRegister(m, h)
  BY RegistersOf
<1> HIDE DEF b, h
<1>3. CASE m.h24
  <2>1. b = Digits(m, h)
    BY <1>2, <1>3 DEF HourRegister
  <2>2. hour = IF m.bcd THEN (h + 7) % 24 ELSE h
    BY <1>0, <2>1, HourDecodes DEF Digits
  <2>3. StoredHour(m, h) = hour
    BY <1>3, <2>2 DEF StoredHour
  <2>4. hour \in 0 .. 23
    BY <1>0, <2>2
  <2>5. Converted(m, Registers(m, t)).hour = hour
    BY <1>1, <1>3
  <2> HIDE DEF hour
  <2> QED BY <2>3, <2>4, <2>5 DEF h
<1>4. CASE ~ m.h24
  <2>1. b = Digits(m, n) + (IF h >= 12 THEN 128 ELSE 0)
    BY <1>2, <1>4 DEF HourRegister, Twelve
  <2>2. n \in 1 .. 12
    BY <1>0 DEF Twelve
  <2> HIDE DEF n
  <2>3. x \in 0 .. 23
    BY <2>2
  <2>4. StoredHour(m, h) = IF h >= 12 THEN (x + 12) % 24 ELSE x
    BY <1>4 DEF StoredHour, n
  <2>5. CASE h >= 12
    <3>1. b = Digits(m, n) + 128
      BY <2>1, <2>5
    <3>2. n \in 0 .. 23
      BY <2>2
    <3>3. hour = x + 128
      BY <3>1, <3>2, HourDecodes DEF Digits
    <3> HIDE DEF hour, x
    <3>4. (hour \div 128) % 2 = 1 /\ hour % 128 = x
      BY <2>3, <3>3
    <3>5. Converted(m, Registers(m, t)).hour = (x + 12) % 24
      BY <1>1, <1>4, <3>4
    <3>6. (x + 12) % 24 \in 0 .. 23
      BY <2>3
    <3> QED BY <2>4, <2>5, <3>5, <3>6 DEF h
  <2>6. CASE ~ (h >= 12)
    <3>0. n \in 0 .. 23 /\ n \in 0 .. 99
      BY <2>2
    <3>1. b = Digits(m, n)
      <4>1. b = Digits(m, n) + 0
        BY <2>1, <2>6
      <4>2. Digits(m, n) \in 0 .. 153
        BY <3>0, DigitsByte
      <4> QED BY <4>1, <4>2
    <3>3. hour = x
      BY <3>0, <3>1, HourDecodes DEF Digits
    <3> HIDE DEF hour, x
    <3>4. (hour \div 128) % 2 = 0
      BY <2>3, <3>3
    <3>5. Converted(m, Registers(m, t)).hour = x
      BY <1>1, <1>4, <3>3, <3>4
    <3> QED BY <2>3, <2>4, <2>6, <3>5 DEF h
  <2> QED BY <2>5, <2>6
<1> QED BY <1>3, <1>4

\* With binary-coded registers the stored hour is seven hours on, but for the
\* hours that begin with 12 in the 12-hour mode.
LEMMA StoredHourWib ==
    ASSUME NEW m, m.bcd, NEW h \in 0 .. 23, m.h24 \/ h % 12 # 0
    PROVE  StoredHour(m, h) = (h + 7) % 24
<1>1. CASE m.h24
  BY <1>1 DEF StoredHour
<1>2. CASE ~ m.h24
  <2>1. Twelve(h) = h % 12 /\ h % 12 \in 1 .. 11
    BY <1>2 DEF Twelve
  <2>2. StoredHour(m, h) = IF h >= 12 THEN ((((h % 12) + 7) % 24) + 12) % 24 ELSE ((h % 12) + 7) % 24
    BY <1>2, <2>1 DEF StoredHour
  <2>3. CASE h >= 12
    <3>1. h % 12 = h - 12
      BY <2>3
    <3>2. (h % 12) + 7 = h - 5 /\ (h - 5) % 24 = h - 5 /\ (h - 5) + 12 = h + 7
      BY <2>3, <3>1
    <3>3. ((((h % 12) + 7) % 24) + 12) % 24 = (h + 7) % 24
      BY <3>2
    <3> QED BY <2>2, <2>3, <3>3
  <2>4. CASE ~ (h >= 12)
    <3>1. h % 12 = h
      BY <2>4
    <3> QED BY <2>2, <2>4, <3>1
  <2> QED BY <2>3, <2>4
<1> QED BY <1>1, <1>2

-----------------------------------------------------------------------------
(* Steps *)

LEMMA StageRange ==
    ASSUME NEW u, NEW r, NEW k \in Nat, NEW i
    PROVE  StageOf(u, r, k, i) \in k .. k + 1
BY DEF StageOf

LEMMA HeldUpTo ==
    ASSUME NEW m, NEW a, NEW v, NEW i, NEW lo \in Nat, NEW hi \in Nat, NEW hi2 \in Nat,
           hi <= hi2, Held(m, a, v, i, lo, hi)
    PROVE  Held(m, a, v, i, lo, hi2)
<1>1. \A k \in lo .. hi : k \in lo .. hi2
  OBVIOUS
<1> QED BY <1>1 DEF Held

LEMMA HeldFrom ==
    ASSUME NEW m, NEW a, NEW v, NEW i, NEW lo \in Nat, NEW lo2 \in Nat, NEW hi \in Nat,
           lo2 <= lo, Held(m, a, v, i, lo, hi)
    PROVE  Held(m, a, v, i, lo2, hi)
<1>1. \A k \in lo .. hi : k \in lo2 .. hi
  OBVIOUS
<1> QED BY <1>1 DEF Held

LEMMA HeldSame ==
    ASSUME NEW m, NEW a, NEW v, NEW w, NEW i, NEW lo, NEW hi,
           v[Field[i]] = w[Field[i]], Held(m, a, v, i, lo, hi)
    PROVE  Held(m, a, w, i, lo, hi)
BY DEF Held

LEMMA HeldAt ==
    ASSUME NEW m, NEW a, NEW v, NEW i, NEW k \in Nat
    PROVE  Held(m, a, v, i, k, k) <=> v[Field[i]] = Registers(m, At(a, k))[Field[i]]
<1>1. k .. k = {k}
  OBVIOUS
<1> QED BY <1>1 DEF Held

\* A step of the chip, as the driver sees it.
ChipMoves(a) ==
    /\ \A i \in 1 .. 6 : Stage(i) \in Nat /\ Stage(i)' \in Nat /\ Stage(i) <= Stage(i)'
    /\ ticks <= ticks' /\ mode' = mode /\ seen \subseteq seen' /\ ticks' \in Nat
    /\ pc \notin {"idle", "show"} => now' \in seen'
    /\ ChipInv(a)'
    /\ <<pc, idx, raw, last, first, time, shown>>' = <<pc, idx, raw, last, first, time, shown>>

LEMMA StartMoves ==
    ASSUME NEW a \in Times, TypeInv, CallInv, ChipInv(a), UpdateStart
    PROVE  ChipMoves(a)
<1>1. ticks \in Nat /\ uip = FALSE /\ ticks < MaxTick /\ uip' = TRUE /\ rolled' = 0
      /\ ticks' = ticks /\ seen' = seen /\ now' = now /\ mode' = mode /\ regs' = regs
  BY DEF TypeInv, TypeOK, UpdateStart
<1>2. \A i \in 1 .. 6 : Stage(i) = ticks /\ Stage(i)' = ticks
  BY <1>1 DEF Stage, StageOf
<1>3. ChipInv(a)'
  <2>1. \A i \in 1 .. 6 : Held(mode, a, regs, i, ticks, ticks)
    BY <1>2 DEF ChipInv
  <2>2. now = At(a, ticks)
    BY DEF ChipInv
  <2> QED BY <1>1, <1>2, <2>1, <2>2 DEF ChipInv
<1> QED BY <1>1, <1>2, <1>3 DEF ChipMoves, CallInv, UpdateStart

LEMMA RegisterMoves ==
    ASSUME NEW a \in Times, TypeInv, CallInv, ChipInv(a), UpdateRegister
    PROVE  ChipMoves(a) /\ regs' \in [Fields -> Byte]
<1> DEFINE g == Field[rolled + 1]
           R == Registers(mode, At(a, ticks + 1))
<1>1. ticks \in Nat /\ uip = TRUE /\ uip' = uip /\ rolled \in 0 .. 5 /\ rolled' = rolled + 1
      /\ ticks' = ticks /\ seen' = seen /\ now' = now /\ mode' = mode
      /\ regs \in [Fields -> Byte]
  BY FieldFacts DEF TypeInv, TypeOK, UpdateRegister
<1>2. ticks \in 0 .. 58 /\ now = At(a, ticks)
  BY <1>1, TickAssumption DEF ChipInv
<1>3. SecondAfter(now) = At(a, ticks + 1) /\ ticks + 1 \in 0 .. 59
  BY <1>2, AtNext
<1>4. R \in [Fields -> Byte]
  BY <1>3, AtTime, RegistersOf
<1>5. regs' = [regs EXCEPT ![g] = R[g]]
  BY <1>3 DEF UpdateRegister
<1>6. rolled + 1 \in 1 .. 6 /\ g \in Fields
  BY <1>1, FieldIndex
<1>7. regs' \in [Fields -> Byte]
  BY <1>1, <1>4, <1>5, <1>6
<1>8. \A i \in 1 .. 6 : /\ Stage(i) = (IF i <= rolled THEN ticks + 1 ELSE ticks)
                        /\ Stage(i)' = (IF i <= rolled + 1 THEN ticks + 1 ELSE ticks)
  BY <1>1 DEF Stage, StageOf
<1>9. ASSUME NEW i \in 1 .. 6 PROVE Held(mode, a, regs', i, Stage(i)', Stage(i)')
  <2>1. Held(mode, a, regs, i, Stage(i), Stage(i))
    BY DEF ChipInv
  <2>2. CASE i = rolled + 1
    <3>1. Stage(i)' = ticks + 1 /\ ticks + 1 \in Nat
      BY <1>1, <1>8, <2>2
    <3>2. regs'[Field[i]] = R[Field[i]]
      BY <1>1, <1>5, <1>6, <2>2
    <3> QED BY <3>1, <3>2, HeldAt
  <2>3. CASE i # rolled + 1
    <3>1. Stage(i)' = Stage(i)
      BY <1>1, <1>8, <2>3
    <3>2. Field[i] # g /\ Field[i] \in Fields
      BY <1>6, <2>3, FieldIndex
    <3>3. regs'[Field[i]] = regs[Field[i]]
      BY <1>1, <1>5, <1>6, <3>2
    <3> QED BY <2>1, <3>1, <3>3, HeldSame
  <2> QED BY <2>2, <2>3
<1>10. ChipInv(a)'
  <2>1. \A i \in 1 .. 6 : Held(mode', a, regs', i, Stage(i)', Stage(i)')
    BY <1>1, <1>9
  <2>2. now' = At(a, ticks') /\ (uip' => ticks' < MaxTick)
    BY <1>1, <1>2 DEF ChipInv
  <2> QED BY <2>1, <2>2 DEF ChipInv
<1>11. \A i \in 1 .. 6 : Stage(i) \in Nat /\ Stage(i)' \in Nat /\ Stage(i) <= Stage(i)'
  BY <1>1, <1>8
<1> QED BY <1>1, <1>7, <1>10, <1>11 DEF ChipMoves, CallInv, UpdateRegister

LEMMA EndMoves ==
    ASSUME NEW a \in Times, TypeInv, CallInv, ChipInv(a), UpdateEnd
    PROVE  ChipMoves(a) /\ now' \in Times /\ ticks' \in 0 .. MaxTick
<1>1. ticks \in Nat /\ uip = TRUE /\ uip' = FALSE /\ rolled = 6 /\ rolled' = 0
      /\ ticks' = ticks + 1 /\ now' = SecondAfter(now) /\ mode' = mode /\ regs' = regs
      /\ seen' = IF pc \in {"idle", "show"} THEN seen ELSE seen \union {now'}
  BY FieldFacts DEF TypeInv, TypeOK, UpdateEnd
<1>2. ticks \in 0 .. 58 /\ now = At(a, ticks) /\ ticks < MaxTick /\ MaxTick \in 0 .. 59
  BY <1>1, TickAssumption DEF ChipInv
<1>3. now' = At(a, ticks + 1) /\ ticks + 1 \in 0 .. 59
  BY <1>1, <1>2, AtNext
<1>4. now' \in Times
  BY <1>3, AtTime
<1>5. \A i \in 1 .. 6 : Stage(i) = ticks + 1 /\ Stage(i)' = ticks + 1
  BY <1>1 DEF Stage, StageOf
<1>6. ChipInv(a)'
  <2>1. \A i \in 1 .. 6 : Held(mode, a, regs, i, ticks + 1, ticks + 1)
    BY <1>5 DEF ChipInv
  <2>2. \A i \in 1 .. 6 : Held(mode', a, regs', i, Stage(i)', Stage(i)')
    BY <1>1, <1>5, <2>1
  <2>3. now' = At(a, ticks') /\ (uip' => ticks' < MaxTick)
    BY <1>1, <1>3
  <2> QED BY <2>2, <2>3 DEF ChipInv
<1>7. ticks' \in 0 .. MaxTick /\ ticks <= ticks' /\ ticks' \in Nat
  BY <1>1, <1>2
<1>8. seen \subseteq seen' /\ (pc \notin {"idle", "show"} => now' \in seen')
  BY <1>1
<1>9. \A i \in 1 .. 6 : Stage(i) \in Nat /\ Stage(i)' \in Nat /\ Stage(i) <= Stage(i)'
  BY <1>1, <1>5
<1> QED BY <1>1, <1>4, <1>6, <1>7, <1>8, <1>9 DEF ChipMoves, UpdateEnd

\* The chip moves on under the driver's hands.
LEMMA ChipKeepsPass ==
    ASSUME NEW a \in Times, NEW c \in 0 .. 59, TypeInv, PassInv(a, c), ChipMoves(a)
    PROVE  PassInv(a, c)'
<1>1. /\ pc' = pc /\ idx' = idx /\ raw' = raw /\ last' = last /\ first' = first /\ mode' = mode
      /\ seen \subseteq seen'
  BY DEF ChipMoves
<1>2. idx \in 1 .. 6 /\ ticks \in Nat
  BY FieldFacts DEF TypeInv, TypeOK
<1>3. ASSUME NEW v, NEW lo \in Nat, NEW i \in 1 .. 6, Held(mode, a, v, i, lo, Stage(i))
      PROVE  Held(mode, a, v, i, lo, Stage(i)')
  <2>1. Stage(i) \in Nat /\ Stage(i)' \in Nat /\ Stage(i) <= Stage(i)'
    BY DEF ChipMoves
  <2> QED BY <1>3, <2>1, HeldUpTo
<1>4. pc' = "wait" /\ ~first' => \A i \in 1 .. 6 : Held(mode', a, last', i, 0, Stage(i)')
  <2>1. 0 \in Nat
    OBVIOUS
  <2> QED BY <1>1, <1>3, <2>1 DEF PassInv
<1>5. pc' \in {"read", "compare"} => At(a, c) \in seen' /\ c <= ticks'
  <2>1. ticks <= ticks' /\ ticks' \in Nat
    BY DEF ChipMoves
  <2> QED BY <1>1, <1>2, <2>1 DEF PassInv
<1>6. pc' \in {"read", "compare"} /\ ~first' => \A i \in 1 .. 6 : Held(mode', a, last', i, 0, c)
  BY <1>1 DEF PassInv
<1>7. pc' = "read" => \A i \in 1 .. idx' - 1 : Held(mode', a, raw', i, c, Stage(i)')
  <2>1. SUFFICES ASSUME pc = "read", NEW i \in 1 .. idx - 1
                 PROVE  Held(mode, a, raw, i, c, Stage(i)')
    BY <1>1
  <2>2. i \in 1 .. 6 /\ c \in Nat
    BY <1>2
  <2>3. Held(mode, a, raw, i, c, Stage(i))
    BY <2>1 DEF PassInv
  <2> QED BY <1>3, <2>2, <2>3
<1>8. pc' = "compare" => \A i \in 1 .. 6 : Held(mode', a, raw', i, c, Stage(i)')
  <2>2. c \in Nat
    OBVIOUS
  <2> QED BY <1>1, <1>3, <2>2 DEF PassInv
<1> QED BY <1>4, <1>5, <1>6, <1>7, <1>8 DEF PassInv

LEMMA ChipKeepsCall ==
    ASSUME NEW a \in Times, CallInv, ChipMoves(a), seen' \subseteq Times,
           pc \in {"idle", "show"} => seen' = seen
    PROVE  CallInv'
<1>1. /\ pc' = pc /\ raw' = raw /\ time' = time /\ shown' = shown /\ mode' = mode
      /\ seen \subseteq seen' /\ (pc \notin {"idle", "show"} => now' \in seen')
  BY DEF ChipMoves
<1>2. Snapshot'
  BY <1>1 DEF CallInv, Snapshot
<1>3. (pc = "show" => \E t \in seen : time = Converted(mode, Registers(mode, t)))'
  BY <1>1 DEF CallInv
<1>4. (Returned => \E t \in seen : shown = Face(Converted(mode, Registers(mode, t))))'
  <2>1. Returned' => Returned /\ seen' = seen
    BY <1>1 DEF Returned
  <2> QED BY <1>1, <2>1 DEF CallInv
<1> QED BY <1>1, <1>2, <1>3, <1>4 DEF CallInv

Body(a, c) == TypeInv /\ CallInv /\ ChipInv(a) /\ PassInv(a, c)

LEMMA ChipStep ==
    ASSUME NEW a \in Times, NEW c \in 0 .. 59, Body(a, c), Chip
    PROVE  Body(a, c)'
<1> USE DEF Body
<1>1. TypeOK /\ TypeInv /\ CallInv /\ ChipInv(a) /\ PassInv(a, c) /\ MaxTick \in 0 .. 59
  BY TickAssumption DEF TypeInv
<1>2. CASE UpdateStart
  <2>1. ChipMoves(a)
    BY <1>1, <1>2, StartMoves
  <2>2. TypeInv'
    BY <1>1, <1>2, FieldFacts DEF UpdateStart, TypeInv, TypeOK
  <2>3. seen' = seen /\ seen' \subseteq Times
    BY <1>1, <1>2 DEF UpdateStart, CallInv
  <2> QED BY <1>1, <2>1, <2>2, <2>3, ChipKeepsPass, ChipKeepsCall DEF ChipMoves
<1>3. CASE UpdateRegister
  <2>1. ChipMoves(a) /\ regs' \in [Fields -> Byte]
    BY <1>1, <1>3, RegisterMoves
  <2>2. TypeInv'
    BY <1>1, <1>3, <2>1, FieldFacts DEF UpdateRegister, TypeInv, TypeOK
  <2>3. seen' = seen /\ seen' \subseteq Times
    BY <1>1, <1>3 DEF UpdateRegister, CallInv
  <2> QED BY <1>1, <2>1, <2>2, <2>3, ChipKeepsPass, ChipKeepsCall DEF ChipMoves
<1>4. CASE UpdateEnd
  <2>1. ChipMoves(a) /\ now' \in Times /\ ticks' \in 0 .. MaxTick
    BY <1>1, <1>4, EndMoves
  <2>2. TypeInv'
    <3>1. /\ uip' = FALSE /\ rolled' = 0 /\ regs' = regs /\ mode' = mode /\ pc' = pc /\ idx' = idx
          /\ raw' = raw /\ last' = last /\ first' = first /\ time' = time
      BY <1>4 DEF UpdateEnd
    <3>2. uip' \in BOOLEAN
      BY <3>1
    <3>3. rolled' \in 0 .. Len(Field)
      BY <3>1, FieldFacts
    <3> QED BY <1>1, <2>1, <3>1, <3>2, <3>3 DEF TypeInv, TypeOK
  <2>3. seen' \subseteq Times /\ (pc \in {"idle", "show"} => seen' = seen)
    BY <1>1, <1>4, <2>1 DEF UpdateEnd, CallInv
  <2> QED BY <1>1, <2>1, <2>2, <2>3, ChipKeepsPass, ChipKeepsCall DEF ChipMoves
<1> QED BY <1>2, <1>3, <1>4 DEF Chip

\* What a step of the driver leaves alone.
LEMMA ChipStands ==
    ASSUME NEW a, ChipInv(a), UNCHANGED <<now, ticks, uip, rolled, regs, mode>>
    PROVE  /\ ChipInv(a)'
           /\ \A i \in 1 .. 6 : Stage(i)' = Stage(i)
BY DEF ChipInv, Stage

LEMMA BeginStep ==
    ASSUME NEW a \in Times, NEW c \in 0 .. 59, Body(a, c), Begin
    PROVE  Body(a, c)'
<1>1. TypeOK /\ TypeInv /\ CallInv /\ ChipInv(a) /\ ticks \in 0 .. 59
  BY TickAssumption DEF Body, TypeInv, TypeOK
<1>2. ChipInv(a)'
  BY <1>1, ChipStands DEF Begin
<1>3. now \in Times
  BY <1>1, AtTime DEF ChipInv
<1>4. TypeInv'
  BY <1>1 DEF Begin, TypeInv, TypeOK, NoTime
<1>5. CallInv'
  BY <1>1, <1>3 DEF Begin, CallInv, Snapshot, Returned
<1>6. PassInv(a, c)'
  BY <1>1 DEF Begin, PassInv
<1> QED BY <1>2, <1>4, <1>5, <1>6 DEF Body

\* The flag is down: no register is ahead of the chip, and the tick of the
\* pass is that of this moment.
LEMMA FlagDownStep ==
    ASSUME NEW a \in Times, NEW c \in 0 .. 59, Body(a, c), FlagDown
    PROVE  ticks \in 0 .. 59 /\ Body(a, ticks)'
<1>1. TypeOK /\ TypeInv /\ CallInv /\ ChipInv(a) /\ PassInv(a, c) /\ ticks \in 0 .. 59
  BY TickAssumption DEF Body, TypeInv, TypeOK
<1>2. ChipInv(a)' /\ \A i \in 1 .. 6 : Stage(i)' = Stage(i)
  BY <1>1, ChipStands DEF FlagDown
<1>3. \A i \in 1 .. 6 : Stage(i) = ticks
  BY DEF FlagDown, Stage, StageOf
<1>4. TypeInv'
  BY <1>1, FieldFacts DEF FlagDown, TypeInv, TypeOK
<1>5. CallInv'
  BY <1>1 DEF FlagDown, CallInv, Snapshot, Returned
<1>6. PassInv(a, ticks)'
  <2>1. /\ pc = "wait" /\ pc' = "read" /\ idx' = 1 /\ first' = first /\ last' = last /\ mode' = mode
        /\ seen' = seen /\ ticks' = ticks
    BY DEF FlagDown
  <2>2. At(a, ticks) \in seen
    BY <1>1, <2>1 DEF CallInv, ChipInv
  <2>3. ~first => \A i \in 1 .. 6 : Held(mode, a, last, i, 0, ticks)
    BY <1>1, <1>3, <2>1 DEF PassInv
  <2>4. 1 .. idx' - 1 = {}
    BY <2>1
  <2> QED BY <1>1, <2>1, <2>2, <2>3, <2>4 DEF PassInv
<1> QED BY <1>1, <1>2, <1>4, <1>5, <1>6 DEF Body

LEMMA ReadRegisterStep ==
    ASSUME NEW a \in Times, NEW c \in 0 .. 59, Body(a, c), ReadRegister
    PROVE  Body(a, c)'
<1> DEFINE g == Field[idx]
<1>1. TypeOK /\ TypeInv /\ CallInv /\ ChipInv(a) /\ PassInv(a, c) /\ ticks \in 0 .. 59
  BY TickAssumption DEF Body, TypeInv, TypeOK
<1>2. ChipInv(a)' /\ \A i \in 1 .. 6 : Stage(i)' = Stage(i)
  BY <1>1, ChipStands DEF ReadRegister
<1>3. /\ idx \in 1 .. 6 /\ raw \in [Fields -> Byte] /\ regs \in [Fields -> Byte]
      /\ pc = "read" /\ raw' = [raw EXCEPT ![g] = regs[g]]
      /\ first' = first /\ last' = last /\ mode' = mode /\ seen' = seen /\ ticks' = ticks
  BY <1>1, FieldFacts DEF TypeOK, ReadRegister
<1>4. g \in Fields
  BY <1>3, FieldIndex
<1>5. raw' \in [Fields -> Byte]
  BY <1>3, <1>4
<1>6. \/ idx \in 1 .. 5 /\ idx' = idx + 1 /\ pc' = "read"
      \/ idx = 6 /\ idx' = 1 /\ pc' = "compare"
  BY <1>3, FieldFacts DEF ReadRegister
<1>7. TypeInv'
  <2>1. idx' \in 1 .. Len(Field)
    BY <1>3, <1>6, FieldFacts
  <2> QED BY <1>1, <1>5, <1>6, <2>1 DEF ReadRegister, TypeInv, TypeOK
<1>8. CallInv'
  BY <1>1, <1>6 DEF ReadRegister, CallInv, Snapshot, Returned
<1>9. \A i \in 1 .. idx : Held(mode, a, raw', i, c, Stage(i))
  <2>1. SUFFICES ASSUME NEW i \in 1 .. idx PROVE Held(mode, a, raw', i, c, Stage(i))
    BY Zenon
  <2>2. i \in 1 .. 6
    BY <1>3
  <2>3. CASE i = idx
    <3>1. Held(mode, a, regs, i, Stage(i), Stage(i))
      BY <1>1, <2>2 DEF ChipInv
    <3>2. c <= ticks /\ c \in Nat
      BY <1>1, <1>3 DEF PassInv
    <3>3. Stage(i) \in ticks .. ticks + 1
      BY <1>1, StageRange DEF Stage
    <3>4. Stage(i) \in Nat /\ c <= Stage(i)
      BY <1>1, <3>2, <3>3
    <3>5. Held(mode, a, regs, i, c, Stage(i))
      BY <3>1, <3>2, <3>4, HeldFrom
    <3>6. raw'[Field[i]] = regs[Field[i]]
      BY <1>3, <1>4, <2>3
    <3> QED BY <3>5, <3>6, HeldSame
  <2>4. CASE i # idx
    <3>1. i \in 1 .. idx - 1
      BY <1>3, <2>4
    <3>2. Held(mode, a, raw, i, c, Stage(i))
      BY <1>1, <1>3, <3>1 DEF PassInv
    <3>3. Field[i] # g /\ Field[i] \in Fields
      BY <1>3, <2>2, <2>4, FieldIndex
    <3>4. raw'[Field[i]] = raw[Field[i]]
      BY <1>3, <1>4, <3>3
    <3> QED BY <3>2, <3>4, HeldSame
  <2> QED BY <2>3, <2>4
<1>10. PassInv(a, c)'
  <2>1. At(a, c) \in seen /\ c <= ticks
    BY <1>1, <1>3 DEF PassInv
  <2>2. ~first => \A i \in 1 .. 6 : Held(mode, a, last, i, 0, c)
    BY <1>1, <1>3 DEF PassInv
  <2>3. pc' = "read" => \A i \in 1 .. idx' - 1 : Held(mode, a, raw', i, c, Stage(i)')
    <3>1. SUFFICES ASSUME pc' = "read", NEW i \in 1 .. idx' - 1
                   PROVE  Held(mode, a, raw', i, c, Stage(i)')
      BY Zenon
    <3>2. i \in 1 .. idx /\ i \in 1 .. 6
      BY <1>3, <1>6, <3>1
    <3> QED BY <1>2, <1>9, <3>2
  <2>4. pc' = "compare" => \A i \in 1 .. 6 : Held(mode, a, raw', i, c, Stage(i)')
    BY <1>2, <1>6, <1>9
  <2> QED BY <1>3, <1>6, <2>1, <2>2, <2>3, <2>4 DEF PassInv
<1> QED BY <1>2, <1>7, <1>8, <1>10 DEF Body

LEMMA AgainStep ==
    ASSUME NEW a \in Times, NEW c \in 0 .. 59, Body(a, c), Again
    PROVE  Body(a, c)'
<1>1. TypeOK /\ TypeInv /\ CallInv /\ ChipInv(a) /\ PassInv(a, c) /\ ticks \in 0 .. 59
  BY TickAssumption DEF Body, TypeInv, TypeOK
<1>2. ChipInv(a)' /\ \A i \in 1 .. 6 : Stage(i)' = Stage(i)
  BY <1>1, ChipStands DEF Again
<1>3. TypeInv'
  BY <1>1 DEF Again, TypeInv, TypeOK
<1>4. CallInv'
  BY <1>1 DEF Again, CallInv, Snapshot, Returned
<1>5. \A i \in 1 .. 6 : Held(mode, a, raw, i, 0, Stage(i))
  <2>1. SUFFICES ASSUME NEW i \in 1 .. 6 PROVE Held(mode, a, raw, i, 0, Stage(i))
    BY Zenon
  <2>2. Held(mode, a, raw, i, c, Stage(i))
    BY <1>1 DEF Again, PassInv
  <2>3. Stage(i) \in ticks .. ticks + 1
    BY <1>1, StageRange DEF Stage
  <2>4. Stage(i) \in Nat /\ c \in Nat /\ 0 \in Nat /\ 0 <= c
    BY <1>1, <2>3
  <2> QED BY <2>2, <2>4, HeldFrom
<1>6. PassInv(a, c)'
  BY <1>2, <1>5 DEF Again, PassInv
<1> QED BY <1>2, <1>3, <1>4, <1>6 DEF Body

\* The pass before and the pass after the flag are equal: one time.
LEMMA AgreeStep ==
    ASSUME NEW a \in Times, NEW c \in 0 .. 59, Body(a, c), Agree
    PROVE  Body(a, c)'
<1>1. TypeOK /\ TypeInv /\ CallInv /\ ChipInv(a) /\ PassInv(a, c) /\ ticks \in 0 .. 59
      /\ ticks <= MaxTick /\ MaxTick \in 0 .. 59
  BY TickAssumption DEF Body, TypeInv, TypeOK
<1>2. ChipInv(a)'
  BY <1>1, ChipStands DEF Agree
<1>3. TypeInv'
  BY <1>1 DEF Agree, TypeInv, TypeOK
<1> DEFINE hi == [i \in 1 .. 6 |-> Stage(i)]
<1>4. hi \in [1 .. 6 -> 0 .. 59]
  <2>1. \A i \in 1 .. 6 : Stage(i) \in 0 .. 59
    <3>1. uip => ticks < 59
      BY <1>1 DEF ChipInv
    <3> QED BY <1>1, <3>1 DEF Stage, StageOf
  <2> QED BY <2>1
<1>5. \A i \in 1 .. 6 : Held(mode, a, raw, i, 0, c)
  BY <1>1 DEF Agree, PassInv
<1>6. \A i \in 1 .. 6 : Held(mode, a, raw, i, c, hi[i])
  BY <1>1 DEF Agree, PassInv
<1>7. raw \in [Fields -> Byte]
  BY <1>1 DEF TypeOK
<1> HIDE DEF hi
<1>8. raw = Registers(mode, At(a, c))
  BY <1>4, <1>5, <1>6, <1>7, PassesAgree
<1>9. At(a, c) \in seen
  BY <1>1 DEF Agree, PassInv
<1>10. CallInv'
  BY <1>1, <1>8, <1>9 DEF Agree, CallInv, Snapshot, Returned
<1>11. PassInv(a, c)'
  BY DEF Agree, PassInv
<1> QED BY <1>2, <1>3, <1>10, <1>11 DEF Body

LEMMA ConvertStep ==
    ASSUME NEW a \in Times, NEW c \in 0 .. 59, Body(a, c), Convert
    PROVE  Body(a, c)'
<1>1. TypeOK /\ TypeInv /\ CallInv /\ ChipInv(a) /\ mode \in Mode
  BY DEF Body, TypeInv
<1>2. ChipInv(a)'
  BY <1>1, ChipStands DEF Convert
<1>3. PICK t \in seen : raw = Registers(mode, t)
  BY <1>1 DEF Convert, CallInv, Snapshot
<1>4. t \in Times
  BY <1>1 DEF CallInv
<1>5. time' = Converted(mode, Registers(mode, t))
  BY <1>3 DEF Convert
<1>6. time'.hour \in 0 .. 23
  BY <1>1, <1>4, <1>5, StoredHourIs
<1>7. TypeInv'
  BY <1>1, <1>6 DEF Convert, TypeInv, TypeOK
<1>8. CallInv'
  BY <1>1, <1>5 DEF Convert, CallInv, Snapshot, Returned
<1>9. PassInv(a, c)'
  BY DEF Convert, PassInv
<1> QED BY <1>2, <1>7, <1>8, <1>9 DEF Body

LEMMA ShowStep ==
    ASSUME NEW a \in Times, NEW c \in 0 .. 59, Body(a, c), Show
    PROVE  Body(a, c)'
<1>1. TypeOK /\ TypeInv /\ CallInv /\ ChipInv(a)
  BY DEF Body, TypeInv
<1>2. ChipInv(a)'
  BY <1>1, ChipStands DEF Show
<1>3. TypeInv'
  BY <1>1 DEF Show, TypeInv, TypeOK
<1>4. CallInv'
  BY <1>1 DEF Show, CallInv, Snapshot, Returned
<1>5. PassInv(a, c)'
  BY DEF Show, PassInv
<1> QED BY <1>2, <1>3, <1>4, <1>5 DEF Body

LEMMA InitClock == Init => ClockInv
<1> SUFFICES ASSUME Init PROVE ClockInv
  OBVIOUS
<1>1. /\ now \in Starts /\ now \in Times /\ mode \in Mode /\ regs = Registers(mode, now) /\ ticks = 0
      /\ uip = FALSE /\ rolled = 0 /\ pc = "idle" /\ seen = {} /\ idx = 1 /\ first = TRUE
  BY StartsAssumption DEF Init, Mode
<1>2. regs \in [Fields -> Byte]
  BY <1>1, RegistersOf
<1>3. NoTime \in [Fields -> Byte]
  <2>1. \A f \in Fields : NoTime[f] = 0
    BY FieldFacts DEF NoTime
  <2>2. DOMAIN NoTime = Fields /\ NoTime = [f \in DOMAIN NoTime |-> NoTime[f]]
    BY FieldFacts DEF NoTime
  <2>3. 0 \in Byte
    BY DEF Byte
  <2> HIDE DEF NoTime
  <2> QED BY <2>1, <2>2, <2>3
<1>4. TypeInv
  <2>1. uip \in BOOLEAN /\ first \in BOOLEAN
    BY <1>1
  <2>2. ticks \in 0 .. MaxTick /\ rolled \in 0 .. Len(Field) /\ idx \in 1 .. Len(Field)
    BY <1>1, FieldFacts, TickAssumption
  <2>3. time.hour \in 0 .. 23
    BY DEF Init, NoTime
  <2>4. raw \in [Fields -> Byte] /\ last \in [Fields -> Byte]
    BY <1>3 DEF Init
  <2>5. pc \in {"idle", "wait", "read", "compare", "convert", "show"}
    BY <1>1
  <2> QED BY <1>1, <1>2, <2>1, <2>2, <2>3, <2>4, <2>5 DEF TypeInv, TypeOK
<1>5. CallInv
  BY <1>1 DEF CallInv, Snapshot, Returned
<1>6. ChipInv(now)
  <2>1. At(now, 0) = now
    BY <1>1, AtZero
  <2>2. \A i \in 1 .. 6 : Stage(i) = 0
    BY <1>1 DEF Stage, StageOf
  <2>3. \A i \in 1 .. 6 : Held(mode, now, regs, i, 0, 0)
    <3>1. 0 \in Nat
      OBVIOUS
    <3> QED BY <1>1, <2>1, <3>1, HeldAt
  <2> QED BY <1>1, <2>1, <2>2, <2>3 DEF ChipInv
<1>7. PassInv(now, 0)
  BY <1>1 DEF PassInv
<1>8. 0 \in 0 .. 59
  OBVIOUS
<1> QED BY <1>1, <1>4, <1>5, <1>6, <1>7, <1>8 DEF ClockInv

LEMMA NextClock == ClockInv /\ [Next]_vars => ClockInv'
<1> SUFFICES ASSUME ClockInv, [Next]_vars PROVE ClockInv'
  OBVIOUS
<1>1. PICK a \in Starts, c \in 0 .. 59 : ChipInv(a) /\ PassInv(a, c)
  BY DEF ClockInv
<1>2. a \in Times /\ Body(a, c)
  BY <1>1, StartsAssumption DEF ClockInv, Body
<1>3. SUFFICES \E d \in 0 .. 59 : Body(a, d)'
  BY <1>1 DEF Body, ClockInv
<1>4. CASE Chip
  BY <1>2, <1>4, ChipStep
<1>5. CASE Begin
  BY <1>2, <1>5, BeginStep
<1>6. CASE FlagDown
  <2>1. ticks \in 0 .. 59 /\ Body(a, ticks)' /\ ticks' = ticks
    BY <1>2, <1>6, FlagDownStep DEF FlagDown
  <2>2. PICK d \in 0 .. 59 : d = ticks'
    BY <2>1
  <2>3. Body(a, d)'
    BY <2>1, <2>2 DEF Body, TypeInv, CallInv, ChipInv, PassInv
  <2> QED BY <2>3
<1>7. CASE ReadRegister
  BY <1>2, <1>7, ReadRegisterStep
<1>8. CASE Again
  BY <1>2, <1>8, AgainStep
<1>9. CASE Agree
  BY <1>2, <1>9, AgreeStep
<1>10. CASE Convert
  BY <1>2, <1>10, ConvertStep
<1>11. CASE Show
  BY <1>2, <1>11, ShowStep
<1>12. CASE UNCHANGED vars
  <2>1. TypeInv' /\ CallInv'
    BY <1>2, <1>12, Zenon DEF vars, Body, TypeInv, TypeOK, CallInv, Snapshot, Returned
  <2>2. ChipInv(a)' /\ \A i \in 1 .. 6 : Stage(i)' = Stage(i)
    BY <1>2, <1>12, ChipStands DEF Body, vars
  <2>3. \A i : Stage(i)' = Stage(i)
    BY <1>12 DEF vars, Stage
  <2>4. PassInv(a, c)'
    BY <1>2, <1>12, <2>3 DEF vars, Body, PassInv
  <2> QED BY <2>1, <2>2, <2>4 DEF Body
<1> QED BY <1>4, <1>5, <1>6, <1>7, <1>8, <1>9, <1>10, <1>11, <1>12 DEF Next, Driver

-----------------------------------------------------------------------------
(* Theorems *)

\* The inductive invariant holds for every time at which the chip may be found
\* and every number of updates that fit between two reads of the seconds.
THEOREM ClockInvariance == Spec => []ClockInv
BY InitClock, NextClock, PTL DEF Spec

\* The variables have their types: registers and locals of read_rtc are bytes,
\* and the hour it stores is one of the 24.
THEOREM ClockTypeCorrect == Spec => []TypeOK
<1>1. ClockInv => TypeOK
  BY DEF ClockInv, TypeInv
<1> QED BY <1>1, ClockInvariance, PTL

\* read_rtc converts the registers of one moment of the call, wherever the
\* updates of the chip fall among its reads.
THEOREM NoTornRead == Spec => []Snapshot
<1>1. ClockInv => Snapshot
  BY DEF ClockInv, CallInv
<1> QED BY <1>1, ClockInvariance, PTL

-----------------------------------------------------------------------------
(* The face of the clock *)

LEMMA TwoDigits ==
    ASSUME NEW n \in 0 .. 99
    PROVE  n \div 10 \in 0 .. 9 /\ n % 10 \in 0 .. 9 /\ 10 * (n \div 10) + (n % 10) = n
OBVIOUS

LEMMA FourDigits ==
    ASSUME NEW y \in 2000 .. 2199
    PROVE  /\ y \div 1000 \in 0 .. 9 /\ (y % 1000) \div 100 \in 0 .. 9
           /\ (y % 100) \div 10 \in 0 .. 9 /\ y % 10 \in 0 .. 9
<1>1. y \div 1000 = 2 /\ y % 1000 \in 0 .. 199
  OBVIOUS
<1>2. (y % 1000) \div 100 \in 0 .. 9
  BY <1>1
<1>3. y % 100 \in 0 .. 99
  OBVIOUS
<1>4. (y % 100) \div 10 \in 0 .. 9
  BY <1>3
<1>5. y % 10 \in 0 .. 9
  OBVIOUS
<1> QED BY <1>1, <1>2, <1>4, <1>5

LEMMA WibFace ==
    ASSUME NEW t \in Times
    PROVE  /\ Wib(t).hour = (t.hour + 7) % 24
           /\ Wib(t).minute = t.minute /\ Wib(t).second = t.second
<1> DEFINE h == (t.hour + 7) % 24
           face == [t EXCEPT !.hour = h]
<1>1. /\ t \in [second : 0 .. 59, minute : 0 .. 59, hour : 0 .. 23, day : 1 .. 31,
                month : 1 .. 12, year : Nat]
      /\ t.day <= DaysIn(t.month, t.year)
  BY TimesFields
<1>2. h \in 0 .. 23
  BY <1>1
<1>3. Wib(t) = IF t.hour + 7 >= 24 THEN DayAfter(face) ELSE face
  BY DEF Wib
<1> HIDE DEF h
<1>4. /\ face \in [second : 0 .. 59, minute : 0 .. 59, hour : 0 .. 23, day : 1 .. 31,
                month : 1 .. 12, year : Nat]
      /\ face.hour = h /\ face.minute = t.minute /\ face.second = t.second
      /\ face.day = t.day /\ face.month = t.month /\ face.year = t.year
  BY <1>1, <1>2
<1> HIDE DEF face
<1>5. face \in Times
  BY <1>1, <1>4, TimesFields
<1>6. DayAfter(face).hour = h /\ DayAfter(face).minute = t.minute /\ DayAfter(face).second = t.second
  BY <1>4, <1>5, DayAfterTime
<1>7. Wib(t).hour = h /\ Wib(t).minute = t.minute /\ Wib(t).second = t.second
  BY <1>3, <1>4, <1>6
<1> QED BY <1>7 DEF h

\* The fields that read_rtc stores for a chip in binary-coded decimal.
LEMMA StoredFields ==
    ASSUME NEW m \in Mode, m.bcd, NEW t \in Times, NEW r, r = Converted(m, Registers(m, t))
    PROVE  /\ r.second = t.second /\ r.minute = t.minute /\ r.month = t.month
           /\ r.hour = StoredHour(m, t.hour) /\ r.hour \in 0 .. 23
           /\ r.day \in 0 .. 99 /\ r.year \in 2000 .. 2199
<1> DEFINE R == Registers(m, t)
           hour == HourDecoded(R.hour)
<1>1. t \in [second : 0 .. 59, minute : 0 .. 59, hour : 0 .. 23, day : 1 .. 31,
             month : 1 .. 12, year : Nat]
  BY TimesFields
<1>2. /\ R.second = Digits(m, t.second) /\ R.minute = Digits(m, t.minute)
      /\ R.day = Digits(m, t.day) /\ R.month = Digits(m, t.month)
      /\ R.year = Digits(m, t.year % 100)
  BY RegistersOf
<1>3. /\ r.second = FromBcd(R.second) /\ r.minute = FromBcd(R.minute)
      /\ r.month = FromBcd(R.month) /\ r.year = FullYear(FromBcd(R.year))
      /\ r.day = FromBcd(R.day) + (IF hour % 24 # 0 THEN 1 ELSE 0)
  BY Zenon DEF Converted
<1>4. \A n \in 0 .. 99 : FromBcd(Digits(m, n)) = n
  BY FromBcdDigits
<1>5. t.second \in 0 .. 99 /\ t.minute \in 0 .. 99 /\ t.day \in 0 .. 99 /\ t.month \in 0 .. 99
      /\ t.year % 100 \in 0 .. 99
  BY <1>1
<1>6. /\ FromBcd(R.second) = t.second /\ FromBcd(R.minute) = t.minute
      /\ FromBcd(R.month) = t.month /\ FromBcd(R.day) = t.day
      /\ FromBcd(R.year) = t.year % 100
  BY <1>2, <1>4, <1>5
<1> HIDE DEF R, hour
<1>7. r.day \in 0 .. 99
  BY <1>1, <1>3, <1>6
<1>8. \A y \in 0 .. 99 : FullYear(y) \in 2000 .. 2199
  <2>1. CURRENT_YEAR \div 100 = 20 /\ CURRENT_YEAR = 2023
    BY DEF CURRENT_YEAR
  <2> HIDE DEF CURRENT_YEAR
  <2> QED BY <2>1 DEF FullYear
<1>9. r.year \in 2000 .. 2199
  BY <1>3, <1>5, <1>6, <1>8
<1>10. r.hour = StoredHour(m, t.hour) /\ StoredHour(m, t.hour) \in 0 .. 23
  BY StoredHourIs
<1> QED BY <1>3, <1>6, <1>7, <1>9, <1>10

LEMMA FaceDigits ==
    ASSUME NEW r, r.second \in 0 .. 99, r.minute \in 0 .. 99, r.hour \in 0 .. 99,
           r.day \in 0 .. 99, r.month \in 0 .. 99, r.year \in 2000 .. 2199,
           NEW s, s = Face(r)
    PROVE  /\ \A i \in 1 .. 14 : s[i] \in 0 .. 9
           /\ 10 * s[9] + s[10] = r.hour
           /\ 10 * s[11] + s[12] = r.minute
           /\ 10 * s[13] + s[14] = r.second
<1>1. /\ s[1] = r.year \div 1000 /\ s[2] = (r.year % 1000) \div 100
      /\ s[3] = (r.year % 100) \div 10 /\ s[4] = r.year % 10
      /\ s[5] = r.month \div 10 /\ s[6] = r.month % 10
      /\ s[7] = r.day \div 10 /\ s[8] = r.day % 10
      /\ s[9] = r.hour \div 10 /\ s[10] = r.hour % 10
      /\ s[11] = r.minute \div 10 /\ s[12] = r.minute % 10
      /\ s[13] = r.second \div 10 /\ s[14] = r.second % 10
  BY DEF Face
<1>2. s[1] \in 0 .. 9 /\ s[2] \in 0 .. 9 /\ s[3] \in 0 .. 9 /\ s[4] \in 0 .. 9
  BY <1>1, FourDigits
<1>3. s[5] \in 0 .. 9 /\ s[6] \in 0 .. 9 /\ s[7] \in 0 .. 9 /\ s[8] \in 0 .. 9
  BY <1>1, TwoDigits
<1>4. s[9] \in 0 .. 9 /\ s[10] \in 0 .. 9 /\ 10 * s[9] + s[10] = r.hour
  BY <1>1, TwoDigits
<1>5. s[11] \in 0 .. 9 /\ s[12] \in 0 .. 9 /\ 10 * s[11] + s[12] = r.minute
  BY <1>1, TwoDigits
<1>6. s[13] \in 0 .. 9 /\ s[14] \in 0 .. 9 /\ 10 * s[13] + s[14] = r.second
  BY <1>1, TwoDigits
<1>7. \A i \in 1 .. 14 : \/ i = 1 \/ i = 2 \/ i = 3 \/ i = 4 \/ i = 5 \/ i = 6 \/ i = 7
                         \/ i = 8 \/ i = 9 \/ i = 10 \/ i = 11 \/ i = 12 \/ i = 13 \/ i = 14
  OBVIOUS
<1>8. \A i \in 1 .. 14 : s[i] \in 0 .. 9
  BY <1>2, <1>3, <1>4, <1>5, <1>6, <1>7
<1> QED BY <1>4, <1>5, <1>6, <1>8

LEMMA FaceRight == ClockInv => ClockFaceInWib
<1> SUFFICES ASSUME ClockInv, Returned, mode.bcd, mode.h24 \/ \A t \in seen : t.hour % 12 # 0
             PROVE  /\ \A i \in 1 .. 14 : shown[i] \in 0 .. 9
                    /\ \E t \in seen :
                         /\ 10 * shown[9] + shown[10] = Wib(t).hour
                         /\ 10 * shown[11] + shown[12] = Wib(t).minute
                         /\ 10 * shown[13] + shown[14] = Wib(t).second
  BY DEF ClockFaceInWib
<1>1. mode \in Mode
  BY DEF ClockInv, TypeInv
<1>2. PICK t \in seen : shown = Face(Converted(mode, Registers(mode, t)))
  BY DEF ClockInv, CallInv
<1>3. t \in Times
  BY DEF ClockInv, CallInv
<1>4. PICK r : r = Converted(mode, Registers(mode, t))
  OBVIOUS
<1>5. /\ r.second = t.second /\ r.minute = t.minute /\ r.month = t.month
      /\ r.hour = StoredHour(mode, t.hour) /\ r.hour \in 0 .. 23
      /\ r.day \in 0 .. 99 /\ r.year \in 2000 .. 2199
  BY <1>1, <1>3, <1>4, StoredFields
<1>6. t.second \in 0 .. 59 /\ t.minute \in 0 .. 59 /\ t.month \in 1 .. 12 /\ t.hour \in 0 .. 23
  BY <1>3, TimesFields
<1>7. shown = Face(r)
  BY <1>2, <1>4
<1>8. r.second \in 0 .. 99 /\ r.minute \in 0 .. 99 /\ r.hour \in 0 .. 99 /\ r.month \in 0 .. 99
  BY <1>5, <1>6
<1>9. /\ \A i \in 1 .. 14 : shown[i] \in 0 .. 9
      /\ 10 * shown[9] + shown[10] = r.hour
      /\ 10 * shown[11] + shown[12] = r.minute
      /\ 10 * shown[13] + shown[14] = r.second
  BY <1>5, <1>7, <1>8, FaceDigits
<1>10. r.hour = (t.hour + 7) % 24
  <2>1. mode.h24 \/ t.hour % 12 # 0
    OBVIOUS
  <2> QED BY <1>5, <1>6, <2>1, StoredHourWib
<1>11. Wib(t).hour = (t.hour + 7) % 24 /\ Wib(t).minute = t.minute /\ Wib(t).second = t.second
  BY <1>3, WibFace
<1> QED BY <1>5, <1>9, <1>10, <1>11

\* With registers in binary-coded decimal the clock shows western Indonesian
\* time at a moment of the call, in the 24-hour mode and, but for the hours that
\* begin with 12, in the 12-hour mode: the masks and shifts of read_rtc and the
\* digits of the clock program undo what the chip has encoded.
THEOREM ClockIsRight == Spec => []ClockFaceInWib
BY FaceRight, ClockInvariance, PTL

=============================================================================

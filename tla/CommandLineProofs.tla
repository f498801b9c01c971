-------------------------- MODULE CommandLineProofs --------------------------
(***************************************************************************)
(* Proofs about shells under interrupts.  First the way into the kernel and  *)
(* out of it (Interrupt.tla): the words a stub leaves on the stack, those    *)
(* the timer keeps in a PCB, and the registers they turn into again.  Then   *)
(* what runs there (CommandLine.tla): the machine under every shell, the     *)
(* keys on their way to it, the line it keeps of them, and the words it      *)
(* makes of the line.                                                       *)
(***************************************************************************)
EXTENDS CommandLine, SequenceTheorems, WellFoundedInduction, FiniteSetTheorems, TLAPS

-----------------------------------------------------------------------------
(* Frames, word by word *)

LEMMA CPURegisterWords ==
    /\ Len(CPURegister) = 12
    /\ CPURegister[1] = "edi" /\ CPURegister[2] = "esi" /\ CPURegister[3] = "ebp"
    /\ CPURegister[4] = "esp" /\ CPURegister[5] = "ebx" /\ CPURegister[6] = "edx"
    /\ CPURegister[7] = "ecx" /\ CPURegister[8] = "eax" /\ CPURegister[9] = "gs"
    /\ CPURegister[10] = "fs" /\ CPURegister[11] = "es" /\ CPURegister[12] = "ds"
BY DEF CPURegister

\* Each register is popped from where it was pushed.
LEMMA PoppedFrom ==
    /\ Popped["edi"] = 1 /\ Popped["esi"] = 2 /\ Popped["ebp"] = 3
    /\ Popped["esp"] = 4 /\ Popped["ebx"] = 5 /\ Popped["edx"] = 6
    /\ Popped["ecx"] = 7 /\ Popped["eax"] = 8 /\ Popped["gs"] = 9
    /\ Popped["fs"] = 10 /\ Popped["es"] = 11 /\ Popped["ds"] = 12
<1>1. ASSUME NEW i \in 1 .. 12 PROVE Popped[CPURegister[i]] = i
  <2>1. Len(CPURegister) = 12
    BY CPURegisterWords
  <2>2. Popped[CPURegister[i]] = CHOOSE j \in 1 .. 12 : CPURegister[j] = CPURegister[i]
    BY <2>1 DEF Popped
  <2>3. \A j \in 1 .. 12 : CPURegister[j] = CPURegister[i] => j = i
    BY CPURegisterWords
  <2> QED BY <2>2, <2>3
<1> QED BY <1>1, CPURegisterWords

\* A sequence of n words, whatever these are.
Tuple(s, n) == n \in Nat /\ s = [i \in 1 .. n |-> s[i]]

LEMMA TupleIsSeq ==
    ASSUME NEW s, NEW n, Tuple(s, n), NEW S, \A i \in 1 .. n : s[i] \in S
    PROVE  s \in Seq(S) /\ Len(s) = n
<1>1. s \in [1 .. n -> S] /\ n \in Nat
  BY DEF Tuple
<1>2. s \in Seq(S)
  BY <1>1, SeqDef
<1>3. DOMAIN s = 1 .. n /\ DOMAIN s = 1 .. Len(s) /\ Len(s) \in Nat
  BY <1>1, <1>2, LenProperties
<1> QED BY <1>1, <1>2, <1>3

\* What the words of one sequence put behind another are.
Chained(s, n, t, m, u) ==
    /\ Tuple(u, n + m)
    /\ \A i \in 1 .. n : u[i] = s[i]
    /\ \A i \in 1 .. m : u[n + i] = t[i]

LEMMA ConcatWords ==
    ASSUME NEW s, NEW n, Tuple(s, n), NEW t, NEW m, Tuple(t, m)
    PROVE  Chained(s, n, t, m, s \o t)
<1> DEFINE S == {s[i] : i \in 1 .. n} \cup {t[i] : i \in 1 .. m}
<1>1. (\A i \in 1 .. n : s[i] \in S) /\ (\A i \in 1 .. m : t[i] \in S)
  OBVIOUS
<1> HIDE DEF S
<1>2. s \in Seq(S) /\ Len(s) = n /\ t \in Seq(S) /\ Len(t) = m
  BY <1>1, TupleIsSeq
<1>3. n \in Nat /\ m \in Nat
  BY DEF Tuple
<1>4. /\ s \o t \in Seq(S) /\ Len(s \o t) = n + m
      /\ \A i \in 1 .. n + m : (s \o t)[i] = IF i <= n THEN s[i] ELSE t[i - n]
  BY <1>2, ConcatProperties
<1>5. Tuple(s \o t, n + m)
  BY <1>3, <1>4, LenProperties DEF Tuple
<1>6. \A i \in 1 .. n : (s \o t)[i] = s[i]
  BY <1>3, <1>4
<1>7. \A i \in 1 .. m : (s \o t)[n + i] = t[i]
  <2>1. SUFFICES ASSUME NEW i \in 1 .. m PROVE (s \o t)[n + i] = t[i]
    OBVIOUS
  <2>2. n + i \in 1 .. n + m /\ ~ (n + i <= n) /\ (n + i) - n = i
    BY <1>3
  <2> QED BY <1>4, <2>2
<1> QED BY <1>5, <1>6, <1>7 DEF Chained

LEMMA FiveWords ==
    ASSUME NEW a, NEW b, NEW c, NEW d, NEW e, NEW s, s = <<a, b, c, d, e>>
    PROVE  Tuple(s, 5) /\ s[1] = a /\ s[2] = b /\ s[3] = c /\ s[4] = d /\ s[5] = e
BY DEF Tuple

LEMMA ThreeWords ==
    ASSUME NEW a, NEW b, NEW c, NEW s, s = <<a, b, c>>
    PROVE  Tuple(s, 3) /\ s[1] = a /\ s[2] = b /\ s[3] = c
BY DEF Tuple

LEMMA TwoWords ==
    ASSUME NEW a, NEW b, NEW s, s = <<a, b>>
    PROVE  Tuple(s, 2) /\ s[1] = a /\ s[2] = b
BY DEF Tuple

\* What the processor pushes: the return address, and in user mode the stack.
LEMMA PushedWords ==
    /\ Tuple(Pushed, IF UserMode THEN 5 ELSE 3)
    /\ Pushed[1] = cpu["eip"] /\ Pushed[2] = cpu["cs"] /\ Pushed[3] = cpu["eflags"]
    /\ UserMode => Pushed[4] = cpu["esp"] /\ Pushed[5] = cpu["ss"]
<1> DEFINE low == <<cpu["eip"], cpu["cs"], cpu["eflags"]>>
<1>1. Tuple(low, 3) /\ low[1] = cpu["eip"] /\ low[2] = cpu["cs"] /\ low[3] = cpu["eflags"]
  BY ThreeWords
<1>2. Pushed = low \o (IF UserMode THEN <<cpu["esp"], cpu["ss"]>> ELSE << >>)
  BY DEF Pushed
<1> HIDE DEF low
<1>3. CASE UserMode
  <2> DEFINE high == <<cpu["esp"], cpu["ss"]>>
  <2>1. Tuple(high, 2) /\ high[1] = cpu["esp"] /\ high[2] = cpu["ss"]
    BY TwoWords
  <2>2. Pushed = low \o high
    BY <1>2, <1>3
  <2> HIDE DEF high
  <2>3. Chained(low, 3, high, 2, Pushed)
    BY <1>1, <2>1, <2>2, ConcatWords
  <2>4. /\ Tuple(Pushed, 5) /\ Pushed[1] = low[1] /\ Pushed[2] = low[2] /\ Pushed[3] = low[3]
        /\ Pushed[4] = high[1] /\ Pushed[5] = high[2]
    BY <2>3 DEF Chained
  <2> QED BY <1>1, <1>3, <2>1, <2>4
<1>4. CASE ~ UserMode
  <2>1. Tuple(<< >>, 0)
    BY DEF Tuple
  <2>2. Pushed = low \o << >>
    BY <1>2, <1>4
  <2>3. Chained(low, 3, << >>, 0, Pushed)
    BY <1>1, <2>1, <2>2, ConcatWords
  <2>4. /\ Tuple(Pushed, 3) /\ Pushed[1] = low[1] /\ Pushed[2] = low[2] /\ Pushed[3] = low[3]
    BY <2>3 DEF Chained
  <2> QED BY <1>1, <1>4, <2>4
<1> QED BY <1>3, <1>4

\* The frame the stub leaves, for whatever the registers hold.
LEMMA StackedWords ==
    ASSUME NEW n, NEW f, f = Stacked(n)
    PROVE  /\ Tuple(f, IF UserMode THEN 19 ELSE 17)
           /\ \A i \in 1 .. 12 : i # 4 => f[i] = cpu[CPURegister[i]]
           /\ f[13] = <<"number", n>>
           /\ f[15] = cpu["eip"] /\ f[16] = cpu["cs"] /\ f[17] = cpu["eflags"]
           /\ UserMode => f[18] = cpu["esp"] /\ f[19] = cpu["ss"]
<1> DEFINE low == [i \in 1 .. Len(CPURegister) |->
                     IF CPURegister[i] = "esp" THEN <<"esp", <<Nobody, "kernel stack">>>>
                     ELSE cpu[CPURegister[i]]]
           mid == <<<<"number", n>>, <<"error code", 0>>>>
           sub == low \o mid
<1>1. f = sub \o Pushed
  BY Zenon DEF Stacked
<1>2. Tuple(low, 12) /\ \A i \in 1 .. 12 : i # 4 => low[i] = cpu[CPURegister[i]]
  <2>1. Len(CPURegister) = 12
    BY CPURegisterWords
  <2>2. \A i \in 1 .. 12 : i # 4 => CPURegister[i] # "esp"
    BY CPURegisterWords
  <2>3. Tuple(low, 12)
    BY <2>1 DEF Tuple
  <2> QED BY <2>1, <2>2, <2>3
<1>3. Tuple(mid, 2) /\ mid[1] = <<"number", n>>
  BY TwoWords
<1> HIDE DEF low, mid
<1>4. Chained(low, 12, mid, 2, sub)
  BY <1>2, <1>3, ConcatWords
<1> HIDE DEF sub
<1>5. Tuple(sub, 14) /\ sub[13] = mid[1] /\ \A i \in 1 .. 12 : sub[i] = low[i]
  BY <1>4 DEF Chained
<1>6. ASSUME NEW k \in Nat, k >= 3, Tuple(Pushed, k)
      PROVE  /\ Tuple(f, 14 + k)
             /\ \A i \in 1 .. 12 : i # 4 => f[i] = cpu[CPURegister[i]]
             /\ f[13] = <<"number", n>>
             /\ \A i \in 1 .. k : f[14 + i] = Pushed[i]
  <2>1. Chained(sub, 14, Pushed, k, f)
    BY <1>1, <1>5, <1>6, ConcatWords
  <2>2. Tuple(f, 14 + k) /\ (\A i \in 1 .. 14 : f[i] = sub[i])
        /\ \A i \in 1 .. k : f[14 + i] = Pushed[i]
    BY <2>1 DEF Chained
  <2>3. \A i \in 1 .. 12 : f[i] = low[i]
    BY <1>5, <2>2
  <2>4. f[13] = <<"number", n>>
    BY <1>3, <1>5, <2>2
  <2> QED BY <1>2, <2>2, <2>3, <2>4
<1>7. CASE UserMode
  <2>1. Tuple(Pushed, 5)
    BY <1>7, PushedWords
  <2>2. /\ Tuple(f, 19) /\ f[13] = <<"number", n>>
        /\ \A i \in 1 .. 12 : i # 4 => f[i] = cpu[CPURegister[i]]
        /\ \A i \in 1 .. 5 : f[14 + i] = Pushed[i]
    BY <1>6, <2>1
  <2>3. f[15] = Pushed[1] /\ f[16] = Pushed[2] /\ f[17] = Pushed[3]
        /\ f[18] = Pushed[4] /\ f[19] = Pushed[5]
    BY <2>2
  <2> QED BY <1>7, <2>2, <2>3, PushedWords
<1>8. CASE ~ UserMode
  <2>1. Tuple(Pushed, 3)
    BY <1>8, PushedWords
  <2>2. /\ Tuple(f, 17) /\ f[13] = <<"number", n>>
        /\ \A i \in 1 .. 12 : i # 4 => f[i] = cpu[CPURegister[i]]
        /\ \A i \in 1 .. 3 : f[14 + i] = Pushed[i]
    BY <1>6, <2>1
  <2>3. f[15] = Pushed[1] /\ f[16] = Pushed[2] /\ f[17] = Pushed[3]
    BY <2>2
  <2> QED BY <1>8, <2>2, <2>3, PushedWords
<1> QED BY <1>7, <1>8

\* The segment registers agree on the level, as in a user process and in kernel_setup.
Levelled == Level(cpu["ds"]) = 0 <=> ~ UserMode

\* The frame main_interrupt_handler gets holds the registers, word by word.
LEMMA EnteredWords ==
    ASSUME NEW n, Levelled, NEW f, f = Entered(n)
    PROVE  /\ Tuple(f, IF UserMode THEN 19 ELSE 17)
           /\ \A i \in 1 .. 12 : i # 4 \/ UserMode => f[i] = cpu[CPURegister[i]]
           /\ f[13] = <<"number", n>>
           /\ f[15] = cpu["eip"] /\ f[16] = cpu["cs"] /\ f[17] = cpu["eflags"]
           /\ UserMode => f[18] = cpu["esp"] /\ f[19] = cpu["ss"]
<1> DEFINE g == Stacked(n)
<1>1. /\ Tuple(g, IF UserMode THEN 19 ELSE 17)
      /\ \A i \in 1 .. 12 : i # 4 => g[i] = cpu[CPURegister[i]]
      /\ g[13] = <<"number", n>>
      /\ g[15] = cpu["eip"] /\ g[16] = cpu["cs"] /\ g[17] = cpu["eflags"]
      /\ UserMode => g[18] = cpu["esp"] /\ g[19] = cpu["ss"]
  BY StackedWords
<1> HIDE DEF g
<1>2. WordAt(52) = 12 /\ WordAt(20) = 4 /\ WordAt(76) = 18
  BY DEF WordAt
<1>3. g[12] = cpu["ds"]
  BY <1>1, CPURegisterWords
<1>4. f = IF Level(g[12]) = 0 THEN g ELSE [g EXCEPT ![4] = g[18]]
  BY <1>2 DEF Entered, g
<1>5. CASE ~ UserMode
  <2>1. f = g
    BY <1>3, <1>4, <1>5 DEF Levelled
  <2> QED BY <1>1, <1>5, <2>1
<1>6. CASE UserMode
  <2>1. f = [g EXCEPT ![4] = cpu["esp"]]
    BY <1>1, <1>3, <1>4, <1>6 DEF Levelled
  <2>2. Tuple(g, 19)
    BY <1>1, <1>6
  <2>3. Tuple(f, 19) /\ f[4] = cpu["esp"] /\ \A i \in 1 .. 19 : i # 4 => f[i] = g[i]
    <3>1. DOMAIN g = 1 .. 19 /\ f = [i \in DOMAIN g |-> IF i = 4 THEN cpu["esp"] ELSE g[i]]
      BY <2>1, <2>2 DEF Tuple
    <3>2. f = [i \in 1 .. 19 |-> IF i = 4 THEN cpu["esp"] ELSE g[i]]
      BY <3>1
    <3> HIDE DEF g
    <3>3. \A i \in 1 .. 19 : f[i] = IF i = 4 THEN cpu["esp"] ELSE g[i]
      BY <3>2
    <3>4. f = [i \in 1 .. 19 |-> f[i]]
      BY <3>2
    <3> QED BY <3>3, <3>4 DEF Tuple
  <2>4. \A i \in 1 .. 12 : f[i] = cpu[CPURegister[i]]
    BY <1>1, <2>3, CPURegisterWords
  <2> QED BY <1>1, <1>6, <2>3, <2>4
<1> QED BY <1>5, <1>6

\* The registers iret and the pops ahead of it leave.
LEMMA LoadedRegisters ==
    ASSUME NEW f, NEW i \in Nat
    PROVE  /\ DOMAIN Loaded(f, i) = Register
           /\ Loaded(f, i) = [r \in Register |-> Loaded(f, i)[r]]
           /\ Loaded(f, i)["eip"] = f[i] /\ Loaded(f, i)["cs"] = f[i + 1]
           /\ Loaded(f, i)["eflags"] = f[i + 2]
           /\ Loaded(f, i)["esp"] = (IF Level(f[i + 1]) = 0 THEN cpu["esp"] ELSE f[i + 3])
           /\ Loaded(f, i)["ss"] = (IF Level(f[i + 1]) = 0 THEN cpu["ss"] ELSE f[i + 4])
           /\ \A j \in 1 .. 12 : j # 4 => Loaded(f, i)[CPURegister[j]] = f[j]
<1>1. \A r \in Register : Loaded(f, i)[r] =
        CASE r = "eip"    -> f[i]
          [] r = "cs"     -> f[i + 1]
          [] r = "eflags" -> f[i + 2]
          [] r = "esp"    -> IF Level(f[i + 1]) = 0 THEN cpu["esp"] ELSE f[i + 3]
          [] r = "ss"     -> IF Level(f[i + 1]) = 0 THEN cpu["ss"] ELSE f[i + 4]
          [] OTHER        -> f[Popped[r]]
  BY DEF Loaded
<1>2. DOMAIN Loaded(f, i) = Register /\ Loaded(f, i) = [r \in Register |-> Loaded(f, i)[r]]
  BY DEF Loaded
<1> HIDE DEF Loaded
<1>3. {"eip", "cs", "eflags", "esp", "ss"} \subseteq Register
  BY DEF Register, General
<1>4. \A j \in 1 .. 12 : CPURegister[j] \in Register /\ Popped[CPURegister[j]] = j
  BY CPURegisterWords, PoppedFrom DEF Register, General
<1>5. \A j \in 1 .. 12 : j # 4 => CPURegister[j] \notin {"eip", "cs", "eflags", "esp", "ss"}
  BY CPURegisterWords
<1>6. \A j \in 1 .. 12 : j # 4 => Loaded(f, i)[CPURegister[j]] = f[j]
  BY <1>1, <1>4, <1>5
<1> QED BY <1>1, <1>2, <1>3, <1>6

\* iret in user mode, behind the pops, puts back what a handler entered with.
LEMMA ReturnedExact ==
    ASSUME NEW n, Levelled, cpu = [r \in Register |-> cpu[r]]
    PROVE  Returned(Entered(n)) = cpu
<1> DEFINE f == Entered(n)
           g == Loaded(f, 15)
<1>1. /\ \A i \in 1 .. 12 : i # 4 => f[i] = cpu[CPURegister[i]]
      /\ f[15] = cpu["eip"] /\ f[16] = cpu["cs"] /\ f[17] = cpu["eflags"]
      /\ UserMode => f[18] = cpu["esp"] /\ f[19] = cpu["ss"]
  BY EnteredWords
<1> HIDE DEF f
<1>2. /\ g = [r \in Register |-> g[r]]
      /\ g["eip"] = f[15] /\ g["cs"] = f[16] /\ g["eflags"] = f[17]
      /\ g["esp"] = (IF Level(f[16]) = 0 THEN cpu["esp"] ELSE f[18])
      /\ g["ss"] = (IF Level(f[16]) = 0 THEN cpu["ss"] ELSE f[19])
      /\ \A j \in 1 .. 12 : j # 4 => g[CPURegister[j]] = f[j]
  BY LoadedRegisters
<1> HIDE DEF g
<1>3. Level(f[16]) # 0 <=> UserMode
  BY <1>1 DEF UserMode
<1>4. g["esp"] = cpu["esp"] /\ g["ss"] = cpu["ss"]
  BY <1>1, <1>2, <1>3
<1>5. \A j \in 1 .. 12 : j # 4 => g[CPURegister[j]] = cpu[CPURegister[j]]
  BY <1>1, <1>2
<1>6. g["edi"] = cpu["edi"] /\ g["esi"] = cpu["esi"] /\ g["ebp"] = cpu["ebp"]
      /\ g["ebx"] = cpu["ebx"] /\ g["edx"] = cpu["edx"] /\ g["ecx"] = cpu["ecx"]
      /\ g["eax"] = cpu["eax"] /\ g["gs"] = cpu["gs"] /\ g["fs"] = cpu["fs"]
      /\ g["es"] = cpu["es"] /\ g["ds"] = cpu["ds"]
  BY <1>5, CPURegisterWords
<1>7. \A r \in Register : g[r] = cpu[r]
  BY <1>1, <1>2, <1>4, <1>6 DEF Register, General
<1>8. g = cpu
  BY <1>2, <1>7
<1> QED BY <1>8 DEF Returned, f, g

\* A context holds registers, those of a process in user mode.
Keeps(c, regs) ==
    /\ \A i \in 1 .. 12 : i # 4 => c[i] = regs[CPURegister[i]]
    /\ c[13] = regs["eip"] /\ c[14] = regs["cs"] /\ c[15] = regs["eflags"]
    /\ c[16] = regs["esp"] /\ c[17] = regs["ss"]

\* process_context_switch turns a context into the registers it holds.
LEMMA SwitchExact ==
    ASSUME NEW c, NEW regs, Keeps(c, regs), regs = [r \in Register |-> regs[r]],
           Level(regs["cs"]) # 0
    PROVE  process_context_switch(c) = regs
<1> DEFINE g == Loaded(c, 13)
<1>1. /\ g = [r \in Register |-> g[r]]
      /\ g["eip"] = c[13] /\ g["cs"] = c[14] /\ g["eflags"] = c[15]
      /\ g["esp"] = (IF Level(c[14]) = 0 THEN cpu["esp"] ELSE c[16])
      /\ g["ss"] = (IF Level(c[14]) = 0 THEN cpu["ss"] ELSE c[17])
      /\ \A j \in 1 .. 12 : j # 4 => g[CPURegister[j]] = c[j]
  BY LoadedRegisters
<1> HIDE DEF g
<1>2. /\ g["eip"] = regs["eip"] /\ g["cs"] = regs["cs"] /\ g["eflags"] = regs["eflags"]
      /\ g["esp"] = regs["esp"] /\ g["ss"] = regs["ss"]
  BY <1>1 DEF Keeps
<1>3. \A j \in 1 .. 12 : j # 4 => g[CPURegister[j]] = regs[CPURegister[j]]
  BY <1>1 DEF Keeps
<1>4. g["edi"] = regs["edi"] /\ g["esi"] = regs["esi"] /\ g["ebp"] = regs["ebp"]
      /\ g["ebx"] = regs["ebx"] /\ g["edx"] = regs["edx"] /\ g["ecx"] = regs["ecx"]
      /\ g["eax"] = regs["eax"] /\ g["gs"] = regs["gs"] /\ g["fs"] = regs["fs"]
      /\ g["es"] = regs["es"] /\ g["ds"] = regs["ds"]
  BY <1>3, CPURegisterWords
<1>5. \A r \in Register : g[r] = regs[r]
  BY <1>2, <1>4 DEF Register, General
<1>6. g = regs
  BY <1>1, <1>5
<1> QED BY <1>6 DEF process_context_switch, g

\* The words at the front of a sequence.
LEMMA FrontWords ==
    ASSUME NEW s, NEW n, Tuple(s, n), NEW m \in 1 .. n
    PROVE  Tuple(SubSeq(s, 1, m), m) /\ \A i \in 1 .. m : SubSeq(s, 1, m)[i] = s[i]
<1> DEFINE S == {s[i] : i \in 1 .. n}
<1>1. \A i \in 1 .. n : s[i] \in S
  OBVIOUS
<1> HIDE DEF S
<1>2. s \in Seq(S) /\ Len(s) = n /\ n \in Nat
  BY <1>1, TupleIsSeq DEF Tuple
<1>3. /\ SubSeq(s, 1, m) \in Seq(S) /\ Len(SubSeq(s, 1, m)) = m
      /\ \A i \in 1 .. m : SubSeq(s, 1, m)[i] = s[i]
  BY <1>2
<1> QED BY <1>3, LenProperties DEF Tuple

\* timer_isr keeps every register of the process it interrupts.
LEMMA SavedKeeps ==
    ASSUME NEW n, Levelled, UserMode, cpu["ss"] = UserData
    PROVE  Keeps(Saved(Entered(n)), cpu)
<1> DEFINE f == Entered(n)
           low == SubSeq(f, 1, 12)
           high == <<f[15], f[16], f[17], f[4], UserData>>
           c == low \o high
<1>1. /\ Tuple(f, 19) /\ f[15] = cpu["eip"] /\ f[16] = cpu["cs"] /\ f[17] = cpu["eflags"]
      /\ \A i \in 1 .. 12 : f[i] = cpu[CPURegister[i]]
  BY EnteredWords
<1>2. f[4] = cpu["esp"]
  BY <1>1, CPURegisterWords
<1>3. Saved(f) = c
  BY CPURegisterWords DEF Saved
<1> HIDE DEF f
<1>4. Tuple(low, 12) /\ \A i \in 1 .. 12 : low[i] = f[i]
  BY <1>1, FrontWords
<1>5. /\ Tuple(high, 5) /\ high[1] = cpu["eip"] /\ high[2] = cpu["cs"]
      /\ high[3] = cpu["eflags"] /\ high[4] = cpu["esp"] /\ high[5] = cpu["ss"]
  BY <1>1, <1>2, FiveWords
<1> HIDE DEF low, high
<1>6. Chained(low, 12, high, 5, c)
  BY <1>4, <1>5, ConcatWords
<1> HIDE DEF c
<1>7. /\ \A i \in 1 .. 12 : c[i] = low[i]
      /\ c[13] = high[1] /\ c[14] = high[2] /\ c[15] = high[3] /\ c[16] = high[4]
      /\ c[17] = high[5]
  BY <1>6 DEF Chained
<1>8. Keeps(c, cpu)
  BY <1>1, <1>4, <1>5, <1>7 DEF Keeps
<1> QED BY <1>3, <1>8 DEF f

-----------------------------------------------------------------------------
(* The registers of a process and of kernel_setup *)

LEMMA UserWords ==
    ASSUME NEW p, NEW a
    PROVE  /\ UserRegisters(p, a) = [r \in Register |-> UserRegisters(p, a)[r]]
           /\ DOMAIN UserRegisters(p, a) = Register
           /\ UserRegisters(p, a)["cs"] = UserCode /\ UserRegisters(p, a)["ds"] = UserData
           /\ UserRegisters(p, a)["ss"] = UserData
           /\ UserRegisters(p, a)["eflags"] = <<"eflags", TRUE>>
BY DEF UserRegisters, Register, General

LEMMA KernelWords ==
    ASSUME NEW a, NEW e
    PROVE  /\ KernelRegisters(a, e) = [r \in Register |-> KernelRegisters(a, e)[r]]
           /\ DOMAIN KernelRegisters(a, e) = Register
           /\ KernelRegisters(a, e)["cs"] = KernelCode
           /\ KernelRegisters(a, e)["ds"] = KernelData
           /\ KernelRegisters(a, e)["eflags"] = <<"eflags", e>>
BY DEF KernelRegisters, Register, General

LEMMA Levels ==
    Level(KernelCode) = 0 /\ Level(KernelData) = 0 /\ Level(UserCode) = 3 /\ Level(UserData) = 3
BY DEF Level, KernelCode, KernelData, UserCode, UserData

\* The context of a new process holds the registers it starts with.
LEMMA NewContextKeeps ==
    ASSUME NEW p
    PROVE  Keeps(NewContext(p), UserRegisters(p, "start"))
<1> DEFINE regs == UserRegisters(p, "start")
           low == [i \in 1 .. Len(CPURegister) |-> regs[CPURegister[i]]]
           high == <<regs["eip"], UserCode, <<"eflags", TRUE>>, regs["esp"], UserData>>
           c == low \o high
<1>1. NewContext(p) = c
  BY Zenon DEF NewContext
<1>2. Tuple(low, 12) /\ \A i \in 1 .. 12 : low[i] = regs[CPURegister[i]]
  <2>1. Len(CPURegister) = 12
    BY CPURegisterWords
  <2> QED BY <2>1 DEF Tuple
<1>3. regs["cs"] = UserCode /\ regs["eflags"] = <<"eflags", TRUE>> /\ regs["ss"] = UserData
  BY UserWords
<1> HIDE DEF regs
<1>4. /\ Tuple(high, 5) /\ high[1] = regs["eip"] /\ high[2] = regs["cs"]
      /\ high[3] = regs["eflags"] /\ high[4] = regs["esp"] /\ high[5] = regs["ss"]
  <2>1. high = <<regs["eip"], regs["cs"], regs["eflags"], regs["esp"], regs["ss"]>>
    BY <1>3, Zenon
  <2> HIDE DEF high
  <2> QED BY <2>1, FiveWords
<1> HIDE DEF low, high
<1>5. Chained(low, 12, high, 5, c)
  BY <1>2, <1>4, ConcatWords
<1> HIDE DEF c
<1>6. /\ \A i \in 1 .. 12 : c[i] = low[i]
      /\ c[13] = high[1] /\ c[14] = high[2] /\ c[15] = high[3] /\ c[16] = high[4]
      /\ c[17] = high[5]
  BY <1>5 DEF Chained
<1>7. Keeps(c, regs)
  BY <1>2, <1>4, <1>6 DEF Keeps
<1> QED BY <1>1, <1>7 DEF regs

-----------------------------------------------------------------------------
(* The inductive invariant of the machine *)

\* What kernel_setup has brought about, call by call.
Early == {"load_gdt", "pic_remap", "initialize_idt"}

StageInv ==
    /\ InterruptsOn \in BOOLEAN
    /\ setup \in Early \cup {"scheduler_switch"} => ~ InterruptsOn
    /\ setup \notin Early => gates
    /\ setup \notin {"load_gdt", "pic_remap", "scheduler_switch", "user"}
           => IRQ_TIMER \in pic.mask
    /\ setup \in {"set_tss_register", "set_tss_kernel_current_stack", "process_create",
                  "scheduler_init", "scheduler_switch", "user"} => tss.base
    /\ setup \in {"set_tss_kernel_current_stack", "process_create",
                  "scheduler_init", "scheduler_switch", "user"} => tss.tr
    /\ setup \in {"process_create", "scheduler_init", "scheduler_switch", "user"} => tss.esp0

\* The running process exists, and kernel_setup runs until there is one.
RunningInv ==
    /\ running = Nobody <=> setup # "user"
    /\ running # Nobody => Created(running)

\* The PCB of a process that has been interrupted, or not yet run, holds its registers.
ContextInv ==
    \A p \in Processes : Created(p) /\ p # running => Keeps(context[p], UserRegisters(p, at[p]))

\* No interrupt stays in service when its handler is left.
ServiceInv == pic.isr = {}

MachineInv ==
    /\ MachineTypeOK
    /\ ServiceInv
    /\ StageInv
    /\ RunningInv
    /\ ContextInv
    /\ ResumesExact

\* What the processor's registers say of the machine.
LEMMA CpuFacts ==
    ASSUME MachineInv
    PROVE  /\ cpu = [r \in Register |-> cpu[r]]
           /\ Levelled
           /\ UserMode <=> running # Nobody
           /\ running # Nobody => cpu["ss"] = UserData /\ cpu["eflags"] = <<"eflags", TRUE>>
<1> USE DEF MachineInv
<1>1. CASE running = Nobody
  <2>1. cpu = KernelRegisters(setup, InterruptsOn)
    BY <1>1 DEF ResumesExact
  <2>2. cpu["cs"] = KernelCode /\ cpu["ds"] = KernelData /\ cpu = [r \in Register |-> cpu[r]]
    BY <2>1, KernelWords
  <2>3. ~ UserMode /\ Level(cpu["ds"]) = 0
    BY <2>2, Levels DEF UserMode
  <2> QED BY <1>1, <2>2, <2>3 DEF Levelled
<1>2. CASE running # Nobody
  <2>1. cpu = UserRegisters(running, at[running])
    BY <1>2 DEF ResumesExact
  <2>2. /\ cpu["cs"] = UserCode /\ cpu["ds"] = UserData /\ cpu["ss"] = UserData
        /\ cpu["eflags"] = <<"eflags", TRUE>> /\ cpu = [r \in Register |-> cpu[r]]
    BY <2>1, UserWords
  <2>3. UserMode /\ Level(cpu["ds"]) # 0
    BY <2>2, Levels DEF UserMode
  <2> QED BY <1>2, <2>2, <2>3 DEF Levelled
<1> QED BY <1>1, <1>2

LEMMA SecondWord ==
    ASSUME NEW w, NEW a, NEW b, w = <<a, b>> PROVE w[2] = b
OBVIOUS

LEMMA FlagWord ==
    ASSUME NEW e, cpu["eflags"] = <<"eflags", e>> PROVE InterruptsOn = e
BY DEF InterruptsOn

LEMMA MachineInitInv == MachineInit => MachineInv
<1> SUFFICES ASSUME MachineInit PROVE MachineInv
  OBVIOUS
<1> USE DEF MachineInit
<1>1. cpu["eflags"] = <<"eflags", FALSE>> /\ DOMAIN cpu = Register
  BY KernelWords
<1>2. InterruptsOn = FALSE
  BY <1>1, FlagWord
<1>3. MachineTypeOK
  BY <1>1 DEF MachineTypeOK
<1>4. StageInv
  BY <1>2 DEF StageInv, Early
<1>5. RunningInv /\ ServiceInv
  BY DEF RunningInv, ServiceInv
<1>6. ContextInv
  BY DEF ContextInv, Created
<1>7. ResumesExact
  BY <1>2 DEF ResumesExact
<1> QED BY <1>3, <1>4, <1>5, <1>6, <1>7 DEF MachineInv

\* What every call of kernel_setup but the last does.
LEMMA CallFacts ==
    ASSUME MachineInv, NEW a, NEW b, NEW e, Call(a, b, e), a # "user", b # "user",
           running' = running
    PROVE  /\ running = Nobody /\ InterruptsOn' = e /\ DOMAIN cpu' = Register
           /\ RunningInv' /\ ResumesExact'
<1>1. running = Nobody
  BY DEF MachineInv, RunningInv, Call
<1>2. cpu' = KernelRegisters(b, e) /\ setup' = b
  BY DEF Call
<1>3. cpu'["eflags"] = <<"eflags", e>> /\ DOMAIN cpu' = Register
  BY <1>2, KernelWords
<1>4. InterruptsOn' = e
  BY <1>3 DEF InterruptsOn
<1>5. RunningInv'
  BY <1>1, <1>2 DEF RunningInv
<1>6. ResumesExact'
  BY <1>1, <1>2, <1>4 DEF ResumesExact
<1> QED BY <1>1, <1>3, <1>4, <1>5, <1>6

\* Contexts are right as long as neither they nor the processes change.
LEMMA ContextUnchanged ==
    ASSUME ContextInv, UNCHANGED <<running, context, at>> PROVE ContextInv'
BY DEF ContextInv, Created

\* The calls of kernel_setup ahead of the creation of the first process.
LEMMA SetupInv ==
    ASSUME MachineInv,
           load_gdt \/ pic_remap \/ initialize_idt \/ activate_keyboard_interrupt
           \/ gdt_install_tss \/ set_tss_register \/ set_tss_kernel_current_stack
           \/ scheduler_init
    PROVE  MachineInv'
<1> USE DEF MachineInv
<1>0. MachineTypeOK /\ StageInv /\ ServiceInv /\ ContextInv /\ InterruptsOn \in BOOLEAN
  BY DEF StageInv
<1>1. CASE load_gdt
  <2>1. Call("load_gdt", "pic_remap", FALSE) /\ UNCHANGED <<pic, gates, tss, running, context, at>>
    BY <1>1 DEF load_gdt
  <2>2. InterruptsOn' = FALSE /\ DOMAIN cpu' = Register /\ RunningInv' /\ ResumesExact'
    BY <2>1, CallFacts
  <2>3. setup = "load_gdt" /\ setup' = "pic_remap"
    BY <2>1 DEF Call
  <2>4. MachineTypeOK'
    BY <1>0, <2>1, <2>2, <2>3 DEF MachineTypeOK
  <2>5. StageInv'
    BY <1>0, <2>1, <2>2, <2>3 DEF StageInv, Early
  <2>6. ServiceInv' /\ ContextInv'
    BY <1>0, <2>1, ContextUnchanged DEF ServiceInv
  <2> QED BY <2>2, <2>4, <2>5, <2>6
<1>2. CASE pic_remap
  <2>1. /\ Call("pic_remap", "initialize_idt", InterruptsOn)
        /\ UNCHANGED <<gates, tss, running, context, at>>
        /\ pic' = [irr |-> {}, mask |-> IRQ, isr |-> {}]
    BY <1>2 DEF pic_remap
  <2>2. InterruptsOn' = InterruptsOn /\ DOMAIN cpu' = Register /\ RunningInv' /\ ResumesExact'
    BY <2>1, CallFacts
  <2>3. setup = "pic_remap" /\ setup' = "initialize_idt"
    BY <2>1 DEF Call
  <2>4. MachineTypeOK'
    BY <1>0, <2>1, <2>2, <2>3 DEF MachineTypeOK, IRQ
  <2>5. StageInv'
    BY <1>0, <2>1, <2>2, <2>3 DEF StageInv, Early, IRQ
  <2>6. ServiceInv' /\ ContextInv'
    BY <1>0, <2>1, ContextUnchanged DEF ServiceInv
  <2> QED BY <2>2, <2>4, <2>5, <2>6
<1>3. CASE initialize_idt
  <2>1. /\ Call("initialize_idt", "activate_keyboard_interrupt", TRUE)
        /\ gates' = TRUE /\ UNCHANGED <<pic, tss, running, context, at>>
    BY <1>3 DEF initialize_idt
  <2>2. InterruptsOn' = TRUE /\ DOMAIN cpu' = Register /\ RunningInv' /\ ResumesExact'
    BY <2>1, CallFacts
  <2>3. setup = "initialize_idt" /\ setup' = "activate_keyboard_interrupt"
    BY <2>1 DEF Call
  <2>4. MachineTypeOK'
    BY <1>0, <2>1, <2>2, <2>3 DEF MachineTypeOK
  <2>5. StageInv'
    BY <1>0, <2>1, <2>2, <2>3 DEF StageInv, Early
  <2>6. ServiceInv' /\ ContextInv'
    BY <1>0, <2>1, ContextUnchanged DEF ServiceInv
  <2> QED BY <2>2, <2>4, <2>5, <2>6
<1>4. CASE activate_keyboard_interrupt
  <2>1. /\ Call("activate_keyboard_interrupt", "gdt_install_tss", InterruptsOn)
        /\ pic' = [pic EXCEPT !.mask = @ \ {IRQ_KEYBOARD}]
        /\ UNCHANGED <<gates, tss, running, context, at>>
    BY <1>4 DEF activate_keyboard_interrupt
  <2>2. InterruptsOn' = InterruptsOn /\ DOMAIN cpu' = Register /\ RunningInv' /\ ResumesExact'
    BY <2>1, CallFacts
  <2>3. setup = "activate_keyboard_interrupt" /\ setup' = "gdt_install_tss"
    BY <2>1 DEF Call
  <2>4. MachineTypeOK'
    BY <1>0, <2>1, <2>2, <2>3 DEF MachineTypeOK
  <2>5. IRQ_TIMER \in pic.mask => IRQ_TIMER \in pic'.mask
    BY <1>0, <2>1 DEF MachineTypeOK, IRQ_TIMER, IRQ_KEYBOARD
  <2>6. StageInv'
    BY <1>0, <2>1, <2>2, <2>3, <2>5 DEF StageInv, Early
  <2>7. ServiceInv' /\ ContextInv'
    BY <1>0, <2>1, ContextUnchanged DEF ServiceInv, MachineTypeOK
  <2> QED BY <2>2, <2>4, <2>6, <2>7
<1>5. CASE gdt_install_tss
  <2>1. /\ Call("gdt_install_tss", "set_tss_register", InterruptsOn)
        /\ tss' = [tss EXCEPT !.base = TRUE]
        /\ UNCHANGED <<pic, gates, running, context, at>>
    BY <1>5 DEF gdt_install_tss
  <2>2. InterruptsOn' = InterruptsOn /\ DOMAIN cpu' = Register /\ RunningInv' /\ ResumesExact'
    BY <2>1, CallFacts
  <2>3. setup = "gdt_install_tss" /\ setup' = "set_tss_register"
    BY <2>1 DEF Call
  <2>4. MachineTypeOK'
    BY <1>0, <2>1, <2>2, <2>3 DEF MachineTypeOK
  <2>5. tss'.base
    BY <1>0, <2>1 DEF MachineTypeOK
  <2>6. StageInv'
    BY <1>0, <2>1, <2>2, <2>3, <2>5 DEF StageInv, Early
  <2>7. ServiceInv' /\ ContextInv'
    BY <1>0, <2>1, ContextUnchanged DEF ServiceInv
  <2> QED BY <2>2, <2>4, <2>6, <2>7
<1>6. CASE set_tss_register
  <2>1. /\ Call("set_tss_register", "set_tss_kernel_current_stack", InterruptsOn)
        /\ tss' = [tss EXCEPT !.tr = tss.base]
        /\ UNCHANGED <<pic, gates, running, context, at>>
    BY <1>6 DEF set_tss_register
  <2>2. InterruptsOn' = InterruptsOn /\ DOMAIN cpu' = Register /\ RunningInv' /\ ResumesExact'
    BY <2>1, CallFacts
  <2>3. setup = "set_tss_register" /\ setup' = "set_tss_kernel_current_stack"
    BY <2>1 DEF Call
  <2>4. MachineTypeOK'
    BY <1>0, <2>1, <2>2, <2>3 DEF MachineTypeOK
  <2>5. tss.base /\ tss'.base /\ tss'.tr
    BY <1>0, <2>1, <2>3 DEF MachineTypeOK, StageInv
  <2>6. StageInv'
    BY <1>0, <2>1, <2>2, <2>3, <2>5 DEF StageInv, Early
  <2>7. ServiceInv' /\ ContextInv'
    BY <1>0, <2>1, ContextUnchanged DEF ServiceInv
  <2> QED BY <2>2, <2>4, <2>6, <2>7
<1>7. CASE set_tss_kernel_current_stack
  <2>1. /\ Call("set_tss_kernel_current_stack", "process_create", InterruptsOn)
        /\ tss' = [tss EXCEPT !.esp0 = TRUE]
        /\ UNCHANGED <<pic, gates, running, context, at>>
    BY <1>7 DEF set_tss_kernel_current_stack
  <2>2. InterruptsOn' = InterruptsOn /\ DOMAIN cpu' = Register /\ RunningInv' /\ ResumesExact'
    BY <2>1, CallFacts
  <2>3. setup = "set_tss_kernel_current_stack" /\ setup' = "process_create"
    BY <2>1 DEF Call
  <2>4. MachineTypeOK'
    BY <1>0, <2>1, <2>2, <2>3 DEF MachineTypeOK
  <2>5. tss'.base /\ tss'.tr /\ tss'.esp0
    BY <1>0, <2>1, <2>3 DEF MachineTypeOK, StageInv
  <2>6. StageInv'
    BY <1>0, <2>1, <2>2, <2>3, <2>5 DEF StageInv, Early
  <2>7. ServiceInv' /\ ContextInv'
    BY <1>0, <2>1, ContextUnchanged DEF ServiceInv
  <2> QED BY <2>2, <2>4, <2>6, <2>7
<1>8. CASE scheduler_init
  <2>1. /\ Call("scheduler_init", "scheduler_switch", FALSE)
        /\ pic' = [pic EXCEPT !.mask = @ \ {IRQ_TIMER}]
        /\ UNCHANGED <<gates, tss, running, context, at>>
    BY <1>8 DEF scheduler_init
  <2>2. InterruptsOn' = FALSE /\ DOMAIN cpu' = Register /\ RunningInv' /\ ResumesExact'
    BY <2>1, CallFacts
  <2>3. setup = "scheduler_init" /\ setup' = "scheduler_switch"
    BY <2>1 DEF Call
  <2>4. MachineTypeOK'
    BY <1>0, <2>1, <2>2, <2>3 DEF MachineTypeOK
  <2>5. StageInv'
    BY <1>0, <2>1, <2>2, <2>3 DEF StageInv, Early
  <2>6. ServiceInv' /\ ContextInv'
    BY <1>0, <2>1, ContextUnchanged DEF ServiceInv, MachineTypeOK
  <2> QED BY <2>2, <2>4, <2>5, <2>6
<1> QED BY <1>1, <1>2, <1>3, <1>4, <1>5, <1>6, <1>7, <1>8

LEMMA CreateInv ==
    ASSUME MachineInv, process_create_user_process PROVE MachineInv'
<1> USE DEF MachineInv
<1>1. /\ Call("process_create", "scheduler_init", InterruptsOn)
      /\ context' = [context EXCEPT ![First] = NewContext(First)]
      /\ at' = [at EXCEPT ![First] = "start"]
      /\ UNCHANGED <<pic, gates, tss, running>>
  BY DEF process_create_user_process
<1>2. MachineTypeOK /\ StageInv /\ ServiceInv /\ ContextInv
  OBVIOUS
<1>3. /\ InterruptsOn' = InterruptsOn /\ DOMAIN cpu' = Register
      /\ RunningInv' /\ ResumesExact' /\ running = Nobody
  BY <1>1, CallFacts
<1>4. setup = "process_create" /\ setup' = "scheduler_init"
  BY <1>1 DEF Call
<1>5. MachineTypeOK'
  BY <1>1, <1>2, <1>3, <1>4 DEF MachineTypeOK
<1>6. StageInv'
  BY <1>1, <1>2, <1>3, <1>4 DEF StageInv, Early
<1>7. ServiceInv'
  BY <1>1, <1>2 DEF ServiceInv
<1>8. ContextInv'
  <2>1. SUFFICES ASSUME NEW p \in Processes, at'[p] # "none", p # running'
                 PROVE  Keeps(context'[p], UserRegisters(p, at'[p]))
    BY DEF ContextInv, Created
  <2>2. DOMAIN context = Processes /\ DOMAIN at = Processes
    BY <1>2 DEF MachineTypeOK
  <2>3. CASE p = First
    <3>1. context'[p] = NewContext(p) /\ at'[p] = "start"
      BY <1>1, <2>2, <2>3
    <3> QED BY <3>1, NewContextKeeps
  <2>4. CASE p # First
    <3>1. context'[p] = context[p] /\ at'[p] = at[p]
      BY <1>1, <2>2, <2>4
    <3> QED BY <1>1, <1>2, <2>1, <3>1 DEF ContextInv, Created
  <2> QED BY <2>3, <2>4
<1> QED BY <1>3, <1>5, <1>6, <1>7, <1>8

-----------------------------------------------------------------------------
(* Interrupts *)

\* The handler's acknowledgement ends the one interrupt in service.
LEMMA Acknowledged ==
    ASSUME MachineTypeOK, ServiceInv, NEW i \in IRQ,
           NEW c, c = pic_ack(Accepted(i)) \/ c = pic_ack(pic)
    PROVE  /\ c \in [irr : SUBSET IRQ, mask : SUBSET IRQ, isr : SUBSET IRQ]
           /\ c.isr = {} /\ c.mask = pic.mask
<1>1. pic \in [irr : SUBSET IRQ, mask : SUBSET IRQ, isr : SUBSET IRQ] /\ pic.isr = {}
  BY DEF MachineTypeOK, ServiceInv
<1>2. ASSUME NEW d \in [irr : SUBSET IRQ, mask : SUBSET IRQ, isr : SUBSET IRQ],
             d.isr \subseteq {i}, d.mask = pic.mask
      PROVE  /\ pic_ack(d) \in [irr : SUBSET IRQ, mask : SUBSET IRQ, isr : SUBSET IRQ]
             /\ pic_ack(d).isr = {} /\ pic_ack(d).mask = pic.mask
  <2>1. i \in Int
    BY DEF IRQ, IRQ_TIMER, IRQ_KEYBOARD
  <2>2. {j \in d.isr : \E k \in d.isr : k < j} = {}
    BY <1>2, <2>1
  <2>3. pic_ack(d) = [d EXCEPT !.isr = {}]
    BY <2>2 DEF pic_ack
  <2> QED BY <1>2, <2>3
<1>3. Accepted(i) \in [irr : SUBSET IRQ, mask : SUBSET IRQ, isr : SUBSET IRQ]
      /\ Accepted(i).isr \subseteq {i} /\ Accepted(i).mask = pic.mask
  BY <1>1 DEF Accepted
<1> QED BY <1>1, <1>2, <1>3

\* The switch to process p, from contexts that are right for every process.
LEMMA SwitchInv ==
    ASSUME MachineTypeOK, ServiceInv, StageInv,
           setup \in {"scheduler_switch", "user"}, setup' = "user",
           NEW p \in Processes, NEW cs, NEW c, SwitchTo(p, cs, c), DOMAIN cs = Processes,
           \A q \in Processes : Created(q) => Keeps(cs[q], UserRegisters(q, at[q])),
           NEW i \in IRQ, c = Accepted(i) \/ c = pic
    PROVE  MachineInv'
<1>1. /\ Created(p) /\ pic' = pic_ack(c) /\ cpu' = process_context_switch(cs[p])
      /\ context' = [cs EXCEPT ![p] = NotSaved] /\ running' = p
      /\ UNCHANGED <<gates, tss, at>>
  BY DEF SwitchTo
<1> DEFINE regs == UserRegisters(p, at[p])
<1>2. /\ regs = [r \in Register |-> regs[r]] /\ DOMAIN regs = Register
      /\ regs["cs"] = UserCode /\ regs["eflags"] = <<"eflags", TRUE>>
  BY UserWords
<1>3. Keeps(cs[p], regs)
  BY <1>1
<1> HIDE DEF regs
<1>4. Level(regs["cs"]) # 0
  BY <1>2, Levels
<1>5. cpu' = regs
  BY <1>1, <1>2, <1>3, <1>4, SwitchExact
<1>6. InterruptsOn' = TRUE
  <2>1. cpu'["eflags"] = <<"eflags", TRUE>>
    BY <1>2, <1>5
  <2>2. cpu'["eflags"][2] = TRUE
    BY <2>1, SecondWord
  <2> QED BY <2>2 DEF InterruptsOn
<1>7. /\ pic' \in [irr : SUBSET IRQ, mask : SUBSET IRQ, isr : SUBSET IRQ]
      /\ pic'.isr = {} /\ pic'.mask = pic.mask
  BY <1>1, Acknowledged
<1>8. MachineTypeOK'
  BY <1>1, <1>2, <1>5, <1>7 DEF MachineTypeOK
<1>9. ServiceInv'
  BY <1>7 DEF ServiceInv
<1>10. p # Nobody
  BY ProcessesAssumption
<1>11. StageInv'
  BY <1>1, <1>6, <1>7 DEF StageInv, Early
<1>12. RunningInv'
  BY <1>1, <1>10 DEF RunningInv, Created
<1>13. ContextInv'
  <2>1. SUFFICES ASSUME NEW q \in Processes, at'[q] # "none", q # p
                 PROVE  Keeps(context'[q], UserRegisters(q, at'[q]))
    BY <1>1 DEF ContextInv, Created
  <2>2. context'[q] = cs[q] /\ at'[q] = at[q]
    BY <1>1, <2>1
  <2> QED BY <2>1, <2>2 DEF Created
<1>14. ResumesExact'
  BY <1>1, <1>5, <1>10 DEF ResumesExact, regs
<1> QED BY <1>8, <1>9, <1>11, <1>12, <1>13, <1>14 DEF MachineInv

\* The switch at the end of kernel_setup.
LEMMA FirstSwitchInv ==
    ASSUME MachineInv, scheduler_switch_to_next_process PROVE MachineInv'
<1> USE DEF MachineInv
<1>1. setup = "scheduler_switch" /\ setup' = "user" /\ SwitchTo(First, context, pic)
  BY DEF scheduler_switch_to_next_process
<1>2. running = Nobody /\ First \in Processes /\ Nobody \notin Processes
  BY <1>1, ProcessesAssumption DEF RunningInv
<1>3. \A q \in Processes : Created(q) => Keeps(context[q], UserRegisters(q, at[q]))
  BY <1>2 DEF ContextInv
<1>4. DOMAIN context = Processes /\ IRQ_TIMER \in IRQ
  BY DEF MachineTypeOK, IRQ
<1> QED BY <1>1, <1>2, <1>3, <1>4, SwitchInv

\* A tick saves one process and resumes another, or the same.
LEMMA TimerInv ==
    ASSUME MachineInv, NEW p \in Processes, timer_isr(p) PROVE MachineInv'
<1> USE DEF MachineInv
<1> DEFINE f == Entered(PIC1_OFFSET + IRQ_TIMER)
           cs == [context EXCEPT ![running] = Saved(f)]
<1>1. /\ running # Nobody /\ setup' = setup
      /\ SwitchTo(p, cs, Accepted(IRQ_TIMER))
  BY DEF timer_isr
<1>2. running \in Processes /\ setup = "user" /\ DOMAIN context = Processes
  BY <1>1 DEF MachineTypeOK, RunningInv
<1>3. Keeps(Saved(f), cpu)
  BY <1>1, CpuFacts, SavedKeeps
<1>4. cpu = UserRegisters(running, at[running])
  BY <1>1 DEF ResumesExact
<1> HIDE DEF f
<1>5. \A q \in Processes : Created(q) => Keeps(cs[q], UserRegisters(q, at[q]))
  <2>1. SUFFICES ASSUME NEW q \in Processes, Created(q)
                 PROVE  Keeps(cs[q], UserRegisters(q, at[q]))
    OBVIOUS
  <2>2. CASE q = running
    <3>1. cs[q] = Saved(f)
      BY <1>2, <2>2
    <3> QED BY <1>3, <1>4, <2>2, <3>1
  <2>3. CASE q # running
    <3>1. cs[q] = context[q]
      BY <1>2, <2>3
    <3> QED BY <2>1, <2>3, <3>1 DEF ContextInv
  <2> QED BY <2>2, <2>3
<1>6. DOMAIN cs = Processes /\ IRQ_TIMER \in IRQ
  BY <1>2 DEF IRQ
<1> HIDE DEF cs
<1> QED BY <1>1, <1>2, <1>5, <1>6, SwitchInv

\* Steps that leave everything but the controller alone.
LEMMA OnlyPicInv ==
    ASSUME MachineInv, UNCHANGED <<setup, gates, tss, cpu, running, context, at>>,
           pic' \in [irr : SUBSET IRQ, mask : SUBSET IRQ, isr : SUBSET IRQ],
           pic'.isr = {}, pic'.mask = pic.mask
    PROVE  MachineInv'
<1> USE DEF MachineInv
<1>1. MachineTypeOK'
  BY DEF MachineTypeOK
<1>2. InterruptsOn' = InterruptsOn
  BY DEF InterruptsOn
<1>3. StageInv'
  BY <1>2 DEF StageInv
<1>4. RunningInv' /\ ServiceInv'
  BY DEF RunningInv, ServiceInv, Created
<1>5. ContextInv'
  BY ContextUnchanged
<1>6. ResumesExact'
  BY <1>2 DEF ResumesExact
<1> QED BY <1>1, <1>3, <1>4, <1>5, <1>6

LEMMA TickInv ==
    ASSUME MachineInv, Tick PROVE MachineInv'
<1>1. pic \in [irr : SUBSET IRQ, mask : SUBSET IRQ, isr : SUBSET IRQ] /\ pic.isr = {}
  BY DEF MachineInv, MachineTypeOK, ServiceInv
<1>2. pic' = [pic EXCEPT !.irr = @ \cup {IRQ_TIMER}]
  BY DEF Tick
<1>3. /\ pic' \in [irr : SUBSET IRQ, mask : SUBSET IRQ, isr : SUBSET IRQ]
      /\ pic'.isr = {} /\ pic'.mask = pic.mask
  BY <1>1, <1>2 DEF IRQ
<1> QED BY <1>3, OnlyPicInv DEF Tick

LEMMA StrikeInv ==
    ASSUME MachineInv, NEW k, Strike(k) PROVE MachineInv'
<1>1. pic \in [irr : SUBSET IRQ, mask : SUBSET IRQ, isr : SUBSET IRQ] /\ pic.isr = {}
  BY DEF MachineInv, MachineTypeOK, ServiceInv
<1>2. pic' = [pic EXCEPT !.irr = @ \cup {IRQ_KEYBOARD}]
  BY DEF Strike
<1>3. /\ pic' \in [irr : SUBSET IRQ, mask : SUBSET IRQ, isr : SUBSET IRQ]
      /\ pic'.isr = {} /\ pic'.mask = pic.mask
  BY <1>1, <1>2 DEF IRQ
<1> QED BY <1>3, OnlyPicInv DEF Strike

\* The keyboard handler returns to what it interrupted, be it kernel_setup.
LEMMA KeyboardInterruptInv ==
    ASSUME MachineInv, KeyboardInterrupt PROVE MachineInv'
<1>1. cpu' = Returned(Entered(PIC1_OFFSET + IRQ_KEYBOARD))
      /\ pic' = pic_ack(Accepted(IRQ_KEYBOARD))
      /\ UNCHANGED <<setup, gates, tss, running, context, at>>
  BY DEF KeyboardInterrupt
<1>2. cpu' = cpu
  BY <1>1, CpuFacts, ReturnedExact
<1>3. /\ pic' \in [irr : SUBSET IRQ, mask : SUBSET IRQ, isr : SUBSET IRQ]
      /\ pic'.isr = {} /\ pic'.mask = pic.mask
  BY <1>1, Acknowledged DEF MachineInv, IRQ
<1> QED BY <1>1, <1>2, <1>3, OnlyPicInv

\* A system call comes back with every register; the process goes on to place a.
LEMMA SystemCallExact ==
    ASSUME MachineInv, NEW p \in Processes, NEW a, SystemCall(p, a)
    PROVE  running = p /\ Created(p) /\ setup = "user" /\ cpu' = UserRegisters(p, a)
           /\ UNCHANGED <<setup, pic, gates, tss, running>>
<1> USE DEF MachineInv
<1> DEFINE g == Returned(Entered(SYSCALL))
<1>1. /\ running = p /\ UNCHANGED <<setup, pic, gates, tss, running>>
      /\ cpu' = [r \in Register |-> IF g[r] = UserRegisters(p, at[p])[r]
                                    THEN UserRegisters(p, a)[r] ELSE g[r]]
  BY DEF SystemCall
<1>2. running # Nobody
  BY <1>1, ProcessesAssumption
<1>3. g = cpu /\ cpu = UserRegisters(p, at[p])
  BY <1>1, <1>2, CpuFacts, ReturnedExact DEF ResumesExact
<1> HIDE DEF g
<1>4. cpu' = [r \in Register |-> UserRegisters(p, a)[r]]
  BY <1>1, <1>3
<1>5. cpu' = UserRegisters(p, a)
  BY <1>4, UserWords
<1> QED BY <1>1, <1>2, <1>5 DEF RunningInv

\* A system call that may create processes, each of which starts with the
\* context it was given.
LEMMA SystemCallInv ==
    ASSUME MachineInv, NEW p \in Processes, NEW a, a # "none", SystemCall(p, a),
           DOMAIN at' = Processes, DOMAIN context' = Processes, at'[p] = a,
           \A q \in Processes \ {p} :
               \/ at'[q] = at[q] /\ context'[q] = context[q]
               \/ at'[q] = "start" /\ context'[q] = NewContext(q)
    PROVE  MachineInv'
<1> USE DEF MachineInv
<1>1. running = p /\ Created(p) /\ setup = "user" /\ cpu' = UserRegisters(p, a)
      /\ UNCHANGED <<setup, pic, gates, tss, running>>
  BY SystemCallExact
<1>2. p # Nobody
  BY ProcessesAssumption
<1>3. DOMAIN cpu' = Register /\ cpu'["eflags"] = <<"eflags", TRUE>>
  BY <1>1, UserWords
<1>4. InterruptsOn' = TRUE
  <2>1. cpu'["eflags"][2] = TRUE
    BY <1>3, SecondWord
  <2> QED BY <2>1 DEF InterruptsOn
<1>5. MachineTypeOK'
  BY <1>1, <1>3 DEF MachineTypeOK
<1>6. StageInv'
  BY <1>1, <1>4 DEF StageInv, Early
<1>7. RunningInv' /\ ServiceInv'
  BY <1>1, <1>2 DEF RunningInv, ServiceInv, Created
<1>8. ContextInv'
  <2>1. SUFFICES ASSUME NEW q \in Processes, at'[q] # "none", q # p
                 PROVE  Keeps(context'[q], UserRegisters(q, at'[q]))
    BY <1>1 DEF ContextInv, Created
  <2>2. CASE at'[q] = at[q] /\ context'[q] = context[q]
    BY <1>1, <2>1, <2>2 DEF ContextInv, Created
  <2>3. CASE at'[q] = "start" /\ context'[q] = NewContext(q)
    BY <2>3, NewContextKeeps
  <2> QED BY <2>1, <2>2, <2>3
<1>9. ResumesExact'
  BY <1>1, <1>2 DEF ResumesExact
<1> QED BY <1>5, <1>6, <1>7, <1>8, <1>9

\* The invariant has what a handler finds when it is entered.
LEMMA InvSafe == MachineInv => SafeToInterrupt
<1>1. SUFFICES ASSUME MachineInv, NEW i \in IRQ, Deliverable(i)
               PROVE  gates /\ (UserMode => tss.tr /\ tss.esp0) /\ (i = IRQ_TIMER => UserMode)
  BY DEF SafeToInterrupt
<1> USE DEF MachineInv
<1>2. InterruptsOn /\ i \in pic.irr /\ i \notin pic.mask
  BY <1>1 DEF Deliverable
<1>3. gates /\ setup \notin Early /\ setup # "scheduler_switch"
  <2>1. StageInv
    BY <1>1
  <2> QED BY <1>2, <2>1 DEF StageInv, Early
<1>4. UserMode <=> setup = "user"
  <2>1. RunningInv /\ (UserMode <=> running # Nobody)
    BY <1>1, CpuFacts
  <2> QED BY <2>1 DEF RunningInv
<1>5. UserMode => tss.tr /\ tss.esp0
  BY <1>1, <1>4 DEF StageInv
<1>6. i = IRQ_TIMER => setup = "user"
  BY <1>1, <1>2, <1>3 DEF StageInv, Early
<1> QED BY <1>3, <1>4, <1>5, <1>6

-----------------------------------------------------------------------------
(* The machine *)

LEMMA GoesInv ==
    ASSUME MachineInv, NEW p \in Processes, NEW a, a # "none", Goes(p, a)
    PROVE  MachineInv'
<1>1. SystemCall(p, a) /\ at' = [at EXCEPT ![p] = a] /\ context' = context
  BY DEF Goes
<1>2. DOMAIN at = Processes /\ DOMAIN context = Processes
  BY DEF MachineInv, MachineTypeOK
<1>3. DOMAIN at' = Processes /\ at'[p] = a /\ \A q \in Processes \ {p} : at'[q] = at[q]
  BY <1>1, <1>2
<1> QED BY <1>1, <1>2, <1>3, SystemCallInv

LEMMA ExecInv ==
    ASSUME MachineInv, NEW p \in Processes, NEW q \in Processes, exec(p, q)
    PROVE  MachineInv'
<1>1. /\ SystemCall(p, "prompt") /\ ~ Created(q)
      /\ at' = [at EXCEPT ![p] = "prompt", ![q] = "start"]
      /\ context' = [context EXCEPT ![q] = NewContext(q)]
  BY DEF exec
<1>2. DOMAIN at = Processes /\ DOMAIN context = Processes
  BY DEF MachineInv, MachineTypeOK
<1>3. p # q
  BY <1>1, SystemCallExact
<1>4. /\ DOMAIN at' = Processes /\ DOMAIN context' = Processes /\ at'[p] = "prompt"
      /\ at'[q] = "start" /\ context'[q] = NewContext(q)
      /\ \A r \in Processes \ {p, q} : at'[r] = at[r] /\ context'[r] = context[r]
  BY <1>1, <1>2, <1>3
<1> QED BY <1>1, <1>4, SystemCallInv

\* The places a shell goes to, step by step.
LEMMA StepInv ==
    ASSUME MachineInv, NEW p \in Processes, Step(p)
    PROVE  MachineInv'
<1>1. (\E a \in Place \ {"none"} : Goes(p, a)) \/ \E q \in Processes : exec(p, q)
  BY DEF Step, start, print_template, getchar, echo, parse, command, Place
<1>2. CASE \E a \in Place \ {"none"} : Goes(p, a)
  BY <1>2, GoesInv
<1>3. CASE \E q \in Processes : exec(p, q)
  BY <1>3, ExecInv
<1> QED BY <1>1, <1>2, <1>3

LEMMA MachineNext ==
    MachineInv /\ [LineNext]_lineVars => MachineInv'
<1> SUFFICES ASSUME MachineInv, [LineNext]_lineVars PROVE MachineInv'
  OBVIOUS
<1>1. CASE KernelSetup
  BY <1>1, SetupInv, CreateInv, FirstSwitchInv DEF KernelSetup
<1>2. CASE Tick
  BY <1>2, TickInv
<1>3. CASE \E k \in Scancode : Strike(k)
  BY <1>3, StrikeInv
<1>4. CASE keyboard_isr
  BY <1>4, KeyboardInterruptInv DEF keyboard_isr
<1>5. CASE Timer
  BY <1>5, TimerInv DEF Timer
<1>6. CASE \E p \in Processes : Step(p)
  BY <1>6, StepInv
<1>7. CASE UNCHANGED lineVars
  <2>1. UNCHANGED <<setup, gates, tss, cpu, running, context, at>> /\ pic' = pic
    BY <1>7 DEF lineVars, machine
  <2> QED BY <2>1, OnlyPicInv DEF MachineInv, MachineTypeOK, ServiceInv
<1>8. CASE \E p \in Processes : Overrun(p)
  BY <1>7, <1>8 DEF Overrun
<1> QED BY <1>1, <1>2, <1>3, <1>4, <1>5, <1>6, <1>7, <1>8 DEF LineNext

\* The invariant of the machine holds in every reachable state, for any processes:
\* what kernel_setup has brought about when interrupts are on, what the controller
\* has in service, and what the PCB of each process that does not run keeps.
THEOREM MachineInvariance == LineSpec => []MachineInv
<1>1. LineInit => MachineInv
  BY MachineInitInv DEF LineInit
<1> QED BY <1>1, MachineNext, PTL DEF LineSpec

\* For any processes and any order of ticks, keys and system calls, the frames of
\* intsetup.s, the structures laid over them and process_context_switch give a
\* process back the registers it had.
THEOREM RegistersComeBack == LineSpec => []ResumesExact
<1>1. MachineInv => ResumesExact
  BY DEF MachineInv
<1> QED BY <1>1, MachineInvariance, PTL

\* No interrupt is accepted before its handler finds gates and, from user mode, a
\* stack; no tick is accepted before there is a process to save.
THEOREM InterruptsAreSafe == LineSpec => []SafeToInterrupt
BY InvSafe, MachineInvariance, PTL

-----------------------------------------------------------------------------
(* The keys *)

\* A request of the keyboard has a scancode, and nothing has been taken in before
\* the activation.
KeyInv ==
    /\ KeyboardTypeOK
    /\ IRQ_KEYBOARD \in pic.irr => port # Empty
    /\ ~ keyboard_input_on => keyboard_buffer = Nul /\ received = << >>
    /\ KeysInOrder

LEMMA WaitingFor ==
    /\ Waiting(Nul) = << >> /\ Waiting(Empty) = << >> /\ Waiting(Silent) = << >>
    /\ \A c \in Char : Waiting(c) = <<c>> /\ c \notin {Nul, Empty, Silent}
BY KeyAssumption DEF Waiting, Char, Nul, Empty, Silent, Space, Backspace, Newline

LEMMA SeqFacts ==
    ASSUME NEW S, NEW s \in Seq(S), NEW c \in S
    PROVE  s \o << >> = s /\ s \o <<c>> = Append(s, c)
OBVIOUS

\* The three places a character can be in, put together.
LEMMA InTransit ==
    ASSUME NEW s \in Seq(Char), NEW c \in Char, NEW d \in Char
    PROVE  /\ s \o Waiting(Nul) \o Waiting(Empty) = s
           /\ s \o Waiting(Nul) \o Waiting(Silent) = s
           /\ s \o Waiting(Nul) \o Waiting(c) = Append(s, c)
           /\ s \o Waiting(c) \o Waiting(Empty) = Append(s, c)
           /\ s \o Waiting(c) \o Waiting(Silent) = Append(s, c)
           /\ s \o Waiting(c) \o Waiting(d) = Append(Append(s, c), d)
<1>1. Append(s, c) \in Seq(Char)
  OBVIOUS
<1> QED BY <1>1, WaitingFor, SeqFacts

LEMMA StrikeKey ==
    ASSUME KeyInv, MachineTypeOK, NEW k \in Scancode, Strike(k) PROVE KeyInv'
<1> USE DEF KeyInv
<1>1. /\ port = Empty /\ (k # Silent => keys < MaxKeys) /\ port' = k
      /\ pic' = [pic EXCEPT !.irr = @ \cup {IRQ_KEYBOARD}]
      /\ keys' = IF k = Silent THEN keys ELSE keys + 1
      /\ struck' = IF k = Silent \/ hasty THEN struck ELSE Append(struck, k)
      /\ UNCHANGED <<keyboard_input_on, keyboard_buffer, hasty, received>>
  BY DEF Strike
<1>2. /\ keyboard_buffer \in Char \cup {Nul} /\ received \in Seq(Char) /\ struck \in Seq(Char)
      /\ keys \in 0 .. MaxKeys /\ MaxKeys \in Nat
  BY KeyAssumption DEF KeyboardTypeOK
<1>3. k # Empty /\ (k = Silent \/ k \in Char)
  <2>1. Silent # Empty
    BY DEF Silent, Empty
  <2> QED BY <2>1, WaitingFor DEF Scancode
<1>4. keys' \in 0 .. MaxKeys
  BY <1>1, <1>2
<1>5. struck' \in Seq(Char)
  BY <1>1, <1>2, <1>3
<1>6. KeyboardTypeOK'
  BY <1>1, <1>4, <1>5 DEF KeyboardTypeOK
<1>7. KeysInOrder'
  <2>1. SUFFICES ASSUME ~ hasty
                 PROVE  received \o Waiting(keyboard_buffer) \o Waiting(k) = struck'
    BY <1>1 DEF KeysInOrder
  <2>2. received \o Waiting(keyboard_buffer) \o Waiting(Empty) = struck
    BY <1>1, <2>1 DEF KeysInOrder
  <2>3. struck' = IF k = Silent THEN struck ELSE Append(struck, k)
    BY <1>1, <2>1
  <2>4. CASE keyboard_buffer = Nul /\ k = Silent
    BY <2>2, <2>3, <2>4, WaitingFor
  <2>5. CASE keyboard_buffer = Nul /\ k \in Char
    BY <1>2, <2>2, <2>3, <2>5, InTransit, WaitingFor
  <2>6. CASE keyboard_buffer \in Char /\ k = Silent
    BY <2>2, <2>3, <2>6, WaitingFor
  <2>7. CASE keyboard_buffer \in Char /\ k \in Char
    <3>1. struck' = Append(struck, k)
      BY <2>3, <2>7, WaitingFor
    <3>2. struck = Append(received, keyboard_buffer)
      BY <1>2, <2>2, <2>7, InTransit
    <3> QED BY <1>2, <2>7, <3>1, <3>2, InTransit
  <2> QED BY <1>2, <1>3, <2>4, <2>5, <2>6, <2>7
<1> QED BY <1>1, <1>3, <1>6, <1>7

LEMMA KeyboardIsrKey ==
    ASSUME KeyInv, MachineTypeOK, keyboard_isr PROVE KeyInv'
<1> USE DEF KeyInv
<1>1. /\ port' = Empty
      /\ keyboard_buffer' = IF keyboard_input_on
                            THEN keyboard_scancode_1_to_ascii_map(port) ELSE keyboard_buffer
      /\ hasty' = (hasty \/ (keyboard_input_on /\ keyboard_buffer # Nul))
      /\ struck' = IF hasty' \/ ~ keyboard_input_on THEN << >> ELSE struck
      /\ received' = IF hasty' THEN << >> ELSE received
      /\ UNCHANGED <<keyboard_input_on, keys>>
  BY DEF keyboard_isr
<1>2. pic' = pic_ack(Accepted(IRQ_KEYBOARD)) /\ IRQ_KEYBOARD \in pic.irr
  BY DEF keyboard_isr, KeyboardInterrupt, Deliverable
<1>3. IRQ_KEYBOARD \notin pic'.irr
  <2>1. pic \in [irr : SUBSET IRQ, mask : SUBSET IRQ, isr : SUBSET IRQ]
    BY DEF MachineTypeOK
  <2> QED BY <1>2, <2>1 DEF pic_ack, Accepted
<1>4. /\ keyboard_buffer \in Char \cup {Nul} /\ received \in Seq(Char) /\ struck \in Seq(Char)
      /\ port = Silent \/ port \in Char
  BY <1>2 DEF KeyboardTypeOK, Scancode
<1>5. /\ port = Silent => keyboard_scancode_1_to_ascii_map(port) = Nul
      /\ port \in Char => keyboard_scancode_1_to_ascii_map(port) = port
  BY WaitingFor DEF keyboard_scancode_1_to_ascii_map
<1>6. keyboard_buffer' \in Char \cup {Nul}
  BY <1>1, <1>4, <1>5
<1>7. hasty' \in BOOLEAN /\ keyboard_input_on' \in BOOLEAN
  BY <1>1 DEF KeyboardTypeOK
<1>8. struck' \in Seq(Char) /\ received' \in Seq(Char) /\ keys' \in 0 .. MaxKeys
  BY <1>1, <1>4 DEF KeyboardTypeOK
<1>9. KeyboardTypeOK'
  BY <1>1, <1>6, <1>7, <1>8 DEF KeyboardTypeOK
<1>10. KeysInOrder'
  <2>1. SUFFICES ASSUME ~ hasty'
                 PROVE  received \o Waiting(keyboard_buffer') \o Waiting(Empty) = struck'
    BY <1>1 DEF KeysInOrder
  <2>2. CASE ~ keyboard_input_on
    <3>1. received = << >> /\ keyboard_buffer' = Nul /\ struck' = << >>
      BY <1>1, <2>2
    <3> QED BY <3>1, WaitingFor
  <2>3. CASE keyboard_input_on
    <3>1. /\ keyboard_buffer = Nul /\ struck' = struck
          /\ received \o Waiting(Nul) \o Waiting(port) = struck
      BY <1>1, <2>1, <2>3 DEF KeysInOrder
    <3>2. CASE port = Silent
      <4>1. keyboard_buffer' = Nul
        BY <1>1, <1>5, <2>3, <3>2
      <4> QED BY <1>4, <3>1, <3>2, <4>1, WaitingFor
    <3>3. CASE port \in Char
      <4>1. keyboard_buffer' = port
        BY <1>1, <1>5, <2>3, <3>3
      <4> QED BY <1>4, <3>1, <3>3, <4>1, InTransit
    <3> QED BY <1>4, <3>2, <3>3
  <2> QED BY <2>2, <2>3
<1>11. ~ keyboard_input_on' => keyboard_buffer' = Nul /\ received' = << >>
  BY <1>1
<1> QED BY <1>3, <1>9, <1>10, <1>11

LEMMA GetKey ==
    ASSUME KeyInv, get_keyboard_buffer, pic' = pic PROVE KeyInv'
<1> USE DEF KeyInv
<1>1. /\ keyboard_buffer' = Nul
      /\ received' = IF keyboard_buffer = Nul \/ hasty THEN received
                     ELSE Append(received, keyboard_buffer)
      /\ UNCHANGED <<port, keyboard_input_on, keys, hasty, struck>>
  BY DEF get_keyboard_buffer
<1>2. /\ keyboard_buffer \in Char \cup {Nul} /\ received \in Seq(Char) /\ struck \in Seq(Char)
      /\ port \in Char \cup {Silent, Empty}
  BY DEF KeyboardTypeOK, Scancode
<1>3. received' \in Seq(Char)
  BY <1>1, <1>2
<1>4. KeyboardTypeOK'
  BY <1>1, <1>3 DEF KeyboardTypeOK
<1>5. KeysInOrder'
  <2>1. SUFFICES ASSUME ~ hasty
                 PROVE  received' \o Waiting(Nul) \o Waiting(port) = struck
    BY <1>1 DEF KeysInOrder
  <2>2. received \o Waiting(keyboard_buffer) \o Waiting(port) = struck
    BY <2>1 DEF KeysInOrder
  <2>3. CASE keyboard_buffer = Nul
    BY <1>1, <2>2, <2>3
  <2>4. CASE keyboard_buffer \in Char
    <3>1. received' = Append(received, keyboard_buffer)
      BY <1>1, <2>1, <2>4, WaitingFor
    <3>2. received \o Waiting(keyboard_buffer) = received' \o Waiting(Nul)
      <4>1. received \o Waiting(keyboard_buffer) = received'
        BY <1>2, <2>4, <3>1, WaitingFor, SeqFacts
      <4>2. received' \o Waiting(Nul) = received'
        BY <1>3, <2>4, WaitingFor, SeqFacts
      <4> QED BY <4>1, <4>2
    <3> QED BY <2>2, <3>2
  <2> QED BY <1>2, <2>3, <2>4
<1> QED BY <1>1, <1>4, <1>5

\* Steps that do not touch the driver and request nothing of the keyboard.
LEMMA NoKey ==
    ASSUME KeyInv, UNCHANGED keyboard, IRQ_KEYBOARD \in pic'.irr => IRQ_KEYBOARD \in pic.irr
    PROVE  KeyInv'
BY DEF KeyInv, KeyboardTypeOK, KeysInOrder, keyboard

LEMMA ActivateKey ==
    ASSUME KeyInv, keyboard_state_activate, pic' = pic
    PROVE  KeyInv'
BY DEF KeyInv, KeyboardTypeOK, KeysInOrder, keyboard_state_activate

LEMMA KeyNext ==
    MachineInv /\ KeyInv /\ [LineNext]_lineVars => KeyInv'
<1> SUFFICES ASSUME MachineInv, KeyInv, [LineNext]_lineVars PROVE KeyInv'
  OBVIOUS
<1>0. /\ MachineTypeOK /\ pic \in [irr : SUBSET IRQ, mask : SUBSET IRQ, isr : SUBSET IRQ]
      /\ IRQ_TIMER # IRQ_KEYBOARD
  BY DEF MachineInv, MachineTypeOK, IRQ_TIMER, IRQ_KEYBOARD
<1>1. CASE KernelSetup /\ UNCHANGED <<keyboard, shell>>
  <2>1. \/ pic' = pic
        \/ pic' = [irr |-> {}, mask |-> IRQ, isr |-> {}]
        \/ pic' = [pic EXCEPT !.mask = @ \ {IRQ_KEYBOARD}]
        \/ pic' = [pic EXCEPT !.mask = @ \ {IRQ_TIMER}]
        \/ pic' = pic_ack(pic)
    BY <1>1 DEF KernelSetup, load_gdt, pic_remap, initialize_idt,
       activate_keyboard_interrupt, gdt_install_tss, set_tss_register,
       set_tss_kernel_current_stack, process_create_user_process, scheduler_init,
       scheduler_switch_to_next_process, SwitchTo
  <2>2. pic'.irr \subseteq pic.irr
    BY <1>0, <2>1 DEF pic_ack
  <2> QED BY <1>1, <2>2, NoKey
<1>2. CASE Tick /\ UNCHANGED <<keyboard, shell>>
  <2>1. IRQ_KEYBOARD \in pic'.irr => IRQ_KEYBOARD \in pic.irr
    BY <1>0, <1>2 DEF Tick
  <2> QED BY <1>2, <2>1, NoKey
<1>3. CASE \E k \in Scancode : Strike(k)
  BY <1>0, <1>3, StrikeKey
<1>4. CASE keyboard_isr
  BY <1>0, <1>4, KeyboardIsrKey
<1>5. CASE Timer
  <2>1. pic'.irr \subseteq pic.irr
    BY <1>0, <1>5 DEF Timer, timer_isr, SwitchTo, pic_ack, Accepted
  <2> QED BY <1>5, <2>1, NoKey DEF Timer
<1>6. CASE \E p \in Processes : Step(p)
  <2>1. pic' = pic
    BY <1>6 DEF Step, start, print_template, getchar, echo, parse, command, exec, Goes,
                SystemCall
  <2>2. keyboard_state_activate \/ get_keyboard_buffer \/ UNCHANGED keyboard
    BY <1>6 DEF Step, start, print_template, getchar, echo, parse, command, exec
  <2> QED BY <2>1, <2>2, ActivateKey, GetKey, NoKey
<1>7. CASE UNCHANGED lineVars
  BY <1>7, NoKey DEF lineVars, machine
<1>8. CASE \E p \in Processes : Overrun(p)
  BY <1>7, <1>8 DEF Overrun
<1> QED BY <1>1, <1>2, <1>3, <1>4, <1>5, <1>6, <1>7, <1>8 DEF LineNext

LEMMA KeyInitInv == LineInit => KeyInv
<1> SUFFICES ASSUME LineInit PROVE KeyInv
  OBVIOUS
<1>1. /\ port = Empty /\ keyboard_input_on = FALSE /\ keyboard_buffer = Nul /\ keys = 0
      /\ hasty = FALSE /\ struck = << >> /\ received = << >> /\ pic.irr = {}
  BY DEF LineInit, KeyboardInit, MachineInit
<1>2. KeyboardTypeOK
  <2>1. << >> \in Seq(Char) /\ 0 \in 0 .. MaxKeys
    BY KeyAssumption
  <2> QED BY <1>1, <2>1 DEF KeyboardTypeOK
<1>3. KeysInOrder
  BY <1>1, WaitingFor DEF KeysInOrder
<1> QED BY <1>1, <1>2, <1>3 DEF KeyInv

\* The invariant of the machine and of the keyboard driver.
THEOREM KeyInvariance == LineSpec => [](MachineInv /\ KeyInv)
<1>1. LineInit => MachineInv /\ KeyInv
  BY MachineInitInv, KeyInitInv DEF LineInit
<1> QED BY <1>1, MachineNext, KeyNext, PTL DEF LineSpec

\* However many processes poll, and however long the input: until a scancode comes
\* before the character ahead of it is taken, no key is lost, doubled or overtaken.
THEOREM KeysArriveInOrder == LineSpec => []KeysInOrder
<1>1. KeyInv => KeysInOrder
  BY DEF KeyInv
<1> QED BY <1>1, KeyInvariance, PTL

-----------------------------------------------------------------------------
(* Induction over an interval, with the induction hypothesis as a set *)

LEMMA IntervalInduction ==
    ASSUME NEW n \in Nat, NEW S, 0 \in S, \A k \in 0 .. n - 1 : k \in S => k + 1 \in S
    PROVE  \A k \in 0 .. n : k \in S
<1> DEFINE B == {k \in 0 .. n : k \notin S}
<1>1. SUFFICES ASSUME B # {} PROVE FALSE
  OBVIOUS
<1>2. B \subseteq Nat
  OBVIOUS
<1> HIDE DEF B
<1>3. \E x \in B : \A y \in B : ~ (<<y, x>> \in {ss \in Nat \X Nat : ss[1] < ss[2]})
  <2>1. IsWellFoundedOn({ss \in Nat \X Nat : ss[1] < ss[2]}, Nat)
    BY NatLessThanWellFounded, Zenon DEF OpToRel
  <2> QED BY <1>1, <1>2, <2>1, WFMin, Zenon
<1>4. PICK x \in B : \A y \in B : ~ (<<y, x>> \in {ss \in Nat \X Nat : ss[1] < ss[2]})
  BY <1>3
<1>5. \A y \in B : ~ (y < x)
  BY <1>2, <1>4
<1>6. x \in 1 .. n /\ x \notin S
  BY DEF B
<1>7. x - 1 \in S
  BY <1>5, <1>6 DEF B
<1> QED BY <1>6, <1>7

\* A step function F from a has its run of n steps.
Runs(e, n, a, F) ==
    /\ e[0] = a
    /\ \A k \in 1 .. n : e[k] = F[<<k, e[k - 1]>>]

LEMMA RunExists ==
    ASSUME NEW n \in Nat, NEW S, NEW a \in S, NEW F \in [(1 .. n) \X S -> S]
    PROVE  \E e \in [0 .. n -> S] : Runs(e, n, a, F)
<1> DEFINE G == {k \in 0 .. n : \E e \in [0 .. k -> S] : Runs(e, k, a, F)}
<1>1. 0 \in G
  <2> DEFINE e == [k \in 0 .. 0 |-> a]
  <2>1. e \in [0 .. 0 -> S] /\ e[0] = a
    OBVIOUS
  <2>2. Runs(e, 0, a, F)
    BY <2>1 DEF Runs
  <2> QED BY <2>1, <2>2
<1>2. ASSUME NEW k \in 0 .. n - 1, k \in G PROVE k + 1 \in G
  <2>1. PICK e \in [0 .. k -> S] : Runs(e, k, a, F)
    BY <1>2
  <2> DEFINE h == [j \in 0 .. k + 1 |-> IF j = k + 1 THEN F[<<k + 1, e[k]>>] ELSE e[j]]
  <2>2. k + 1 \in 1 .. n /\ e[k] \in S
    OBVIOUS
  <2>3. F[<<k + 1, e[k]>>] \in S
    BY <2>2
  <2>4. h \in [0 .. k + 1 -> S]
    BY <2>3
  <2>5. \A j \in 0 .. k : h[j] = e[j]
    OBVIOUS
  <2>6. h[k + 1] = F[<<k + 1, e[k]>>]
    OBVIOUS
  <2> HIDE DEF h
  <2>7. h[0] = a
    BY <2>1, <2>5 DEF Runs
  <2>8. ASSUME NEW j \in 1 .. k + 1 PROVE h[j] = F[<<j, h[j - 1]>>]
    <3>1. CASE j = k + 1
      BY <2>5, <2>6, <3>1
    <3>2. CASE j # k + 1
      <4>1. j \in 1 .. k /\ j - 1 \in 0 .. k
        BY <3>2
      <4> QED BY <2>1, <2>5, <4>1 DEF Runs
    <3> QED BY <3>1, <3>2
  <2>9. Runs(h, k + 1, a, F)
    BY <2>7, <2>8 DEF Runs
  <2> QED BY <2>2, <2>4, <2>9
<1> HIDE DEF G
<1>3. n \in G
  BY <1>1, <1>2, IntervalInduction
<1> QED BY <1>3 DEF G

-----------------------------------------------------------------------------
(* The line an editor would have *)

LEMMA KeyedType ==
    ASSUME NEW line \in Seq(Char), NEW c \in Char PROVE Keyed(line, c) \in Seq(Char)
BY DEF Keyed

\* e holds what an editor has made of the first k of the characters cs.
EditRun(e, cs) ==
    /\ e \in [0 .. Len(cs) -> Seq(Char)]
    /\ e[0] = << >>
    /\ \A k \in 1 .. Len(cs) : e[k] = Keyed(e[k - 1], cs[k])

LEMMA EditedSteps ==
    ASSUME NEW cs \in Seq(Char)
    PROVE  \E e : EditRun(e, cs) /\ Edited(cs) = e[Len(cs)]
<1> DEFINE n == Len(cs)
           R(e) == e = [k \in 0 .. n |-> IF k = 0 THEN << >> ELSE Keyed(e[k - 1], cs[k])]
           d == CHOOSE e : R(e)
           F == [x \in (1 .. n) \X Seq(Char) |-> Keyed(x[2], cs[x[1]])]
<1>1. Edited(cs) = d[n]
  BY DEF Edited
<1>2. n \in Nat /\ << >> \in Seq(Char) /\ \A k \in 1 .. n : cs[k] \in Char
  OBVIOUS
<1> HIDE DEF n
<1>3. F \in [(1 .. n) \X Seq(Char) -> Seq(Char)]
  BY <1>2, KeyedType
<1>4. \A k \in 1 .. n : \A s \in Seq(Char) : F[<<k, s>>] = Keyed(s, cs[k])
  OBVIOUS
<1> HIDE DEF F
<1>5. PICK e \in [0 .. n -> Seq(Char)] : Runs(e, n, << >>, F)
  BY <1>2, <1>3, RunExists
<1>6. e[0] = << >> /\ \A k \in 1 .. n : e[k] = Keyed(e[k - 1], cs[k])
  <2>1. SUFFICES ASSUME NEW k \in 1 .. n PROVE e[k] = Keyed(e[k - 1], cs[k])
    BY <1>5 DEF Runs
  <2>2. e[k - 1] \in Seq(Char)
    BY <1>2
  <2> QED BY <1>4, <1>5, <2>2 DEF Runs
<1>7. R(e)
  BY <1>2, <1>5, <1>6
<1>8. R(d)
  BY <1>7
<1> HIDE DEF d
<1>9. d[0] = << >> /\ \A k \in 1 .. n : d[k] = Keyed(d[k - 1], cs[k])
  BY <1>2, <1>8
<1>10. DOMAIN d = 0 .. n /\ d = [k \in 0 .. n |-> d[k]]
  BY <1>8
<1> DEFINE S == {k \in 0 .. n : d[k] \in Seq(Char)}
<1>11. 0 \in S
  <2>1. d[0] \in Seq(Char)
    BY <1>2, <1>9, Zenon
  <2> QED BY <1>2, <2>1
<1>12. ASSUME NEW k \in 0 .. n - 1, k \in S PROVE k + 1 \in S
  <2>1. k + 1 \in 1 .. n /\ (k + 1) - 1 = k
    BY <1>2
  <2>2. d[k + 1] = Keyed(d[k], cs[k + 1])
    BY <1>9, <2>1
  <2>3. d[k] \in Seq(Char) /\ cs[k + 1] \in Char
    BY <1>2, <1>12, <2>1
  <2>4. d[k + 1] \in Seq(Char)
    BY <2>2, <2>3, KeyedType, Zenon
  <2> QED BY <2>1, <2>4
<1> HIDE DEF S
<1>13. \A k \in 0 .. n : k \in S
  BY <1>2, <1>11, <1>12, IntervalInduction
<1>14. EditRun(d, cs)
  BY <1>9, <1>10, <1>13 DEF EditRun, S, n
<1> QED BY <1>1, <1>14 DEF n

\* Two runs agree as far as their characters do.
LEMMA EditRunsAgree ==
    ASSUME NEW cs \in Seq(Char), NEW ds \in Seq(Char), Len(cs) <= Len(ds),
           \A k \in 1 .. Len(cs) : cs[k] = ds[k],
           NEW e, EditRun(e, cs), NEW f, EditRun(f, ds)
    PROVE  e[Len(cs)] = f[Len(cs)]
<1> DEFINE n == Len(cs)
           S == {k \in 0 .. n : e[k] = f[k]}
<1>1. n \in Nat /\ Len(ds) \in Nat
  OBVIOUS
<1>2. 0 \in S
  BY DEF EditRun
<1>3. ASSUME NEW k \in 0 .. n - 1, k \in S PROVE k + 1 \in S
  <2>1. k + 1 \in 1 .. n /\ k + 1 \in 1 .. Len(ds) /\ (k + 1) - 1 = k /\ k + 1 \in 0 .. n
    BY <1>1
  <2>2. e[k + 1] = Keyed(e[k], cs[k + 1]) /\ f[k + 1] = Keyed(f[k], ds[k + 1])
    BY <2>1 DEF EditRun
  <2> QED BY <1>3, <2>1, <2>2
<1> HIDE DEF S, n
<1>4. \A k \in 0 .. n : k \in S
  BY <1>1, <1>2, <1>3, IntervalInduction
<1>5. n \in S
  BY <1>1, <1>4
<1> QED BY <1>5 DEF S, n

\* One more character is one more key for the editor.
LEMMA EditedAppend ==
    ASSUME NEW cs \in Seq(Char), NEW c \in Char
    PROVE  Edited(Append(cs, c)) = Keyed(Edited(cs), c)
<1> DEFINE ds == Append(cs, c)
           n == Len(cs)
<1>1. /\ ds \in Seq(Char) /\ Len(ds) = n + 1 /\ n \in Nat /\ ds[n + 1] = c
      /\ \A k \in 1 .. n : cs[k] = ds[k]
  OBVIOUS
<1> HIDE DEF ds
<1>2. PICK e : EditRun(e, cs) /\ Edited(cs) = e[n]
  BY EditedSteps
<1>3. PICK f : EditRun(f, ds) /\ Edited(ds) = f[n + 1]
  BY <1>1, EditedSteps
<1>4. e[n] = f[n]
  BY <1>1, <1>2, <1>3, EditRunsAgree
<1>5. f[n + 1] = Keyed(f[n], c)
  BY <1>1, <1>3 DEF EditRun
<1> QED BY <1>2, <1>3, <1>4, <1>5 DEF ds

LEMMA EditedEmpty == Edited(<< >>) = << >>
<1>1. << >> \in Seq(Char) /\ Len(<< >>) = 0
  OBVIOUS
<1>2. PICK e : EditRun(e, << >>) /\ Edited(<< >>) = e[0]
  BY <1>1, EditedSteps
<1> QED BY <1>2 DEF EditRun

LEMMA EditedType ==
    ASSUME NEW cs \in Seq(Char) PROVE Edited(cs) \in Seq(Char)
<1>1. PICK e : EditRun(e, cs) /\ Edited(cs) = e[Len(cs)]
  BY EditedSteps
<1> QED BY <1>1 DEF EditRun

-----------------------------------------------------------------------------
(* The memory of a shell, and what the parser makes of it *)

Arguments == [0 .. MaxArgs - 1 -> Seq(Char \cup {Nul})]

Memory ==
    [buf : Char \cup {Nul}, info : Info, len : 0 .. LineBytes, name : 0 .. LineBytes,
     args : Arguments, neff : 0 .. LineBytes, row : Nat, col : 0 .. VGA_WIDTH - 1,
     cells : [Cell -> Char], taken : Seq(Char)]

LEMMA Sizes ==
    /\ LineBytes \in Nat /\ LineBytes > 0 /\ MaxArgs \in Nat /\ MaxArgs > 0
    /\ ArgBytes \in Nat /\ VGA_WIDTH \in Nat /\ VGA_WIDTH > 4 /\ PromptCol = 3
BY LineAssumption DEF PromptCol

LEMMA LeastPlace ==
    ASSUME NEW S, S \subseteq Nat, S # {}
    PROVE  \E x \in S : \A y \in S : x <= y
<1>1. \E x \in S : \A y \in S : ~ (<<y, x>> \in {ss \in Nat \X Nat : ss[1] < ss[2]})
  <2>1. IsWellFoundedOn({ss \in Nat \X Nat : ss[1] < ss[2]}, Nat)
    BY NatLessThanWellFounded, Zenon DEF OpToRel
  <2> QED BY <2>1, WFMin, Zenon
<1>2. PICK x \in S : \A y \in S : ~ (<<y, x>> \in {ss \in Nat \X Nat : ss[1] < ss[2]})
  BY <1>1
<1>3. \A y \in S : ~ (y < x)
  BY <1>2
<1> QED BY <1>3

\* The scans of the parser stop at the first hit, or at the end of the line.
LEMMA FirstFromPlace ==
    ASSUME NEW s \in Memory, NEW i \in 0 .. s.len, NEW C, NEW f, f = FirstFrom(s, i, C)
    PROVE  /\ f \in i .. s.len
           /\ f < s.len => s.info[f] \in C
           /\ \A j \in i .. f - 1 : s.info[j] \notin C
<1>1. s.len \in Nat /\ i \in Nat
  BY Sizes DEF Memory
<1> DEFINE hits == {j \in i .. s.len - 1 : s.info[j] \in C}
<1>2. f = IF hits = {} THEN s.len ELSE CHOOSE j \in hits : \A k \in hits : j <= k
  BY DEF FirstFrom
<1>3. hits \subseteq Nat /\ hits \subseteq i .. s.len - 1
  BY <1>1
<1>4. \A j \in i .. s.len - 1 : j \in hits <=> s.info[j] \in C
  OBVIOUS
<1> HIDE DEF hits
<1>5. CASE hits = {}
  <2>1. f = s.len
    BY <1>2, <1>5
  <2> QED BY <1>1, <1>4, <1>5, <2>1
<1>6. CASE hits # {}
  <2>1. f \in hits /\ \A k \in hits : f <= k
    BY <1>2, <1>3, <1>6, LeastPlace
  <2>2. f \in i .. s.len - 1
    BY <1>3, <2>1
  <2>3. \A j \in i .. f - 1 : s.info[j] \notin C
    BY <1>1, <1>4, <2>1, <2>2
  <2> QED BY <1>1, <1>4, <2>1, <2>2, <2>3
<1> QED BY <1>5, <1>6

\* The loop variables of get_command: no more arguments than characters passed.
Loop(s) ==
    {w \in [i : 0 .. s.len, first : -1 .. s.len, neff : 0 .. s.len, args : Arguments,
            over : BOOLEAN] : w.neff <= w.i}

LEMMA RoundType ==
    ASSUME NEW s \in Memory, NEW w \in Loop(s), w.i < s.len
    PROVE  Round(s, w) \in Loop(s)
<1> DEFINE gap == FirstFrom(s, w.i, {Space})
           begin == FirstFrom(s, gap, NotSpace)
           end == FirstFrom(s, begin, {Space})
           word == [k \in 1 .. end - begin |-> s.info[begin + k - 1]]
           fits == w.neff < MaxArgs /\ Len(word) <= ArgBytes
           r == Round(s, w)
<1>1. /\ s.len \in 0 .. LineBytes /\ s.info \in [0 .. LineBytes - 1 -> Char \cup {Nul}]
      /\ LineBytes \in Nat /\ s.len \in Nat
  BY Sizes DEF Memory, Info
<1>2. /\ w.i \in 0 .. s.len /\ w.first \in -1 .. s.len /\ w.neff \in 0 .. s.len
      /\ w.args \in Arguments /\ w.neff <= w.i
  BY DEF Loop
<1>3. gap \in w.i .. s.len /\ (gap < s.len => s.info[gap] = Space)
  BY <1>2, FirstFromPlace
<1>4. gap \in 0 .. s.len
  BY <1>1, <1>2, <1>3
<1> HIDE DEF gap
<1>5. begin \in gap .. s.len /\ (begin < s.len => s.info[begin] \in NotSpace)
  BY <1>4, FirstFromPlace
<1>6. begin \in 0 .. s.len
  BY <1>1, <1>4, <1>5
<1>7. gap < s.len => gap < begin
  <2>1. SUFFICES ASSUME gap < s.len, ~ (gap < begin) PROVE FALSE
    OBVIOUS
  <2>2. begin = gap
    BY <1>1, <1>4, <1>5, <2>1
  <2> QED BY <1>3, <1>5, <2>1, <2>2 DEF NotSpace
<1> HIDE DEF begin
<1>8. end \in begin .. s.len
  BY <1>6, FirstFromPlace
<1> HIDE DEF end
<1>9. word \in Seq(Char \cup {Nul})
  <2>1. end - begin \in Nat
    BY <1>1, <1>6, <1>8
  <2>2. \A k \in 1 .. end - begin : s.info[begin + k - 1] \in Char \cup {Nul}
    BY <1>1, <1>6, <1>8
  <2>3. word \in [1 .. end - begin -> Char \cup {Nul}]
    BY <2>2
  <2> HIDE DEF word
  <2> QED BY <2>1, <2>3, SeqDef
<1>10. /\ r = [i |-> end,
               first |-> IF w.first = -1 /\ gap < s.len THEN gap ELSE w.first,
               neff |-> IF gap < s.len THEN w.neff + 1 ELSE w.neff,
               args |-> IF fits /\ word # << >> THEN [w.args EXCEPT ![w.neff] = word]
                        ELSE w.args,
               over |-> word # << >> /\ ~ fits]
  BY Zenon DEF Round, gap, begin, end
<1> HIDE DEF word
<1>11. fits => w.neff \in 0 .. MaxArgs - 1
  BY <1>2, Sizes
<1> HIDE DEF fits
<1>12. [w.args EXCEPT ![w.neff] = word] \in Arguments
  BY <1>2, <1>9 DEF Arguments
<1>13. (IF fits /\ word # << >> THEN [w.args EXCEPT ![w.neff] = word] ELSE w.args) \in Arguments
  BY <1>2, <1>12
<1>14. end \in 0 .. s.len
  BY <1>1, <1>6, <1>8
<1>15. (IF w.first = -1 /\ gap < s.len THEN gap ELSE w.first) \in -1 .. s.len
  BY <1>1, <1>2, <1>4
<1>16. /\ (IF gap < s.len THEN w.neff + 1 ELSE w.neff) \in 0 .. s.len
       /\ (IF gap < s.len THEN w.neff + 1 ELSE w.neff) <= end
  BY <1>1, <1>2, <1>3, <1>4, <1>5, <1>6, <1>7, <1>8, <1>14
<1>17. r \in [i : 0 .. s.len, first : -1 .. s.len, neff : 0 .. s.len, args : Arguments,
              over : BOOLEAN]
  BY <1>10, <1>13, <1>14, <1>15, <1>16
<1>18. r.neff <= r.i
  BY <1>10, <1>16
<1> HIDE DEF r
<1>19. r \in Loop(s)
  BY <1>17, <1>18 DEF Loop
<1> QED BY <1>19 DEF r

\* What the loop of get_command goes through, a round at a time.
LoopRun(s, e) ==
    /\ e \in [0 .. LineBytes -> Loop(s)]
    /\ e[0] = Start
    /\ \A k \in 1 .. LineBytes :
          e[k] = IF e[k - 1].i >= s.len \/ e[k - 1].over THEN e[k - 1] ELSE Round(s, e[k - 1])

LEMMA ParsedRun ==
    ASSUME NEW s \in Memory PROVE \E e : LoopRun(s, e) /\ Parsed(s) = e[LineBytes]
<1> DEFINE B(x) == IF x.i >= s.len \/ x.over THEN x ELSE Round(s, x)
           R(e) == e = [k \in 0 .. LineBytes |->
                          IF k = 0 THEN Start
                          ELSE IF e[k - 1].i >= s.len \/ e[k - 1].over THEN e[k - 1]
                          ELSE Round(s, e[k - 1])]
           d == CHOOSE e : R(e)
           F == [x \in (1 .. LineBytes) \X Loop(s) |-> B(x[2])]
<1>1. Parsed(s) = d[LineBytes]
  BY DEF Parsed
<1>2. LineBytes \in Nat
  BY Sizes
<1>3. Start \in Loop(s)
  <2>1. s.len \in Nat
    BY Sizes DEF Memory
  <2>2. NoArgs \in Arguments
    <3>1. << >> \in Seq(Char \cup {Nul})
      OBVIOUS
    <3> QED BY <3>1 DEF NoArgs, Arguments
  <2>3. Start.neff <= Start.i
    BY DEF Start
  <2>4. Start \in [i : 0 .. s.len, first : -1 .. s.len, neff : 0 .. s.len, args : Arguments,
                   over : BOOLEAN]
    BY <2>1, <2>2 DEF Start
  <2> QED BY <2>3, <2>4 DEF Loop
<1>4. \A x \in Loop(s) : B(x) \in Loop(s)
  <2>1. SUFFICES ASSUME NEW x \in Loop(s), ~ (x.i >= s.len) PROVE Round(s, x) \in Loop(s)
    OBVIOUS
  <2>2. x.i < s.len
    BY <2>1, Sizes DEF Loop, Memory
  <2> QED BY <2>2, RoundType
<1> HIDE DEF B
<1>5. F \in [(1 .. LineBytes) \X Loop(s) -> Loop(s)]
  BY <1>4
<1>6. \A k \in 1 .. LineBytes : \A x \in Loop(s) : F[<<k, x>>] = B(x)
  OBVIOUS
<1> HIDE DEF F
<1>7. PICK e \in [0 .. LineBytes -> Loop(s)] : Runs(e, LineBytes, Start, F)
  BY <1>2, <1>3, <1>5, RunExists
<1>8. e[0] = Start /\ \A k \in 1 .. LineBytes : e[k] = B(e[k - 1])
  <2>1. SUFFICES ASSUME NEW k \in 1 .. LineBytes PROVE e[k] = B(e[k - 1])
    BY <1>7 DEF Runs
  <2>2. e[k - 1] \in Loop(s)
    BY <1>2
  <2> QED BY <1>6, <1>7, <2>2 DEF Runs
<1>9. R(e)
  BY <1>2, <1>7, <1>8 DEF B
<1>10. R(d)
  BY <1>9
<1> HIDE DEF d
<1>11. d[0] = Start /\ \A k \in 1 .. LineBytes : d[k] = B(d[k - 1])
  BY <1>2, <1>10 DEF B
<1> HIDE DEF R
<1> DEFINE S == {k \in 0 .. LineBytes : d[k] \in Loop(s)}
<1>12. 0 \in S
  BY <1>2, <1>3, <1>11
<1>13. ASSUME NEW k \in 0 .. LineBytes - 1, k \in S PROVE k + 1 \in S
  <2>1. k + 1 \in 1 .. LineBytes /\ k + 1 \in 0 .. LineBytes /\ (k + 1) - 1 = k
    BY <1>2
  <2>2. d[k + 1] = B(d[k]) /\ d[k] \in Loop(s)
    BY <1>11, <1>13, <2>1
  <2>3. d[k + 1] \in Loop(s)
    BY <1>4, <2>2
  <2> QED BY <2>1, <2>3
<1> HIDE DEF S
<1>14. \A k \in 0 .. LineBytes : k \in S
  BY <1>2, <1>12, <1>13, IntervalInduction
<1>15. DOMAIN d = 0 .. LineBytes /\ d = [k \in 0 .. LineBytes |-> d[k]]
  BY <1>10 DEF R
<1>16. d \in [0 .. LineBytes -> Loop(s)]
  BY <1>14, <1>15 DEF S
<1>17. LoopRun(s, d)
  BY <1>11, <1>16 DEF LoopRun, B
<1> QED BY <1>1, <1>17

\* What get_command ends with.
LEMMA ParsedType ==
    ASSUME NEW s \in Memory PROVE Parsed(s) \in Loop(s)
BY ParsedRun, Sizes DEF LoopRun

-----------------------------------------------------------------------------
(* The echo and the line *)

\* The cursor and the cells after backspace.
LEMMA EchoBackspace ==
    ASSUME NEW s \in Memory, NEW t, t = handle_keyboard_input(s, Backspace)
    PROVE  /\ t = [s EXCEPT !.cells = t.cells, !.col = t.col]
           /\ t.col = IF s.col > PromptCol THEN s.col - 1 ELSE s.col
           /\ t.cells = [s.cells EXCEPT ![s.row * VGA_WIDTH + t.col] = Space]
<1>1. CASE s.col > PromptCol
  <2>1. t = [s EXCEPT !.col = s.col - 1,
                      !.cells = [s.cells EXCEPT ![s.row * VGA_WIDTH + (s.col - 1)] = Space]]
    BY <1>1 DEF handle_keyboard_input, move_text_cursor, Memory
  <2> QED BY <1>1, <2>1 DEF Memory
<1>2. CASE ~ (s.col > PromptCol)
  <2>1. t = [s EXCEPT !.cells = [s.cells EXCEPT ![s.row * VGA_WIDTH + s.col] = Space]]
    BY <1>2 DEF handle_keyboard_input, move_text_cursor, Memory
  <2> QED BY <1>2, <2>1 DEF Memory
<1> QED BY <1>1, <1>2

\* The cursor and the cells after any other character.
Put(s, c, t) ==
    /\ t = [s EXCEPT !.cells = t.cells, !.row = t.row, !.col = t.col]
    /\ t.row = IF s.col >= VGA_WIDTH - 1 THEN s.row + 1 ELSE s.row
    /\ t.col = IF s.col >= VGA_WIDTH - 1 THEN 0 ELSE s.col + 1
    /\ t.cells = [[s.cells EXCEPT ![s.row * VGA_WIDTH + s.col] = c]
                     EXCEPT ![t.row * VGA_WIDTH + t.col] = Space]

LEMMA EchoCharacter ==
    ASSUME NEW s \in Memory, NEW c \in Char, c # Backspace,
           NEW t, t = handle_keyboard_input(s, c)
    PROVE  Put(s, c, t)
<1> DEFINE put == [s.cells EXCEPT ![s.row * VGA_WIDTH + s.col] = c]
<1>1. CASE s.col >= VGA_WIDTH - 1
  <2>1. t = [s EXCEPT !.row = s.row + 1, !.col = 0,
                      !.cells = [put EXCEPT ![(s.row + 1) * VGA_WIDTH + 0] = Space]]
    <3>1. putchar(s, c) = [s EXCEPT !.cells = put, !.row = s.row + 1, !.col = -1]
      BY <1>1 DEF putchar, Memory
    <3> HIDE DEF put
    <3>2. t = move_text_cursor([putchar(s, c) EXCEPT !.col = @ + 1])
      BY DEF handle_keyboard_input
    <3>3. [putchar(s, c) EXCEPT !.col = @ + 1] = [s EXCEPT !.cells = put, !.row = s.row + 1, !.col = 0]
      <4>1. putchar(s, c).col = -1
        BY <3>1 DEF Memory
      <4>2. putchar(s, c).col + 1 = 0
        BY <4>1
      <4>3. [putchar(s, c) EXCEPT !.col = @ + 1] = [putchar(s, c) EXCEPT !.col = 0]
        BY <4>2
      <4> QED BY <3>1, <4>3 DEF Memory
    <3> QED BY <3>2, <3>3 DEF move_text_cursor, Memory
  <2> HIDE DEF put
  <2>2. t.row = s.row + 1 /\ t.col = 0 /\ t.cells = [put EXCEPT ![(s.row + 1) * VGA_WIDTH + 0] = Space]
    BY <2>1 DEF Memory
  <2>3. t = [s EXCEPT !.cells = t.cells, !.row = t.row, !.col = t.col]
    BY <2>1, <2>2 DEF Memory
  <2> QED BY <1>1, <2>2, <2>3 DEF put, Put
<1>2. CASE ~ (s.col >= VGA_WIDTH - 1)
  <2>1. t = [s EXCEPT !.col = s.col + 1,
                      !.cells = [put EXCEPT ![s.row * VGA_WIDTH + (s.col + 1)] = Space]]
    BY <1>2 DEF handle_keyboard_input, putchar, move_text_cursor, Memory
  <2> HIDE DEF put
  <2>2. t.row = s.row /\ t.col = s.col + 1 /\ t.cells = [put EXCEPT ![s.row * VGA_WIDTH + (s.col + 1)] = Space]
    BY <2>1 DEF Memory
  <2>3. t = [s EXCEPT !.cells = t.cells, !.row = t.row, !.col = t.col]
    BY <2>1, <2>2 DEF Memory
  <2> QED BY <1>2, <2>2, <2>3 DEF put, Put
<1> QED BY <1>1, <1>2

\* The line as a sequence, and the screen in step with it.
TextOf(s) == [i \in 1 .. s.len |-> s.info[i - 1]]

InStep(s) ==
    s.row = 0 =>
        /\ s.col = PromptCol + s.len
        /\ \A c \in Cell \cap PromptCol .. VGA_WIDTH - 1 :
              s.cells[c] = IF c < s.col THEN s.info[c - PromptCol] ELSE Space

\* What echo does to the memory s for character c.
Echoed(s, c) == [Edit(handle_keyboard_input(s, c), c) EXCEPT !.buf = Nul]

\* The parts of memory r that echo changes; the others are those of s.
Parts(s, r, info, len, row, col, cells) ==
    /\ r = [s EXCEPT !.buf = Nul, !.info = info, !.len = len, !.row = row, !.col = col,
                     !.cells = cells]
    /\ r.info = info /\ r.len = len /\ r.row = row /\ r.col = col /\ r.cells = cells
    /\ r.taken = s.taken

LEMMA EchoedBackspace ==
    ASSUME NEW s \in Memory, NEW r, r = Echoed(s, Backspace)
    PROVE  \E col, info, len :
             /\ col = IF s.col > PromptCol THEN s.col - 1 ELSE s.col
             /\ info = IF s.len = 0 THEN s.info
                       ELSE [i \in 0 .. LineBytes - 1 |-> IF i = s.len THEN Nul ELSE s.info[i]]
             /\ len = IF s.len = 0 THEN 0 ELSE s.len - 1
             /\ Parts(s, r, info, len, s.row, col,
                      [s.cells EXCEPT ![s.row * VGA_WIDTH + col] = Space])
<1> DEFINE t == handle_keyboard_input(s, Backspace)
           col == IF s.col > PromptCol THEN s.col - 1 ELSE s.col
           cells == [s.cells EXCEPT ![s.row * VGA_WIDTH + col] = Space]
           less == [i \in 0 .. LineBytes - 1 |-> IF i = s.len THEN Nul ELSE s.info[i]]
<1>1. t = [s EXCEPT !.cells = cells, !.col = col]
  <2>1. /\ t = [s EXCEPT !.cells = t.cells, !.col = t.col] /\ t.col = col
        /\ t.cells = [s.cells EXCEPT ![s.row * VGA_WIDTH + t.col] = Space]
    BY EchoBackspace
  <2> QED BY <2>1
<1> HIDE DEF t, col, cells
<1>2. t.len = s.len /\ t.info = s.info /\ DOMAIN t.info = 0 .. LineBytes - 1
  BY <1>1 DEF Memory, Info
<1>3. CASE s.len = 0
  <2>1. Edit(t, Backspace) = t
    BY <1>2, <1>3 DEF Edit
  <2>2. r = [s EXCEPT !.cells = cells, !.col = col, !.buf = Nul]
    BY <1>1, <2>1 DEF Echoed, t, Memory
  <2>3. Parts(s, r, s.info, 0, s.row, col, cells)
    BY <1>3, <2>2 DEF Parts, Memory
  <2> QED BY <1>3, <2>3 DEF col, cells
<1>4. CASE s.len # 0
  <2>1. Edit(t, Backspace) =
          [t EXCEPT !.info = [i \in DOMAIN t.info |-> IF i = t.len THEN Nul ELSE t.info[i]],
                    !.len = t.len - 1]
    BY <1>2, <1>4 DEF Edit
  <2>2. Edit(t, Backspace) = [t EXCEPT !.info = less, !.len = s.len - 1]
    BY <1>2, <2>1
  <2> HIDE DEF less
  <2>3. r = [s EXCEPT !.cells = cells, !.col = col, !.info = less, !.len = s.len - 1, !.buf = Nul]
    BY <1>1, <2>2 DEF Echoed, t, Memory
  <2>4. Parts(s, r, less, s.len - 1, s.row, col, cells)
    BY <2>3 DEF Parts, Memory
  <2> QED BY <1>4, <2>4 DEF col, cells, less
<1> QED BY <1>3, <1>4

LEMMA EchoedCharacter ==
    ASSUME NEW s \in Memory, NEW c \in Char, c # Backspace, NEW r, r = Echoed(s, c)
    PROVE  \E row, col :
             /\ row = IF s.col >= VGA_WIDTH - 1 THEN s.row + 1 ELSE s.row
             /\ col = IF s.col >= VGA_WIDTH - 1 THEN 0 ELSE s.col + 1
             /\ Parts(s, r, [s.info EXCEPT ![s.len] = c], s.len + 1, row, col,
                      [[s.cells EXCEPT ![s.row * VGA_WIDTH + s.col] = c]
                          EXCEPT ![row * VGA_WIDTH + col] = Space])
<1> DEFINE t == handle_keyboard_input(s, c)
<1>0. /\ t = [s EXCEPT !.cells = t.cells, !.row = t.row, !.col = t.col]
      /\ t.row = IF s.col >= VGA_WIDTH - 1 THEN s.row + 1 ELSE s.row
      /\ t.col = IF s.col >= VGA_WIDTH - 1 THEN 0 ELSE s.col + 1
      /\ t.cells = [[s.cells EXCEPT ![s.row * VGA_WIDTH + s.col] = c]
                       EXCEPT ![t.row * VGA_WIDTH + t.col] = Space]
  <2>1. Put(s, c, t)
    BY EchoCharacter
  <2> HIDE DEF t
  <2> QED BY <2>1 DEF Put
<1> HIDE DEF t
<1> DEFINE row == IF s.col >= VGA_WIDTH - 1 THEN s.row + 1 ELSE s.row
           col == IF s.col >= VGA_WIDTH - 1 THEN 0 ELSE s.col + 1
           cells == [[s.cells EXCEPT ![s.row * VGA_WIDTH + s.col] = c]
                        EXCEPT ![row * VGA_WIDTH + col] = Space]
           more == [s.info EXCEPT ![s.len] = c]
<1>1. t = [s EXCEPT !.cells = cells, !.row = row, !.col = col]
  <2>1. t.row = row /\ t.col = col
    BY <1>0
  <2>2. t.cells = cells
    BY <1>0, <2>1, Zenon
  <2> HIDE DEF row, col, cells
  <2> QED BY <1>0, <2>1, <2>2
<1> HIDE DEF row, col, cells
<1>2. t.len = s.len /\ t.info = s.info
  BY <1>1 DEF Memory
<1>3. Edit(t, c) = [t EXCEPT !.info = more, !.len = s.len + 1]
  BY <1>2 DEF Edit
<1> HIDE DEF more
<1>4. r = [s EXCEPT !.cells = cells, !.row = row, !.col = col, !.info = more,
                    !.len = s.len + 1, !.buf = Nul]
  BY <1>1, <1>3 DEF Echoed, t, Memory
<1>5. Parts(s, r, more, s.len + 1, row, col, cells)
  BY <1>4 DEF Parts, Memory
<1> QED BY <1>5 DEF row, col, cells, more

LEMMA CharFacts ==
    /\ Space \in Char /\ Backspace \in Char /\ Newline \in Char
    /\ Backspace # Space /\ Newline # Backspace /\ Nul \notin Char
BY WaitingFor DEF Char, Space, Backspace, Newline

\* Memory stays memory when its parts keep their types.
LEMMA PartsType ==
    ASSUME NEW s \in Memory, NEW r, NEW info \in Info, NEW len \in 0 .. LineBytes,
           NEW row \in Nat, NEW col \in 0 .. VGA_WIDTH - 1, NEW cells \in [Cell -> Char],
           Parts(s, r, info, len, row, col, cells)
    PROVE  r \in Memory
<1>1. r = [s EXCEPT !.buf = Nul, !.info = info, !.len = len, !.row = row, !.col = col,
                    !.cells = cells]
  BY DEF Parts
<1> QED BY <1>1 DEF Memory

\* Storing a character in a cell, or next to the cells.
LEMMA CellsType ==
    ASSUME NEW cells \in [Cell -> Char], NEW i, NEW c \in Char
    PROVE  [cells EXCEPT ![i] = c] \in [Cell -> Char]
OBVIOUS

LEMMA EchoedBackspaceInv ==
    ASSUME NEW s \in Memory, NEW r, r = Echoed(s, Backspace), TextOf(s) \in Seq(Char), InStep(s)
    PROVE  /\ r \in Memory /\ r.taken = s.taken
           /\ TextOf(r) = Keyed(TextOf(s), Backspace)
           /\ InStep(r)
<1>1. PICK col, info, len :
             /\ col = IF s.col > PromptCol THEN s.col - 1 ELSE s.col
             /\ info = IF s.len = 0 THEN s.info
                       ELSE [i \in 0 .. LineBytes - 1 |-> IF i = s.len THEN Nul ELSE s.info[i]]
             /\ len = IF s.len = 0 THEN 0 ELSE s.len - 1
             /\ Parts(s, r, info, len, s.row, col,
                      [s.cells EXCEPT ![s.row * VGA_WIDTH + col] = Space])
  BY EchoedBackspace
<1> DEFINE cells == [s.cells EXCEPT ![s.row * VGA_WIDTH + col] = Space]
<1>2. /\ s.info \in [0 .. LineBytes - 1 -> Char \cup {Nul}] /\ s.len \in 0 .. LineBytes
      /\ s.row \in Nat /\ s.col \in 0 .. VGA_WIDTH - 1 /\ s.cells \in [Cell -> Char]
      /\ LineBytes \in Nat /\ VGA_WIDTH \in Nat /\ VGA_WIDTH > 4 /\ PromptCol = 3
  BY Sizes DEF Memory, Info
<1>3. /\ info \in Info /\ len \in 0 .. LineBytes /\ col \in 0 .. VGA_WIDTH - 1
  <2>a. /\ len = IF s.len = 0 THEN 0 ELSE s.len - 1
        /\ col = IF s.col > PromptCol THEN s.col - 1 ELSE s.col
    BY <1>1, Zenon
  <2>1. len \in 0 .. LineBytes
    BY ONLY <2>a, <1>2
  <2>2. col \in 0 .. VGA_WIDTH - 1
    BY ONLY <2>a, <1>2
  <2>3. info \in [0 .. LineBytes - 1 -> Char \cup {Nul}]
    BY <1>1, <1>2
  <2> QED BY <2>1, <2>2, <2>3 DEF Info
<1>4. cells \in [Cell -> Char]
  BY <1>2, CellsType, CharFacts
<1>5. \A x \in Cell : cells[x] = IF x = s.row * VGA_WIDTH + col THEN Space ELSE s.cells[x]
  BY <1>2
<1>6. Parts(s, r, info, len, s.row, col, cells)
  BY <1>1
<1> HIDE DEF cells
<1>7. r \in Memory
  BY <1>2, <1>3, <1>4, <1>6, PartsType
<1>8. /\ r.info = info /\ r.len = len /\ r.row = s.row /\ r.col = col /\ r.cells = cells
      /\ r.taken = s.taken
  BY <1>6 DEF Parts
<1>9. \A i \in 0 .. len - 1 : info[i] = s.info[i]
  BY <1>1, <1>2
<1>10. TextOf(r) = Keyed(TextOf(s), Backspace)
  <2>1. Len(TextOf(s)) = s.len /\ s.len \in Nat
    BY <1>2 DEF TextOf
  <2>2. TextOf(r) = [i \in 1 .. len |-> s.info[i - 1]]
    <3>1. \A i \in 1 .. len : info[i - 1] = s.info[i - 1]
      BY <1>3, <1>9
    <3> QED BY <1>8, <3>1 DEF TextOf
  <2>3. CASE s.len = 0
    <3>1. TextOf(s) = << >>
      BY <2>1, <2>3
    <3>2. Keyed(TextOf(s), Backspace) = TextOf(s)
      BY <3>1, CharFacts DEF Keyed
    <3>3. len = s.len
      BY <1>1, <2>3
    <3> QED BY <2>2, <3>2, <3>3 DEF TextOf
  <2>4. CASE s.len # 0
    <3>1. TextOf(s) # << >>
      BY <2>1, <2>4
    <3>2. Keyed(TextOf(s), Backspace) = SubSeq(TextOf(s), 1, Len(TextOf(s)) - 1)
      BY <3>1, CharFacts DEF Keyed
    <3>3. len = s.len - 1 /\ len \in Nat
      BY <1>1, <2>1, <2>4
    <3> DEFINE u == SubSeq(TextOf(s), 1, len)
    <3>4. u \in Seq(Char) /\ Len(u) = len /\ \A i \in 1 .. len : u[i] = TextOf(s)[i]
      BY <2>1, <3>3
    <3>5. u = [i \in 1 .. len |-> u[i]]
      BY <3>4, LenProperties
    <3>6. \A i \in 1 .. len : TextOf(s)[i] = s.info[i - 1]
      BY <2>1, <3>3 DEF TextOf
    <3> HIDE DEF u
    <3>7. u = [i \in 1 .. len |-> s.info[i - 1]]
      BY <3>4, <3>5, <3>6
    <3> QED BY <2>1, <2>2, <3>2, <3>3, <3>7 DEF u
  <2> QED BY <2>3, <2>4
<1>11. InStep(r)
  <2>1. SUFFICES ASSUME s.row = 0
                 PROVE  /\ col = PromptCol + len
                        /\ \A x \in Cell \cap PromptCol .. VGA_WIDTH - 1 :
                              cells[x] = IF x < col THEN info[x - PromptCol] ELSE Space
    BY <1>8 DEF InStep
  <2>2. /\ s.col = PromptCol + s.len
        /\ \A x \in Cell \cap PromptCol .. VGA_WIDTH - 1 :
              s.cells[x] = IF x < s.col THEN s.info[x - PromptCol] ELSE Space
    BY <2>1 DEF InStep
  <2>3. col = PromptCol + len
    BY <1>1, <1>2, <2>2
  <2>4. s.row * VGA_WIDTH + col = col
    BY <1>2, <1>3, <2>1
  <2>5. ASSUME NEW x \in Cell \cap PromptCol .. VGA_WIDTH - 1
        PROVE  cells[x] = IF x < col THEN info[x - PromptCol] ELSE Space
    <3>1. cells[x] = IF x = col THEN Space ELSE s.cells[x]
      BY <1>5, <2>4
    <3>2. x \in Int /\ col \in Int /\ s.col \in Int /\ x >= PromptCol
      BY <1>2, <1>3
    <3>3. CASE x < col
      <4>1. x - PromptCol \in 0 .. len - 1 /\ x < s.col /\ x # col
        <5>1. col <= s.col
          BY <1>1, <3>2
        <5>2. len \in Int /\ PromptCol = 3
          BY <1>2, <1>3
        <5> QED BY <2>3, <3>2, <3>3, <5>1, <5>2
      <4> QED BY <1>9, <2>2, <3>1, <3>3, <4>1
    <3>4. CASE x = col
      BY <3>1, <3>2, <3>4
    <3>5. CASE x > col
      <4>1. ~ (x < s.col) /\ x # col
        BY <1>1, <1>2, <3>2, <3>5
      <4> QED BY <2>2, <3>1, <3>2, <3>5, <4>1
    <3> QED BY <3>2, <3>3, <3>4, <3>5
  <2> QED BY <2>3, <2>5
<1> QED BY <1>7, <1>8, <1>10, <1>11

LEMMA EchoedCharacterInv ==
    ASSUME NEW s \in Memory, NEW c \in Char, c \notin {Backspace, Newline}, s.len < LineBytes,
           NEW r, r = Echoed(s, c), TextOf(s) \in Seq(Char), InStep(s)
    PROVE  /\ r \in Memory /\ r.taken = s.taken
           /\ TextOf(r) = Keyed(TextOf(s), c)
           /\ InStep(r)
<1>1. PICK row, col :
             /\ row = IF s.col >= VGA_WIDTH - 1 THEN s.row + 1 ELSE s.row
             /\ col = IF s.col >= VGA_WIDTH - 1 THEN 0 ELSE s.col + 1
             /\ Parts(s, r, [s.info EXCEPT ![s.len] = c], s.len + 1, row, col,
                      [[s.cells EXCEPT ![s.row * VGA_WIDTH + s.col] = c]
                          EXCEPT ![row * VGA_WIDTH + col] = Space])
  BY EchoedCharacter
<1> DEFINE info == [s.info EXCEPT ![s.len] = c]
           len == s.len + 1
           put == [s.cells EXCEPT ![s.row * VGA_WIDTH + s.col] = c]
           cells == [put EXCEPT ![row * VGA_WIDTH + col] = Space]
<1>2. /\ s.info \in [0 .. LineBytes - 1 -> Char \cup {Nul}] /\ s.len \in 0 .. LineBytes
      /\ s.row \in Nat /\ s.col \in 0 .. VGA_WIDTH - 1 /\ s.cells \in [Cell -> Char]
      /\ LineBytes \in Nat /\ VGA_WIDTH \in Nat /\ VGA_WIDTH > 4 /\ PromptCol = 3
  BY Sizes DEF Memory, Info
<1>3. /\ info \in Info /\ len \in 0 .. LineBytes /\ col \in 0 .. VGA_WIDTH - 1 /\ row \in Nat
      /\ s.len \in 0 .. LineBytes - 1
  <2>1. row = (IF s.col >= VGA_WIDTH - 1 THEN s.row + 1 ELSE s.row)
        /\ col = (IF s.col >= VGA_WIDTH - 1 THEN 0 ELSE s.col + 1)
    BY <1>1
  <2>2. col \in 0 .. VGA_WIDTH - 1 /\ row \in Nat
    BY <1>2, <2>1
  <2>3. len \in 0 .. LineBytes /\ s.len \in 0 .. LineBytes - 1
    BY <1>2
  <2>4. info \in Info
    BY <1>2 DEF Info
  <2> QED BY <2>2, <2>3, <2>4
<1>4. put \in [Cell -> Char] /\ cells \in [Cell -> Char]
  BY <1>2, CellsType, CharFacts
<1>5. \A x \in Cell : cells[x] = IF x = row * VGA_WIDTH + col THEN Space
                                 ELSE IF x = s.row * VGA_WIDTH + s.col THEN c ELSE s.cells[x]
  <2>1. \A x \in Cell : put[x] = IF x = s.row * VGA_WIDTH + s.col THEN c ELSE s.cells[x]
    BY <1>2
  <2> HIDE DEF put
  <2>2. \A x \in Cell : cells[x] = IF x = row * VGA_WIDTH + col THEN Space ELSE put[x]
    BY <1>4
  <2> HIDE DEF cells
  <2> QED BY <2>1, <2>2
<1>6. Parts(s, r, info, len, row, col, cells)
  BY <1>1
<1>7. info[s.len] = c /\ \A i \in 0 .. s.len - 1 : info[i] = s.info[i]
  BY <1>2, <1>3
<1> HIDE DEF info, put, cells
<1>8. r \in Memory
  <2> HIDE DEF len
  <2> QED BY <1>3, <1>4, <1>6, PartsType
<1>9. /\ r.info = info /\ r.len = len /\ r.row = row /\ r.col = col /\ r.cells = cells
      /\ r.taken = s.taken
  BY <1>6 DEF Parts
<1>10. TextOf(r) = Keyed(TextOf(s), c)
  <2>1. Keyed(TextOf(s), c) = Append(TextOf(s), c)
    BY DEF Keyed
  <2>2. Len(TextOf(s)) = s.len /\ s.len \in Nat
    BY <1>2 DEF TextOf
  <2> DEFINE u == Append(TextOf(s), c)
  <2>3. /\ u \in Seq(Char) /\ Len(u) = len /\ u[len] = c
        /\ \A i \in 1 .. s.len : u[i] = TextOf(s)[i]
    BY <2>2
  <2>4. u = [i \in 1 .. len |-> u[i]]
    BY <2>3, LenProperties
  <2> HIDE DEF u
  <2>5. \A i \in 1 .. s.len : TextOf(s)[i] = s.info[i - 1] /\ info[i - 1] = s.info[i - 1]
    BY <1>7, <2>2 DEF TextOf
  <2>6. \A i \in 1 .. len : u[i] = info[i - 1]
    BY <1>7, <2>2, <2>3, <2>5
  <2>7. TextOf(r) = [i \in 1 .. len |-> info[i - 1]]
    BY <1>9 DEF TextOf
  <2> QED BY <2>1, <2>4, <2>6, <2>7 DEF u
<1>11. InStep(r)
  <2>1. SUFFICES ASSUME row = 0
                 PROVE  /\ col = PromptCol + len
                        /\ \A x \in Cell \cap PromptCol .. VGA_WIDTH - 1 :
                              cells[x] = IF x < col THEN info[x - PromptCol] ELSE Space
    BY <1>9 DEF InStep
  <2>2. s.row = 0 /\ col = s.col + 1
    BY <1>1, <1>2, <2>1
  <2>3. /\ s.col = PromptCol + s.len
        /\ \A x \in Cell \cap PromptCol .. VGA_WIDTH - 1 :
              s.cells[x] = IF x < s.col THEN s.info[x - PromptCol] ELSE Space
    BY <2>2 DEF InStep
  <2>4. col = PromptCol + len
    BY <1>2, <2>2, <2>3
  <2>5. row * VGA_WIDTH + col = col /\ s.row * VGA_WIDTH + s.col = s.col
    BY <1>2, <1>3, <2>1, <2>2
  <2>6. ASSUME NEW x \in Cell \cap PromptCol .. VGA_WIDTH - 1
        PROVE  cells[x] = IF x < col THEN info[x - PromptCol] ELSE Space
    <3>1. cells[x] = IF x = col THEN Space ELSE IF x = s.col THEN c ELSE s.cells[x]
      BY <1>5, <2>5
    <3>2. x \in Int /\ col \in Int /\ s.col \in Int /\ x >= PromptCol
      BY <1>2, <1>3
    <3>3. CASE x < s.col
      <4>1. x - PromptCol \in 0 .. s.len - 1 /\ x < col /\ x # col /\ x # s.col
        BY <1>2, <2>2, <2>3, <3>2, <3>3
      <4> QED BY <1>7, <2>3, <3>1, <3>3, <4>1
    <3>4. CASE x = s.col
      <4>1. x - PromptCol = s.len /\ x < col /\ x # col
        BY <1>2, <2>2, <2>3, <3>2, <3>4
      <4> QED BY <1>7, <3>1, <3>4, <4>1
    <3>5. CASE x > s.col
      <4>1. ~ (x < col) /\ ~ (x < s.col) /\ x # s.col
        BY <2>2, <3>2, <3>5
      <4> QED BY <2>3, <3>1, <4>1
    <3> QED BY <3>2, <3>3, <3>4, <3>5
  <2> QED BY <2>4, <2>6
<1> QED BY <1>8, <1>9, <1>10, <1>11

-----------------------------------------------------------------------------
(* The shells *)

\* Shell p: while it polls, its line is what an editor makes of what it has got, and
\* the screen shows it; while it echoes, this holds but for the last character.
ShellInv(p) ==
    /\ at[p] \in Place
    /\ shell[p] \in Memory
    /\ at[p] = "poll" =>
          /\ TextOf(shell[p]) = Edited(shell[p].taken)
          /\ InStep(shell[p])
    /\ at[p] = "echo" =>
          /\ shell[p].buf \in Char \ {Newline}
          /\ InStep(shell[p])
          /\ \E t \in Seq(Char) : /\ shell[p].taken = Append(t, shell[p].buf)
                                  /\ TextOf(shell[p]) = Edited(t)

ShellsInv ==
    /\ DOMAIN shell = Processes
    /\ \A p \in Processes : ShellInv(p)

LEMMA FreshMemory ==
    /\ Fresh \in Memory
    /\ TextOf(Fresh) = Edited(Fresh.taken)
    /\ InStep(Fresh)
<1>1. NoInfo \in Info /\ NoArgs \in Arguments /\ [c \in Cell |-> Space] \in [Cell -> Char]
  <2>1. << >> \in Seq(Char \cup {Nul})
    OBVIOUS
  <2> QED BY <2>1, CharFacts DEF NoInfo, Info, NoArgs, Arguments
<1>2. << >> \in Seq(Char) /\ 0 \in 0 .. LineBytes /\ PromptCol \in 0 .. VGA_WIDTH - 1 /\ 0 \in Nat
  BY Sizes
<1>3. Fresh \in Memory
  BY <1>1, <1>2 DEF Fresh, Memory
<1>4. Fresh.len = 0 /\ Fresh.taken = << >> /\ Fresh.col = PromptCol
      /\ Fresh.cells = [c \in Cell |-> Space]
  BY DEF Fresh
<1>5. TextOf(Fresh) = << >>
  BY <1>4 DEF TextOf
<1>6. InStep(Fresh)
  BY <1>4, Sizes DEF InStep
<1> QED BY <1>3, <1>4, <1>5, <1>6, EditedEmpty

\* A step of shell p leaves the others alone.
LEMMA OneShell ==
    ASSUME ShellsInv, NEW p \in Processes, DOMAIN shell' = Processes, ShellInv(p)',
           \A q \in Processes \ {p} : shell'[q] = shell[q] /\ at'[q] = at[q]
    PROVE  ShellsInv'
<1>1. SUFFICES ASSUME NEW q \in Processes, q # p PROVE ShellInv(q)'
  BY DEF ShellsInv
<1>2. ShellInv(q) /\ shell'[q] = shell[q] /\ at'[q] = at[q]
  BY <1>1 DEF ShellsInv
<1> QED BY <1>2 DEF ShellInv

LEMMA ShellsUnchanged ==
    ASSUME ShellsInv, UNCHANGED <<shell, at>> PROVE ShellsInv'
BY DEF ShellsInv, ShellInv

\* A shell that is neither polling nor echoing has nothing to keep but its types.
LEMMA Elsewhere ==
    ASSUME NEW p, at'[p] \in Place \ {"poll", "echo"}, shell'[p] \in Memory
    PROVE  ShellInv(p)'
BY DEF ShellInv

LEMMA GoesAt ==
    ASSUME MachineTypeOK, NEW p \in Processes, NEW a, Goes(p, a)
    PROVE  at'[p] = a /\ \A q \in Processes \ {p} : at'[q] = at[q]
BY DEF Goes, MachineTypeOK

\* The update of the memory of shell p.
LEMMA ShellSet ==
    ASSUME DOMAIN shell = Processes, NEW p \in Processes, NEW m, shell' = [shell EXCEPT ![p] = m]
    PROVE  DOMAIN shell' = Processes /\ shell'[p] = m
           /\ \A q \in Processes \ {p} : shell'[q] = shell[q]
OBVIOUS

LEMMA PromptShell ==
    ASSUME MachineTypeOK, ShellsInv, NEW p \in Processes, print_template(p) PROVE ShellsInv'
<1>1. PICK a \in {"poll", "parse"} : Goes(p, a)
  BY DEF print_template
<1>2. shell' = [shell EXCEPT ![p] = Fresh]
  BY DEF print_template
<1>3. at'[p] = a /\ \A q \in Processes \ {p} : at'[q] = at[q]
  BY <1>1, GoesAt
<1>4. /\ DOMAIN shell' = Processes /\ shell'[p] = Fresh
      /\ \A q \in Processes \ {p} : shell'[q] = shell[q]
  BY <1>2, ShellSet DEF ShellsInv
<1>5. ShellInv(p)'
  BY <1>3, <1>4, FreshMemory DEF ShellInv, Place
<1> QED BY <1>3, <1>4, <1>5, OneShell

LEMMA GetcharShell ==
    ASSUME MachineTypeOK, KeyboardTypeOK, ShellsInv, NEW p \in Processes, getchar(p)
    PROVE  ShellsInv'
<1> DEFINE c == keyboard_buffer
           a == IF c = Nul THEN "poll" ELSE IF c = Newline THEN "parse" ELSE "echo"
           s == shell[p]
           r == [s EXCEPT !.buf = c, !.taken = IF c = Nul THEN @ ELSE Append(@, c)]
<1>1. at[p] = "poll" /\ Goes(p, a)
      /\ shell' = [shell EXCEPT ![p].buf = c,
                                ![p].taken = IF c = Nul THEN @ ELSE Append(@, c)]
  BY DEF getchar
<1>2. /\ s \in Memory /\ TextOf(s) = Edited(s.taken) /\ InStep(s)
      /\ DOMAIN shell = Processes /\ c \in Char \cup {Nul}
  BY <1>1 DEF ShellsInv, ShellInv, KeyboardTypeOK
<1>3. shell' = [shell EXCEPT ![p] = r]
  BY <1>1, <1>2
<1>4. at'[p] = a /\ \A q \in Processes \ {p} : at'[q] = at[q]
  BY <1>1, GoesAt
<1>5. /\ DOMAIN shell' = Processes /\ shell'[p] = r
      /\ \A q \in Processes \ {p} : shell'[q] = shell[q]
  BY <1>2, <1>3, ShellSet
<1>6. s.taken \in Seq(Char)
  BY <1>2 DEF Memory
<1>7. (IF c = Nul THEN s.taken ELSE Append(s.taken, c)) \in Seq(Char)
  BY <1>2, <1>6
<1>8. /\ r \in Memory /\ r.buf = c /\ r.taken = (IF c = Nul THEN s.taken ELSE Append(s.taken, c))
      /\ r.info = s.info /\ r.len = s.len /\ r.row = s.row /\ r.col = s.col
      /\ r.cells = s.cells
  BY <1>2, <1>7 DEF Memory
<1> HIDE DEF r
<1>9. TextOf(r) = TextOf(s) /\ InStep(r)
  BY <1>2, <1>8 DEF TextOf, InStep
<1>10. ShellInv(p)'
  <2>1. CASE c = Nul
    <3>1. at'[p] = "poll" /\ r.taken = s.taken
      BY <1>4, <1>8, <2>1
    <3> QED BY <1>2, <1>5, <1>8, <1>9, <3>1 DEF ShellInv, Place
  <2>2. CASE c = Newline
    <3>1. at'[p] = "parse"
      BY <1>4, <2>2, CharFacts
    <3> QED BY <1>5, <1>8, <3>1, Elsewhere DEF Place
  <2>3. CASE c \in Char \ {Newline}
    <3>1. at'[p] = "echo" /\ r.taken = Append(s.taken, r.buf) /\ r.buf \in Char \ {Newline}
      BY <1>4, <1>8, <2>3, CharFacts
    <3>2. \E t \in Seq(Char) : r.taken = Append(t, r.buf) /\ TextOf(r) = Edited(t)
      BY <1>2, <1>6, <1>9, <3>1
    <3> QED BY <1>5, <1>8, <1>9, <3>1, <3>2 DEF ShellInv, Place
  <2> QED BY <1>2, <2>1, <2>2, <2>3
<1> QED BY <1>4, <1>5, <1>10, OneShell

LEMMA EchoShell ==
    ASSUME MachineTypeOK, ShellsInv, NEW p \in Processes, echo(p) PROVE ShellsInv'
<1> DEFINE s == shell[p]
           full == s.buf # Backspace /\ s.len = LineBytes
           a == IF full THEN "overrun" ELSE "poll"
           r == IF full THEN s ELSE Echoed(s, s.buf)
<1>1. at[p] = "echo" /\ Goes(p, a) /\ shell' = [shell EXCEPT ![p] = r]
  BY DEF echo, Echoed
<1>2. /\ s \in Memory /\ InStep(s) /\ s.buf \in Char \ {Newline} /\ DOMAIN shell = Processes
  BY <1>1 DEF ShellsInv, ShellInv
<1>3. PICK t \in Seq(Char) : s.taken = Append(t, s.buf) /\ TextOf(s) = Edited(t)
  BY <1>1 DEF ShellsInv, ShellInv
<1>4. at'[p] = a /\ \A q \in Processes \ {p} : at'[q] = at[q]
  BY <1>1, GoesAt
<1>5. /\ DOMAIN shell' = Processes /\ shell'[p] = r
      /\ \A q \in Processes \ {p} : shell'[q] = shell[q]
  BY <1>1, <1>2, ShellSet
<1>6. CASE full
  <2>1. at'[p] = "overrun" /\ shell'[p] \in Memory
    BY <1>2, <1>4, <1>5, <1>6
  <2>2. ShellInv(p)'
    BY <2>1, Elsewhere DEF Place
  <2> QED BY <1>4, <1>5, <2>2, OneShell
<1>7. CASE ~ full
  <2>1. at'[p] = "poll" /\ shell'[p] = Echoed(s, s.buf)
    BY <1>4, <1>5, <1>7
  <2>2. TextOf(s) \in Seq(Char)
    BY <1>3, EditedType
  <2>3. s.buf = Backspace \/ s.len < LineBytes
    BY <1>2, <1>7, Sizes DEF Memory
  <2> DEFINE g == Echoed(s, s.buf)
  <2>4. /\ g \in Memory /\ g.taken = s.taken /\ TextOf(g) = Keyed(TextOf(s), s.buf) /\ InStep(g)
    <3>1. CASE s.buf = Backspace
      BY <1>2, <2>2, <3>1, EchoedBackspaceInv
    <3>2. CASE s.buf # Backspace
      BY <1>2, <2>2, <2>3, <3>2, EchoedCharacterInv
    <3> QED BY <3>1, <3>2
  <2> HIDE DEF g
  <2>5. TextOf(g) = Edited(g.taken)
    BY <1>2, <1>3, <2>4, EditedAppend
  <2>6. ShellInv(p)'
    BY <2>1, <2>4, <2>5 DEF ShellInv, Place, g
  <2> QED BY <1>4, <1>5, <2>6, OneShell
<1> QED BY <1>6, <1>7

LEMMA ParseShell ==
    ASSUME MachineTypeOK, ShellsInv, NEW p \in Processes, parse(p) PROVE ShellsInv'
<1> DEFINE s == shell[p]
           w == Parsed(s)
           a == IF w.over THEN "overrun" ELSE "run"
           name == IF w.first # -1 THEN w.first ELSE w.i
           r == [s EXCEPT !.name = name, !.args = w.args, !.neff = w.neff]
<1>1. /\ Goes(p, a)
      /\ shell' = [shell EXCEPT ![p].name = name, ![p].args = w.args, ![p].neff = w.neff]
  BY DEF parse
<1>2. s \in Memory /\ DOMAIN shell = Processes
  BY DEF ShellsInv, ShellInv
<1>3. w \in Loop(s)
  BY <1>2, ParsedType
<1> HIDE DEF w
<1>4. name \in 0 .. LineBytes /\ w.args \in Arguments /\ w.neff \in 0 .. LineBytes
  <2>1. s.len \in 0 .. LineBytes /\ LineBytes \in Nat
    BY <1>2, Sizes DEF Memory
  <2>2. /\ w.i \in 0 .. s.len /\ w.first \in -1 .. s.len /\ w.neff \in 0 .. s.len
        /\ w.args \in Arguments
    BY <1>3 DEF Loop
  <2> QED BY <2>1, <2>2
<1> HIDE DEF name
<1>5. shell' = [shell EXCEPT ![p] = r]
  BY <1>1, <1>2
<1>6. at'[p] = a /\ \A q \in Processes \ {p} : at'[q] = at[q]
  BY <1>1, GoesAt
<1>7. /\ DOMAIN shell' = Processes /\ shell'[p] = r
      /\ \A q \in Processes \ {p} : shell'[q] = shell[q]
  BY <1>2, <1>5, ShellSet
<1>8. r \in Memory
  BY <1>2, <1>4 DEF Memory
<1>9. at'[p] \in Place \ {"poll", "echo"}
  BY <1>6 DEF Place
<1>10. ShellInv(p)'
  BY <1>7, <1>8, <1>9, Elsewhere
<1> QED BY <1>6, <1>7, <1>10, OneShell

\* Steps that leave the memory of every shell alone and send p elsewhere.
LEMMA QuietShell ==
    ASSUME MachineTypeOK, ShellsInv, NEW p \in Processes, start(p) \/ command(p)
    PROVE  ShellsInv'
<1>1. Goes(p, "prompt") /\ shell' = shell
  BY DEF start, command
<1>2. at'[p] = "prompt" /\ \A q \in Processes \ {p} : at'[q] = at[q]
  BY <1>1, GoesAt
<1>3. shell'[p] \in Memory /\ DOMAIN shell' = Processes
  BY <1>1 DEF ShellsInv, ShellInv
<1>4. ShellInv(p)'
  BY <1>2, <1>3, Elsewhere DEF Place
<1> QED BY <1>1, <1>2, <1>3, <1>4, OneShell

LEMMA ExecShell ==
    ASSUME MachineTypeOK, ShellsInv, NEW p \in Processes, NEW q \in Processes, exec(p, q)
    PROVE  ShellsInv'
<1>1. at' = [at EXCEPT ![p] = "prompt", ![q] = "start"] /\ shell' = shell
  BY DEF exec
<1>2. DOMAIN at = Processes
  BY DEF MachineTypeOK
<1>3. SUFFICES ASSUME NEW r \in Processes PROVE ShellInv(r)'
  BY <1>1 DEF ShellsInv
<1>4. ShellInv(r) /\ shell'[r] = shell[r]
  BY <1>1 DEF ShellsInv
<1>5. CASE r \in {p, q}
  <2>1. at'[r] \in {"prompt", "start"}
    BY <1>1, <1>2, <1>5
  <2> QED BY <1>4, <2>1, Elsewhere DEF ShellInv, Place
<1>6. CASE r \notin {p, q}
  <2>1. at'[r] = at[r]
    BY <1>1, <1>2, <1>6
  <2> QED BY <1>4, <2>1 DEF ShellInv
<1> QED BY <1>5, <1>6

LEMMA ShellsNext ==
    MachineInv /\ KeyInv /\ ShellsInv /\ [LineNext]_lineVars => ShellsInv'
<1> SUFFICES ASSUME MachineInv, KeyInv, ShellsInv, [LineNext]_lineVars PROVE ShellsInv'
  OBVIOUS
<1>0. MachineTypeOK /\ KeyboardTypeOK /\ First \in Processes /\ DOMAIN at = Processes
  BY ProcessesAssumption DEF MachineInv, KeyInv, MachineTypeOK
<1>1. CASE KernelSetup /\ UNCHANGED <<keyboard, shell>>
  <2>1. CASE at' = at
    BY <1>1, <2>1, ShellsUnchanged
  <2>2. CASE process_create_user_process
    <3>1. at'[First] = "start" /\ shell' = shell /\ \A q \in Processes \ {First} : at'[q] = at[q]
      BY <1>0, <1>1, <2>2 DEF process_create_user_process
    <3>2. shell'[First] \in Memory /\ DOMAIN shell' = Processes
      BY <1>0, <3>1 DEF ShellsInv, ShellInv
    <3>3. ShellInv(First)'
      BY <3>1, <3>2, Elsewhere DEF Place
    <3> QED BY <1>0, <3>1, <3>2, <3>3, OneShell
  <2> QED BY <1>1, <2>1, <2>2 DEF KernelSetup, load_gdt, pic_remap, initialize_idt,
       activate_keyboard_interrupt, gdt_install_tss, set_tss_register,
       set_tss_kernel_current_stack, scheduler_init,
       scheduler_switch_to_next_process, SwitchTo
<1>2. CASE Tick /\ UNCHANGED <<keyboard, shell>>
  BY <1>2, ShellsUnchanged DEF Tick
<1>3. CASE \E k \in Scancode : Strike(k) /\ UNCHANGED shell
  BY <1>3, ShellsUnchanged DEF Strike
<1>4. CASE keyboard_isr /\ UNCHANGED shell
  BY <1>4, ShellsUnchanged DEF keyboard_isr, KeyboardInterrupt
<1>5. CASE Timer
  BY <1>5, ShellsUnchanged DEF Timer, timer_isr, SwitchTo
<1>6. ASSUME NEW p \in Processes, Step(p) PROVE ShellsInv'
  BY <1>0, <1>6, QuietShell, PromptShell, GetcharShell, EchoShell, ParseShell, ExecShell DEF Step
<1>7. CASE UNCHANGED lineVars
  BY <1>7, ShellsUnchanged DEF lineVars, machine
<1>8. CASE \E p \in Processes : Overrun(p)
  BY <1>7, <1>8 DEF Overrun
<1> QED BY <1>1, <1>2, <1>3, <1>4, <1>5, <1>6, <1>7, <1>8 DEF LineNext

LEMMA ShellsInit == LineInit => ShellsInv
<1> SUFFICES ASSUME LineInit PROVE ShellsInv
  OBVIOUS
<1>1. shell = [p \in Processes |-> Fresh] /\ at = [p \in Processes |-> "none"]
  BY DEF LineInit, MachineInit
<1> QED BY <1>1, FreshMemory DEF ShellsInv, ShellInv, Place

\* The invariant of machine, keyboard and shells holds in every reachable state, for
\* any number of shells, any width of the screen and any length of the line.
THEOREM LineInvariance == LineSpec => [](MachineInv /\ KeyInv /\ ShellsInv)
<1>1. LineInit => MachineInv /\ KeyInv /\ ShellsInv
  BY MachineInitInv, KeyInitInv, ShellsInit DEF LineInit
<1> QED BY <1>1, MachineNext, KeyNext, ShellsNext, PTL DEF LineSpec

\* The variables always have their types: the index of a store of the line stays in
\* CommandStruct.info, and the cursor on the screen.
THEOREM LineTypeCorrect == LineSpec => []LineTypeOK
<1>1. MachineInv /\ KeyInv /\ ShellsInv => LineTypeOK
  <2>1. SUFFICES ASSUME MachineInv, KeyInv, ShellsInv, NEW p \in Processes
                 PROVE  /\ at[p] \in Place /\ shell[p].buf \in Char \cup {Nul}
                        /\ shell[p].info \in Info /\ shell[p].len \in 0 .. LineBytes
                        /\ shell[p].name \in 0 .. LineBytes /\ shell[p].neff \in 0 .. LineBytes
                        /\ shell[p].row \in Nat /\ shell[p].col \in 0 .. VGA_WIDTH - 1
                        /\ \A c \in Cell : shell[p].cells[c] \in Char
    BY DEF LineTypeOK, MachineInv, KeyInv
  <2> QED BY <2>1 DEF ShellsInv, ShellInv, Memory
<1> QED BY <1>1, LineInvariance, PTL

\* Whatever the user types, backspaces included, a shell that waits for a key has in
\* CommandStruct.info what an editor would have: the backspace that clears the cell
\* behind the one it takes back does no harm.
THEOREM LineStaysEdited == LineSpec => []LineIsEdited
<1>1. ShellsInv => LineIsEdited
  BY DEF ShellsInv, ShellInv, LineIsEdited, Line, TextOf
<1> QED BY <1>1, LineInvariance, PTL

\* While the line stays in the row of the prompt, the screen shows it, with the
\* cursor behind it and nothing after.
THEOREM EchoShowsLine == LineSpec => []EchoIsLine
<1>1. ShellsInv => EchoIsLine
  BY DEF ShellsInv, ShellInv, EchoIsLine, InStep
<1> QED BY <1>1, LineInvariance, PTL

-----------------------------------------------------------------------------
(* The words of a line *)

\* The stretch a .. b of the line is a word with a space ahead of it.
IsArgument(line, a, b) ==
    /\ a \in 1 .. Len(line) /\ b \in 1 .. Len(line) /\ a <= b /\ a > 1
    /\ \A i \in a .. b : line[i] # Space
    /\ line[a - 1] = Space
    /\ b = Len(line) \/ line[b + 1] = Space

LEMMA ArgumentsAre ==
    ASSUME NEW line \in Seq(Char)
    PROVE  /\ \A v \in ArgumentWords(line) : v = <<v[1], v[2]>> /\ IsArgument(line, v[1], v[2])
           /\ \A a, b : IsArgument(line, a, b) => <<a, b>> \in ArgumentWords(line)
<1>1. DOMAIN line = 1 .. Len(line) /\ Len(line) \in Nat
  OBVIOUS
<1>2. ASSUME NEW v \in ArgumentWords(line)
      PROVE  v = <<v[1], v[2]>> /\ IsArgument(line, v[1], v[2])
  <2>1. /\ v \in (1 .. Len(line)) \X (1 .. Len(line))
        /\ v[1] <= v[2] /\ v[1] > 1
        /\ \A i \in v[1] .. v[2] : line[i] # Space
        /\ v[1] = 1 \/ line[v[1] - 1] = Space
        /\ v[2] = Len(line) \/ line[v[2] + 1] = Space
    BY <1>1 DEF ArgumentWords, Words
  <2>2. v = <<v[1], v[2]>> /\ v[1] \in 1 .. Len(line) /\ v[2] \in 1 .. Len(line)
    BY <2>1
  <2>3. v[1] # 1
    BY <2>1, <2>2
  <2> QED BY <2>1, <2>2, <2>3 DEF IsArgument
<1>3. ASSUME NEW a, NEW b, IsArgument(line, a, b) PROVE <<a, b>> \in ArgumentWords(line)
  <2> DEFINE v == <<a, b>>
  <2>1. v \in (DOMAIN line) \X (DOMAIN line) /\ v[1] = a /\ v[2] = b
    BY <1>1, <1>3 DEF IsArgument
  <2> HIDE DEF v
  <2>2. v \in ArgumentWords(line)
    BY <1>3, <2>1 DEF ArgumentWords, Words, IsArgument
  <2> QED BY <2>2 DEF v
<1> QED BY <1>2, <1>3

LEMMA ArgumentsFinite ==
    ASSUME NEW line \in Seq(Char) PROVE IsFiniteSet(ArgumentWords(line))
<1>1. IsFiniteSet(1 .. Len(line))
  BY FS_Interval
<1>2. IsFiniteSet((1 .. Len(line)) \X (1 .. Len(line)))
  BY <1>1, FS_Product
<1>3. ArgumentWords(line) \subseteq (1 .. Len(line)) \X (1 .. Len(line))
  BY DEF ArgumentWords, Words
<1> QED BY <1>2, <1>3, FS_Subset

\* Two words are one behind the other.
LEMMA ArgumentsApart ==
    ASSUME NEW line \in Seq(Char), NEW a, NEW b, NEW c, NEW d,
           IsArgument(line, a, b), IsArgument(line, c, d)
    PROVE  /\ a = c => b = d
           /\ a < c => b < c
<1>1. /\ a \in Nat /\ b \in Nat /\ c \in Nat /\ d \in Nat /\ Len(line) \in Nat
      /\ a <= b /\ c <= d /\ b <= Len(line) /\ d <= Len(line) /\ a > 1 /\ c > 1
  BY DEF IsArgument
<1>2. ASSUME a = c, b < d PROVE FALSE
  <2>1. b + 1 \in c .. d /\ b # Len(line)
    BY <1>1, <1>2
  <2> QED BY <2>1 DEF IsArgument
<1>3. ASSUME a = c, d < b PROVE FALSE
  <2>1. d + 1 \in a .. b /\ d # Len(line)
    BY <1>1, <1>3
  <2> QED BY <2>1 DEF IsArgument
<1>4. ASSUME a < c, ~ (b < c) PROVE FALSE
  <2>1. c - 1 \in a .. b
    BY <1>1, <1>4
  <2> QED BY <2>1 DEF IsArgument
<1> QED BY <1>1, <1>2, <1>3, <1>4

Ahead(line, v) == {y \in ArgumentWords(line) : y[1] < v[1]}

\* The word with k words ahead of it is argument k.
LEMMA ArgumentIs ==
    ASSUME NEW line \in Seq(Char), NEW v \in ArgumentWords(line),
           NEW k, k = Cardinality(Ahead(line, v))
    PROVE  Argument(line, k) = SubSeq(line, v[1], v[2])
<1> DEFINE A == ArgumentWords(line)
<1>1. \A x \in A : x[1] \in Nat
  BY ArgumentsAre DEF IsArgument
<1>2. \A x \in A : IsFiniteSet(Ahead(line, x)) /\ Cardinality(Ahead(line, x)) \in Nat
  <2>1. \A x \in A : Ahead(line, x) \in SUBSET A
    BY DEF Ahead
  <2> QED BY <2>1, ArgumentsFinite, FS_Subset, FS_CardinalityType
<1>3. \A x, y \in A : x[1] < y[1] => Cardinality(Ahead(line, x)) # Cardinality(Ahead(line, y))
  <2>0. SUFFICES ASSUME NEW x \in A, NEW y \in A, x[1] < y[1]
                 PROVE  Cardinality(Ahead(line, x)) # Cardinality(Ahead(line, y))
    OBVIOUS
  <2>1. Ahead(line, x) \in SUBSET Ahead(line, y)
    BY <1>1, <2>0 DEF Ahead
  <2>2. x \in Ahead(line, y) /\ x \notin Ahead(line, x)
    BY <1>1, <2>0 DEF Ahead
  <2> QED BY <1>2, <2>1, <2>2, FS_Subset
<1>4. ASSUME NEW x \in A, Cardinality(Ahead(line, x)) = k PROVE x = v
  <2>0. v \in A /\ Cardinality(Ahead(line, v)) = Cardinality(Ahead(line, x))
    BY <1>4
  <2>1. ~ (x[1] < v[1]) /\ ~ (v[1] < x[1])
    BY <1>3, <2>0
  <2>2. x[1] = v[1]
    BY <1>1, <2>1
  <2>3. PICK a, b : x = <<a, b>> /\ x[1] = a /\ IsArgument(line, a, b)
    BY ArgumentsAre
  <2>4. PICK c, d : v = <<c, d>> /\ v[1] = c /\ IsArgument(line, c, d)
    BY ArgumentsAre
  <2>5. a = c
    BY <2>2, <2>3, <2>4
  <2>6. b = d
    BY <2>3, <2>4, <2>5, ArgumentsApart
  <2> QED BY <2>3, <2>4, <2>5, <2>6
<1>5. v = CHOOSE x \in A : Cardinality(Ahead(line, x)) = k
  BY <1>4
<1>6. Argument(line, k) =
        LET x == CHOOSE x \in A : Cardinality(Ahead(line, x)) = k IN SubSeq(line, x[1], x[2])
  BY DEF Argument, Ahead
<1> QED BY <1>5, <1>6
\* What the three scans of a round find from place i on: a space at gap, the word
\* behind the spaces from begin to end; each of them may be the end of the line.
Scan(line, i, gap, begin, end) ==
    /\ i \in 0 .. Len(line) - 1 /\ gap \in i .. Len(line) /\ begin \in gap .. Len(line)
    /\ end \in begin .. Len(line)
    /\ i = 0 \/ line[i + 1] = Space
    /\ \A j \in i + 1 .. gap : line[j] # Space
    /\ gap < Len(line) => line[gap + 1] = Space
    /\ \A j \in gap + 1 .. begin : line[j] = Space
    /\ begin < Len(line) => line[begin + 1] # Space
    /\ \A j \in begin + 1 .. end : line[j] # Space
    /\ end < Len(line) => line[end + 1] = Space

\* The arguments that end at i or ahead of it.
Upto(line, i) == {v \in ArgumentWords(line) : v[2] <= i}

LEMMA ScanMoves ==
    ASSUME NEW line \in Seq(Char), NEW i, NEW gap, NEW begin, NEW end,
           Scan(line, i, gap, begin, end)
    PROVE  /\ end > i
           /\ gap < Len(line) => gap < begin
           /\ begin < Len(line) => begin < end /\ gap < Len(line)
           /\ i # 0 => gap = i
<1>1. /\ i \in Nat /\ gap \in Nat /\ begin \in Nat /\ end \in Nat /\ Len(line) \in Nat
      /\ i < Len(line) /\ i <= gap /\ gap <= begin /\ begin <= end /\ end <= Len(line)
  BY DEF Scan
<1>2. gap < Len(line) => gap < begin
  <2>1. SUFFICES ASSUME gap < Len(line), gap = begin PROVE FALSE
    BY <1>1
  <2> QED BY <2>1 DEF Scan
<1>3. begin < Len(line) => begin < end
  <2>1. SUFFICES ASSUME begin < Len(line), begin = end PROVE FALSE
    BY <1>1
  <2> QED BY <2>1 DEF Scan
<1>4. i # 0 => gap = i
  <2>1. SUFFICES ASSUME i # 0, gap # i PROVE FALSE
    OBVIOUS
  <2>2. i + 1 \in i + 1 .. gap
    BY <1>1, <2>1
  <2> QED BY <2>1, <2>2 DEF Scan
<1> QED BY <1>1, <1>2, <1>3, <1>4

\* A word that ends behind i and not behind end is the one of the scan.
LEMMA ScanFinds ==
    ASSUME NEW line \in Seq(Char), NEW i, NEW gap, NEW begin, NEW end,
           Scan(line, i, gap, begin, end), NEW a, NEW b, IsArgument(line, a, b), b > i, b <= end
    PROVE  a = begin + 1 /\ b = end /\ begin < end
<1>1. /\ i \in Nat /\ gap \in Nat /\ begin \in Nat /\ end \in Nat /\ Len(line) \in Nat
      /\ i < Len(line) /\ i <= gap /\ gap <= begin /\ begin <= end /\ end <= Len(line)
      /\ a \in Nat /\ b \in Nat /\ a <= b /\ b <= Len(line) /\ a > 1
  BY DEF Scan, IsArgument
<1>2. line[b] # Space /\ line[a] # Space /\ line[a - 1] = Space
  BY <1>1 DEF IsArgument
<1>3. ~ (b <= gap)
  <2>1. SUFFICES ASSUME b <= gap PROVE FALSE
    OBVIOUS
  <2>2. i = 0
    BY <1>1, <2>1, ScanMoves
  <2>3. a - 1 \in i + 1 .. gap
    BY <1>1, <2>1, <2>2
  <2> QED BY <1>2, <2>3 DEF Scan
<1>4. ~ (b <= begin)
  <2>1. SUFFICES ASSUME b <= begin PROVE FALSE
    OBVIOUS
  <2>2. b \in gap + 1 .. begin
    BY <1>1, <1>3, <2>1
  <2> QED BY <1>2, <2>2 DEF Scan
<1>5. a >= begin + 1
  <2>1. SUFFICES ASSUME a <= begin PROVE FALSE
    BY <1>1
  <2>2. CASE gap < begin
    <3>1. begin \in a .. b /\ begin \in gap + 1 .. begin
      BY <1>1, <1>4, <2>1, <2>2
    <3> QED BY <3>1 DEF Scan, IsArgument
  <2>3. CASE gap = begin
    <3>1. begin < Len(line)
      BY <1>1, <1>4
    <3> QED BY <1>1, <2>3, <3>1, ScanMoves
  <2> QED BY <1>1, <2>2, <2>3
<1>6. ~ (a > begin + 1)
  <2>1. SUFFICES ASSUME a > begin + 1 PROVE FALSE
    OBVIOUS
  <2>2. a - 1 \in begin + 1 .. end
    BY <1>1, <2>1
  <2> QED BY <1>2, <2>2 DEF Scan
<1>7. ~ (b < end)
  <2>1. SUFFICES ASSUME b < end PROVE FALSE
    OBVIOUS
  <2>2. b + 1 \in begin + 1 .. end /\ b # Len(line)
    BY <1>1, <1>4, <2>1
  <2> QED BY <2>2 DEF Scan, IsArgument
<1> QED BY <1>1, <1>4, <1>5, <1>6, <1>7

\* The round adds the word it has found, if any.
LEMMA ScanAdds ==
    ASSUME NEW line \in Seq(Char), NEW i, NEW gap, NEW begin, NEW end,
           Scan(line, i, gap, begin, end), NEW v, v = <<begin + 1, end>>
    PROVE  /\ begin = Len(line) => Upto(line, end) = Upto(line, i)
           /\ begin < Len(line) =>
                 /\ v \in ArgumentWords(line) /\ v \notin Upto(line, i)
                 /\ Upto(line, end) = Upto(line, i) \cup {v}
                 /\ Ahead(line, v) = Upto(line, i)
<1>1. /\ i \in Nat /\ gap \in Nat /\ begin \in Nat /\ end \in Nat /\ Len(line) \in Nat
      /\ i < Len(line) /\ i <= gap /\ gap <= begin /\ begin <= end /\ end <= Len(line)
  BY DEF Scan
<1>2. v[1] = begin + 1 /\ v[2] = end
  OBVIOUS
<1>3. \A y \in ArgumentWords(line) :
         /\ y = <<y[1], y[2]>> /\ IsArgument(line, y[1], y[2])
         /\ y[1] \in Nat /\ y[2] \in Nat /\ y[1] <= y[2]
  BY ArgumentsAre DEF IsArgument
<1>4. \A y \in ArgumentWords(line) : y[2] > i /\ y[2] <= end => y = v /\ begin < end
  <2>1. SUFFICES ASSUME NEW y \in ArgumentWords(line), y[2] > i, y[2] <= end
                 PROVE  y = v /\ begin < end
    OBVIOUS
  <2>2. PICK a, b : y = <<a, b>> /\ IsArgument(line, a, b) /\ y[2] = b
    BY <1>3
  <2>3. a = begin + 1 /\ b = end /\ begin < end
    BY <2>1, <2>2, ScanFinds
  <2> QED BY <2>2, <2>3
<1>5. Upto(line, i) \subseteq Upto(line, end)
  BY <1>1, <1>3 DEF Upto
<1>6. CASE begin = Len(line)
  <2>1. ~ (begin < end)
    BY <1>1, <1>6
  <2>2. Upto(line, end) \subseteq Upto(line, i)
    BY <1>1, <1>3, <1>4, <2>1 DEF Upto
  <2>3. Upto(line, end) = Upto(line, i)
    BY <1>5, <2>2
  <2>4. ~ (begin < Len(line))
    BY <1>1, <1>6
  <2> QED BY <2>3, <2>4
<1>7. CASE begin < Len(line)
  <2>1. begin < end /\ gap < Len(line) /\ gap < begin /\ end > i
    BY <1>7, ScanMoves
  <2>2. IsArgument(line, begin + 1, end)
    <3>1. /\ begin + 1 \in 1 .. Len(line) /\ end \in 1 .. Len(line) /\ begin + 1 <= end
          /\ begin + 1 > 1 /\ (begin + 1) - 1 = begin /\ begin \in gap + 1 .. begin
      BY <1>1, <2>1
    <3>2. line[begin] = Space /\ \A j \in begin + 1 .. end : line[j] # Space
      BY <3>1 DEF Scan
    <3>3. end = Len(line) \/ line[end + 1] = Space
      BY <1>1 DEF Scan
    <3> QED BY <3>1, <3>2, <3>3 DEF IsArgument
  <2>3. v \in ArgumentWords(line)
    BY <2>2, ArgumentsAre
  <2>4. v \notin Upto(line, i) /\ v \in Upto(line, end)
    BY <1>1, <1>2, <2>1, <2>3 DEF Upto
  <2>5. Upto(line, end) \subseteq Upto(line, i) \cup {v}
    BY <1>1, <1>3, <1>4 DEF Upto
  <2>6. Ahead(line, v) \subseteq Upto(line, i)
    <3>1. SUFFICES ASSUME NEW y \in ArgumentWords(line), y[1] < begin + 1, ~ (y[2] <= i)
                   PROVE  FALSE
      BY <1>2 DEF Ahead, Upto
    <3>2. y[2] < begin + 1
      BY <1>3, <2>2, <3>1, ArgumentsApart
    <3>3. y[2] > i /\ y[2] <= end
      BY <1>1, <1>3, <3>1, <3>2
    <3> QED BY <1>1, <1>2, <1>3, <1>4, <2>1, <3>1, <3>3
  <2>7. Upto(line, i) \subseteq Ahead(line, v)
    BY <1>1, <1>2, <1>3 DEF Ahead, Upto
  <2> QED BY <1>1, <1>5, <1>7, <2>3, <2>4, <2>5, <2>6, <2>7
<1> QED BY <1>1, <1>6, <1>7

-----------------------------------------------------------------------------
(* The parser finds the words *)

LEMMA TextFacts ==
    ASSUME NEW s \in Memory, TextOf(s) \in Seq(Char)
    PROVE  /\ Len(TextOf(s)) = s.len /\ s.len \in Nat
           /\ \A j \in 0 .. s.len - 1 : TextOf(s)[j + 1] = s.info[j] /\ s.info[j] \in Char
           /\ \A j \in 1 .. s.len : TextOf(s)[j] = s.info[j - 1]
<1>1. s.len \in Nat
  BY Sizes DEF Memory
<1>2. Len(TextOf(s)) = s.len
  BY <1>1 DEF TextOf
<1>3. \A j \in 1 .. s.len : TextOf(s)[j] = s.info[j - 1]
  BY DEF TextOf
<1>4. \A j \in 1 .. s.len : TextOf(s)[j] \in Char
  BY <1>2
<1>5. ASSUME NEW j \in 0 .. s.len - 1
      PROVE  TextOf(s)[j + 1] = s.info[j] /\ s.info[j] \in Char
  <2>1. j + 1 \in 1 .. s.len /\ (j + 1) - 1 = j
    BY <1>1
  <2>2. TextOf(s)[j + 1] = s.info[j]
    BY <1>3, <2>1
  <2> QED BY <1>4, <2>1, <2>2
<1> QED BY <1>1, <1>2, <1>3, <1>5

\* What a round does with the word it has found.
RoundDone(line, w, r, gap, begin, end) ==
    /\ Scan(line, w.i, gap, begin, end)
    /\ r.i = end
    /\ r.first = IF w.first = -1 /\ gap < Len(line) THEN gap ELSE w.first
    /\ r.neff = IF gap < Len(line) THEN w.neff + 1 ELSE w.neff
    /\ begin = Len(line) => r.args = w.args /\ ~ r.over
    /\ begin < Len(line) =>
          /\ r.over <=> ~ (w.neff < MaxArgs /\ end - begin <= ArgBytes)
          /\ ~ r.over => r.args = [w.args EXCEPT ![w.neff] = SubSeq(line, begin + 1, end)]

\* A round goes on from the start of the line or from a space.
AtGap(line, i) == i = 0 \/ i = Len(line) \/ line[i + 1] = Space

LEMMA ScanOf ==
    ASSUME NEW s \in Memory, TextOf(s) \in Seq(Char), NEW i \in 0 .. s.len, i < s.len,
           AtGap(TextOf(s), i),
           NEW gap, gap = FirstFrom(s, i, {Space}),
           NEW begin, begin = FirstFrom(s, gap, NotSpace),
           NEW end, end = FirstFrom(s, begin, {Space})
    PROVE  Scan(TextOf(s), i, gap, begin, end)
<1> DEFINE line == TextOf(s)
           n == s.len
<1>0. i \in Nat
  BY TextFacts
<1>1. /\ Len(line) = n /\ n \in Nat
      /\ \A j \in 0 .. n - 1 : line[j + 1] = s.info[j] /\ s.info[j] \in Char
      /\ \A j \in 1 .. n : line[j] = s.info[j - 1]
  BY TextFacts
<1>2. /\ gap \in i .. n /\ (gap < n => s.info[gap] = Space)
      /\ \A j \in i .. gap - 1 : s.info[j] # Space
  BY FirstFromPlace
<1>3. gap \in 0 .. n
  BY <1>1, <1>2
<1>4. /\ begin \in gap .. n /\ (begin < n => s.info[begin] \in NotSpace)
      /\ \A j \in gap .. begin - 1 : s.info[j] \notin NotSpace
  BY <1>3, FirstFromPlace
<1>5. begin \in 0 .. n
  BY <1>1, <1>3, <1>4
<1>6. /\ end \in begin .. n /\ (end < n => s.info[end] = Space)
      /\ \A j \in begin .. end - 1 : s.info[j] # Space
  BY <1>5, FirstFromPlace
<1>7. end \in 0 .. n
  BY <1>1, <1>5, <1>6
<1> HIDE DEF line, n
<1>8. \A j \in i + 1 .. gap : line[j] # Space
  <2>1. SUFFICES ASSUME NEW j \in i + 1 .. gap PROVE line[j] # Space
    OBVIOUS
  <2>2. j - 1 \in i .. gap - 1 /\ j \in 1 .. n
    BY <1>0, <1>1, <1>3
  <2> QED BY <1>1, <1>2, <2>2
<1>9. \A j \in gap + 1 .. begin : line[j] = Space
  <2>1. SUFFICES ASSUME NEW j \in gap + 1 .. begin PROVE line[j] = Space
    OBVIOUS
  <2>2. j - 1 \in gap .. begin - 1 /\ j \in 1 .. n /\ j - 1 \in 0 .. n - 1
    BY <1>1, <1>3, <1>5
  <2> QED BY <1>1, <1>4, <2>2 DEF NotSpace
<1>10. \A j \in begin + 1 .. end : line[j] # Space
  <2>1. SUFFICES ASSUME NEW j \in begin + 1 .. end PROVE line[j] # Space
    OBVIOUS
  <2>2. j - 1 \in begin .. end - 1 /\ j \in 1 .. n
    BY <1>1, <1>5, <1>7
  <2> QED BY <1>1, <1>6, <2>2
<1>11. /\ gap < n => line[gap + 1] = Space
       /\ begin < n => line[begin + 1] # Space
       /\ end < n => line[end + 1] = Space
  <2>1. /\ gap < n => gap \in 0 .. n - 1
        /\ begin < n => begin \in 0 .. n - 1
        /\ end < n => end \in 0 .. n - 1
    BY <1>1, <1>3, <1>5, <1>7
  <2> QED BY <1>1, <1>2, <1>4, <1>6, <2>1 DEF NotSpace
<1>12. i \in 0 .. n - 1 /\ (i = 0 \/ line[i + 1] = Space)
  BY <1>1 DEF AtGap, line, n
<1> QED BY <1>1, <1>2, <1>4, <1>6, <1>8, <1>9, <1>10, <1>11, <1>12 DEF Scan, line

\* The word a round takes, and that it is a part of the line.
Taken(s, begin, end) == [k \in 1 .. end - begin |-> s.info[begin + k - 1]]

LEMMA WordIs ==
    ASSUME NEW s \in Memory, TextOf(s) \in Seq(Char), NEW begin, NEW end,
           begin \in 0 .. s.len, end \in begin .. s.len
    PROVE  /\ begin = end => Taken(s, begin, end) = << >>
           /\ begin < end => /\ Taken(s, begin, end) = SubSeq(TextOf(s), begin + 1, end)
                            /\ Taken(s, begin, end) # << >>
           /\ Len(Taken(s, begin, end)) = end - begin
<1> DEFINE line == TextOf(s)
           word == [k \in 1 .. end - begin |-> s.info[begin + k - 1]]
<1>1. /\ Len(line) = s.len /\ s.len \in Nat
      /\ \A j \in 0 .. s.len - 1 : line[j + 1] = s.info[j]
  BY TextFacts
<1> HIDE DEF line
<1>2. begin \in Nat /\ end \in Nat /\ begin <= end /\ end <= s.len /\ end - begin \in Nat
  BY <1>1
<1>3. Len(word) = end - begin
  BY <1>2
<1>4. ASSUME begin < end PROVE word = SubSeq(line, begin + 1, end) /\ word # << >>
  <2>1. (end - (begin + 1)) + 1 = end - begin
    BY <1>2
  <2>2. SubSeq(line, begin + 1, end) = [k \in 1 .. end - begin |-> line[begin + 1 + k - 1]]
    BY <1>1, <1>2, <2>1 DEF line
  <2>3. \A k \in 1 .. end - begin : line[begin + 1 + k - 1] = s.info[begin + k - 1]
    <3>1. SUFFICES ASSUME NEW k \in 1 .. end - begin
                   PROVE  line[begin + 1 + k - 1] = s.info[begin + k - 1]
      OBVIOUS
    <3>2. begin + k - 1 \in 0 .. s.len - 1 /\ (begin + k - 1) + 1 = begin + 1 + k - 1
      BY <1>1, <1>2
    <3> QED BY <1>1, <3>2
  <2>4. word = SubSeq(line, begin + 1, end)
    BY <2>2, <2>3
  <2>5. Len(word) # 0
    BY <1>2, <1>3, <1>4
  <2>6. word # << >>
    BY <2>5
  <2> QED BY <2>4, <2>6
<1>5. begin = end => word = << >>
  BY <1>2
<1>6. Taken(s, begin, end) = word
  BY DEF Taken
<1> HIDE DEF word
<1> QED BY <1>3, <1>4, <1>5, <1>6 DEF line

LEMMA RoundIs ==
    ASSUME NEW s \in Memory, TextOf(s) \in Seq(Char), NEW w \in Loop(s), w.i < s.len,
           AtGap(TextOf(s), w.i), NEW r, r = Round(s, w)
    PROVE  \E gap, begin, end : RoundDone(TextOf(s), w, r, gap, begin, end)
<1> DEFINE gap == FirstFrom(s, w.i, {Space})
           begin == FirstFrom(s, gap, NotSpace)
           end == FirstFrom(s, begin, {Space})
           word == [k \in 1 .. end - begin |-> s.info[begin + k - 1]]
           fits == w.neff < MaxArgs /\ Len(word) <= ArgBytes
           line == TextOf(s)
<1>0. Len(line) = s.len /\ s.len \in Nat /\ line \in Seq(Char)
  BY TextFacts
<1>1. Scan(line, w.i, gap, begin, end)
  <2>1. w.i \in 0 .. s.len
    BY DEF Loop
  <2> QED BY <2>1, ScanOf
<1>2. r = [i |-> end,
           first |-> IF w.first = -1 /\ gap < s.len THEN gap ELSE w.first,
           neff |-> IF gap < s.len THEN w.neff + 1 ELSE w.neff,
           args |-> IF fits /\ word # << >> THEN [w.args EXCEPT ![w.neff] = word]
                    ELSE w.args,
           over |-> word # << >> /\ ~ fits]
  BY Zenon DEF Round
<1> HIDE DEF gap, begin, end
<1>3. begin \in 0 .. s.len /\ end \in begin .. s.len
  BY <1>0, <1>1 DEF Scan
<1>4. /\ begin = end => word = << >>
      /\ begin < end => word = SubSeq(line, begin + 1, end) /\ word # << >>
      /\ Len(word) = end - begin
  <2>1. word = Taken(s, begin, end)
    BY DEF Taken
  <2> HIDE DEF word
  <2> QED BY <1>3, <2>1, WordIs
<1> HIDE DEF word, line
<1>5. /\ r.i = end
      /\ r.first = IF w.first = -1 /\ gap < s.len THEN gap ELSE w.first
      /\ r.neff = IF gap < s.len THEN w.neff + 1 ELSE w.neff
      /\ r.args = IF fits /\ word # << >> THEN [w.args EXCEPT ![w.neff] = word] ELSE w.args
      /\ r.over = (word # << >> /\ ~ fits)
  BY <1>2
<1>6. begin = Len(line) => r.args = w.args /\ ~ r.over
  <2>1. SUFFICES ASSUME begin = Len(line) PROVE r.args = w.args /\ ~ r.over
    OBVIOUS
  <2>2. begin = end
    BY <1>0, <1>3, <2>1
  <2> HIDE DEF fits
  <2> QED BY <1>4, <1>5, <2>2
<1>7. begin < Len(line) =>
          /\ r.over <=> ~ (w.neff < MaxArgs /\ end - begin <= ArgBytes)
          /\ ~ r.over => r.args = [w.args EXCEPT ![w.neff] = SubSeq(line, begin + 1, end)]
  <2>1. SUFFICES ASSUME begin < Len(line)
                 PROVE  /\ r.over <=> ~ (w.neff < MaxArgs /\ end - begin <= ArgBytes)
                        /\ ~ r.over => r.args = [w.args EXCEPT ![w.neff] =
                                                  SubSeq(line, begin + 1, end)]
    OBVIOUS
  <2>2. begin < end
    BY <1>0, <1>1, <2>1, ScanMoves
  <2>3. fits <=> w.neff < MaxArgs /\ end - begin <= ArgBytes
    BY <1>4
  <2> HIDE DEF fits
  <2>4. word = SubSeq(line, begin + 1, end) /\ word # << >>
    BY <1>4, <2>2
  <2> QED BY <1>5, <2>3, <2>4, Zenon
<1>8. RoundDone(line, w, r, gap, begin, end)
  BY <1>0, <1>1, <1>5, <1>6, <1>7 DEF RoundDone
<1> QED BY <1>8 DEF line

\* What the loop has done with the line up to its place.
ParseInv(line, w) ==
    IF w.over
    THEN \/ Cardinality(ArgumentWords(line)) > MaxArgs
         \/ \E v \in ArgumentWords(line) : v[2] - v[1] >= ArgBytes
    ELSE LET m == Cardinality(Upto(line, w.i)) IN
         /\ AtGap(line, w.i)
         /\ w.first = -1 => w.i \in {0, Len(line)} /\ \A j \in 1 .. w.i : line[j] # Space
         /\ w.first # -1 => /\ w.first < Len(line) /\ line[w.first + 1] = Space
                            /\ \A j \in 1 .. w.first : line[j] # Space
         /\ w.neff = m + (IF w.i = Len(line) /\ w.i > 0 /\ line[w.i] = Space THEN 1 ELSE 0)
         /\ m <= MaxArgs
         /\ \A k \in 0 .. MaxArgs - 1 : w.args[k] = IF k < m THEN Argument(line, k) ELSE << >>

LEMMA UptoFinite ==
    ASSUME NEW line \in Seq(Char), NEW i
    PROVE  /\ IsFiniteSet(Upto(line, i)) /\ Cardinality(Upto(line, i)) \in Nat
           /\ Cardinality(Upto(line, i)) <= Cardinality(ArgumentWords(line))
           /\ Cardinality(ArgumentWords(line)) \in Nat
<1>1. Upto(line, i) \in SUBSET ArgumentWords(line)
  BY DEF Upto
<1> QED BY <1>1, ArgumentsFinite, FS_Subset, FS_CardinalityType

\* The name of the command after a round.
LEMMA RoundFirst ==
    ASSUME NEW line \in Seq(Char), NEW w, NEW r, NEW gap, NEW begin, NEW end,
           RoundDone(line, w, r, gap, begin, end), w.first \in -1 .. Len(line),
           ParseInv(line, w), ~ w.over
    PROVE  /\ AtGap(line, r.i)
           /\ r.first = -1 => r.i \in {0, Len(line)} /\ \A j \in 1 .. r.i : line[j] # Space
           /\ r.first # -1 => /\ r.first < Len(line) /\ line[r.first + 1] = Space
                              /\ \A j \in 1 .. r.first : line[j] # Space
<1>1. Scan(line, w.i, gap, begin, end) /\ r.i = end
      /\ r.first = IF w.first = -1 /\ gap < Len(line) THEN gap ELSE w.first
  BY DEF RoundDone
<1>2. /\ w.i \in Nat /\ gap \in Nat /\ begin \in Nat /\ end \in Nat /\ Len(line) \in Nat
      /\ w.i < Len(line) /\ w.i <= gap /\ gap <= begin /\ begin <= end /\ end <= Len(line)
      /\ \A j \in w.i + 1 .. gap : line[j] # Space
      /\ gap < Len(line) => line[gap + 1] = Space
      /\ end < Len(line) => line[end + 1] = Space
  BY <1>1 DEF Scan
<1>3. AtGap(line, r.i)
  BY <1>1, <1>2 DEF AtGap
<1>4. /\ w.first = -1 => w.i = 0
      /\ w.first # -1 => /\ w.first < Len(line) /\ line[w.first + 1] = Space
                         /\ \A j \in 1 .. w.first : line[j] # Space
  BY <1>2 DEF ParseInv
<1>5. CASE w.first = -1 /\ gap < Len(line)
  <2>1. r.first = gap /\ \A j \in 1 .. gap : line[j] # Space
    BY <1>1, <1>2, <1>4, <1>5
  <2> QED BY <1>2, <1>3, <1>5, <2>1
<1>6. CASE w.first = -1 /\ gap = Len(line)
  <2>1. r.first = -1 /\ r.i = Len(line) /\ \A j \in 1 .. Len(line) : line[j] # Space
    BY <1>1, <1>2, <1>4, <1>6
  <2> QED BY <1>3, <2>1
<1>7. CASE w.first # -1
  <2>1. r.first = w.first
    BY <1>1, <1>7
  <2> QED BY <1>3, <1>4, <1>7, <2>1
<1> QED BY <1>2, <1>5, <1>6, <1>7

Trailing(line, i) == IF i = Len(line) /\ i > 0 /\ line[i] = Space THEN 1 ELSE 0

\* The arguments after a round.
LEMMA RoundArguments ==
    ASSUME NEW line \in Seq(Char), NEW w, NEW r, NEW gap, NEW begin, NEW end,
           RoundDone(line, w, r, gap, begin, end), w.args \in Arguments,
           ParseInv(line, w), ~ w.over, ~ r.over, NEW m, m = Cardinality(Upto(line, r.i))
    PROVE  /\ r.neff = m + Trailing(line, r.i)
           /\ m <= MaxArgs
           /\ \A k \in 0 .. MaxArgs - 1 : r.args[k] = IF k < m THEN Argument(line, k) ELSE << >>
<1> DEFINE n == Cardinality(Upto(line, w.i))
<1>1. Scan(line, w.i, gap, begin, end) /\ r.i = end
      /\ r.neff = IF gap < Len(line) THEN w.neff + 1 ELSE w.neff
  BY DEF RoundDone
<1>2. /\ w.i \in Nat /\ gap \in Nat /\ begin \in Nat /\ end \in Nat /\ Len(line) \in Nat
      /\ w.i < Len(line) /\ w.i <= gap /\ gap <= begin /\ begin <= end /\ end <= Len(line)
      /\ \A j \in w.i + 1 .. gap : line[j] # Space
      /\ \A j \in gap + 1 .. begin : line[j] = Space
      /\ \A j \in begin + 1 .. end : line[j] # Space
  BY <1>1 DEF Scan
<1>3. /\ w.neff = n /\ n <= MaxArgs /\ n \in Nat
      /\ \A k \in 0 .. MaxArgs - 1 : w.args[k] = IF k < n THEN Argument(line, k) ELSE << >>
  <2>1. n \in Nat
    BY UptoFinite
  <2> HIDE DEF n
  <2> QED BY <1>2, <2>1 DEF ParseInv, n
<1>4. CASE begin = Len(line)
  <2>1. r.args = w.args /\ m = n /\ end = Len(line)
    <3>1. r.args = w.args
      BY <1>4 DEF RoundDone
    <3>2. end = Len(line)
      BY <1>2, <1>4
    <3>3. PICK i, v : v = <<begin + 1, end>> /\ i = w.i
      OBVIOUS
    <3>4. Scan(line, i, gap, begin, end) /\ begin = Len(line)
      BY <1>1, <1>4, <3>3
    <3>5. Upto(line, end) = Upto(line, i)
      BY <3>3, <3>4, ScanAdds
    <3> QED BY <1>1, <3>1, <3>2, <3>3, <3>5
  <2>2. Trailing(line, end) = IF gap < Len(line) THEN 1 ELSE 0
    <3>1. CASE gap < Len(line)
      <4>1. end \in gap + 1 .. begin /\ end > 0
        BY <1>2, <1>4, <2>1, <3>1
      <4> QED BY <1>2, <2>1, <3>1, <4>1 DEF Trailing
    <3>2. CASE gap = Len(line)
      <4>1. end \in w.i + 1 .. gap
        BY <1>2, <2>1, <3>2
      <4> QED BY <1>2, <2>1, <3>2, <4>1 DEF Trailing
    <3> QED BY <1>2, <3>1, <3>2
  <2> HIDE DEF n
  <2> QED BY <1>1, <1>2, <1>3, <2>1, <2>2
<1>5. CASE begin < Len(line)
  <2>1. begin < end /\ gap < Len(line)
    BY <1>1, <1>5, ScanMoves
  <2> DEFINE v == <<begin + 1, end>>
  <2>2. /\ v \in ArgumentWords(line) /\ v \notin Upto(line, w.i)
        /\ Upto(line, end) = Upto(line, w.i) \cup {v}
        /\ Ahead(line, v) = Upto(line, w.i)
    BY <1>1, <1>5, ScanAdds
  <2>3. v[1] = begin + 1 /\ v[2] = end
    OBVIOUS
  <2> HIDE DEF v
  <2>4. m = n + 1
    BY <1>1, <2>2, UptoFinite, FS_AddElement
  <2>5. Argument(line, n) = SubSeq(line, begin + 1, end)
    <3>1. Argument(line, n) = SubSeq(line, v[1], v[2])
      BY <2>2, ArgumentIs
    <3> QED BY <2>3, <3>1
  <2> HIDE DEF n
  <2>6. w.neff < MaxArgs /\ r.args = [w.args EXCEPT ![w.neff] = SubSeq(line, begin + 1, end)]
    BY <1>5 DEF RoundDone
  <2>7. Trailing(line, end) = 0
    <3>1. end \in begin + 1 .. end
      BY <1>2, <2>1
    <3> QED BY <1>2, <3>1 DEF Trailing
  <2>8. r.neff = m + Trailing(line, end) /\ m <= MaxArgs
    BY <1>1, <1>3, <2>1, <2>4, <2>6, <2>7, Sizes
  <2>9. ASSUME NEW k \in 0 .. MaxArgs - 1
        PROVE  r.args[k] = IF k < m THEN Argument(line, k) ELSE << >>
    <3>1. r.args[k] = IF k = n THEN Argument(line, n) ELSE w.args[k]
      BY <1>3, <2>5, <2>6 DEF Arguments
    <3>2. k = n \/ (k < m <=> k < n)
      BY <1>3, <2>4, Sizes
    <3>3. k = n => k < m
      BY <1>3, <2>4
    <3> QED BY <1>3, <3>1, <3>2, <3>3
  <2> QED BY <1>1, <2>8, <2>9
<1> QED BY <1>2, <1>4, <1>5

LEMMA RoundInv ==
    ASSUME NEW line \in Seq(Char), NEW w, NEW r, NEW gap, NEW begin, NEW end,
           RoundDone(line, w, r, gap, begin, end), w.first \in -1 .. Len(line),
           w.args \in Arguments, ParseInv(line, w), ~ w.over
    PROVE  ParseInv(line, r) /\ r.i > w.i
<1>1. Scan(line, w.i, gap, begin, end) /\ r.i = end
  BY DEF RoundDone
<1>2. end > w.i
  BY <1>1, ScanMoves
<1>3. CASE ~ r.over
  <2> DEFINE m == Cardinality(Upto(line, r.i))
  <2>1. /\ AtGap(line, r.i)
        /\ r.first = -1 => r.i \in {0, Len(line)} /\ \A j \in 1 .. r.i : line[j] # Space
        /\ r.first # -1 => /\ r.first < Len(line) /\ line[r.first + 1] = Space
                           /\ \A j \in 1 .. r.first : line[j] # Space
    BY RoundFirst
  <2>2. /\ r.neff = m + Trailing(line, r.i)
        /\ m <= MaxArgs
        /\ \A k \in 0 .. MaxArgs - 1 : r.args[k] = IF k < m THEN Argument(line, k) ELSE << >>
    BY <1>3, RoundArguments
  <2>3. ParseInv(line, r)
    BY <1>3, <2>1, <2>2, Zenon DEF ParseInv, Trailing
  <2> QED BY <1>1, <1>2, <2>3
<1>4. CASE r.over
  <2>1. begin \in Nat /\ end \in Nat /\ Len(line) \in Nat /\ begin <= Len(line)
    BY <1>1 DEF Scan
  <2>2. begin < Len(line) /\ ~ (w.neff < MaxArgs /\ end - begin <= ArgBytes)
    BY <1>4, <2>1 DEF RoundDone
  <2> DEFINE v == <<begin + 1, end>>
  <2>3. /\ v \in ArgumentWords(line) /\ v \notin Upto(line, w.i)
        /\ Upto(line, end) = Upto(line, w.i) \cup {v}
    BY <1>1, <2>2, ScanAdds
  <2>4. v[1] = begin + 1 /\ v[2] = end
    OBVIOUS
  <2> HIDE DEF v
  <2> DEFINE n == Cardinality(Upto(line, w.i))
             c == Cardinality(ArgumentWords(line))
  <2>5. n \in Nat /\ c \in Nat /\ n + 1 <= c
    <3>1. Cardinality(Upto(line, end)) = n + 1
      BY <2>3, UptoFinite, FS_AddElement
    <3> QED BY <3>1, UptoFinite
  <2>6. w.neff = n
    <3>1. w.i < Len(line) /\ w.i \in Nat
      BY <1>1, <2>1 DEF Scan
    <3> HIDE DEF n
    <3> QED BY <2>1, <2>5, <3>1 DEF ParseInv, n
  <2> HIDE DEF n, c
  <2>7. c > MaxArgs \/ v[2] - v[1] >= ArgBytes
    BY <2>1, <2>2, <2>4, <2>5, <2>6, Sizes
  <2>8. ParseInv(line, r)
    BY <1>4, <2>3, <2>7 DEF ParseInv, c
  <2> QED BY <1>1, <1>2, <2>8
<1> QED BY <1>3, <1>4

-----------------------------------------------------------------------------
(* The rounds of the parser *)

LEMMA StartInv ==
    ASSUME NEW line \in Seq(Char) PROVE ParseInv(line, Start)
<1>1. Upto(line, 0) = {}
  <2>1. SUFFICES ASSUME NEW v \in ArgumentWords(line), v[2] <= 0 PROVE FALSE
    BY DEF Upto
  <2>2. v[2] \in 1 .. Len(line)
    BY ArgumentsAre DEF IsArgument
  <2> QED BY <2>1, <2>2
<1>2. Cardinality(Upto(line, 0)) = 0
  BY <1>1, FS_EmptySet
<1>3. /\ Start.i = 0 /\ Start.first = -1 /\ Start.neff = 0 /\ ~ Start.over
      /\ \A k \in 0 .. MaxArgs - 1 : Start.args[k] = << >>
  BY DEF Start, NoArgs
<1>4. \A k \in 0 .. MaxArgs - 1 : Start.args[k] = IF k < 0 THEN Argument(line, k) ELSE << >>
  BY <1>3, Sizes
<1> QED BY <1>2, <1>3, <1>4, Sizes DEF ParseInv, AtGap

\* A round keeps what the loop has established, and goes forward.
LEMMA RoundKeeps ==
    ASSUME NEW s \in Memory, TextOf(s) \in Seq(Char), NEW w \in Loop(s), w.i < s.len, ~ w.over,
           ParseInv(TextOf(s), w)
    PROVE  ParseInv(TextOf(s), Round(s, w)) /\ Round(s, w).i > w.i
<1> DEFINE line == TextOf(s)
           r == Round(s, w)
<1>1. AtGap(line, w.i)
  BY DEF ParseInv
<1>2. PICK gap, begin, end : RoundDone(line, w, r, gap, begin, end)
  BY <1>1, RoundIs
<1>3. w.first \in -1 .. Len(line) /\ w.args \in Arguments
  BY TextFacts DEF Loop
<1> HIDE DEF line, r
<1>4. ParseInv(line, r) /\ r.i > w.i
  BY <1>2, <1>3, RoundInv DEF line
<1> QED BY <1>4 DEF line, r

\* The rounds suffice: at their end the loop is behind the line, or has gone astray.
LEMMA ParsedSays ==
    ASSUME NEW s \in Memory, TextOf(s) \in Seq(Char), NEW w, w = Parsed(s)
    PROVE  ParseInv(TextOf(s), w) /\ (w.over \/ w.i = s.len)
<1>1. PICK e : LoopRun(s, e) /\ Parsed(s) = e[LineBytes]
  BY ParsedRun
<1> DEFINE line == TextOf(s)
           S == {k \in 0 .. LineBytes :
                   /\ ParseInv(line, e[k])
                   /\ e[k].over \/ e[k].i >= k \/ e[k].i >= s.len}
<1>2. LineBytes \in Nat /\ s.len \in 0 .. LineBytes
  BY Sizes DEF Memory
<1>3. 0 \in S
  <2>1. e[0] = Start /\ Start.i = 0
    BY <1>1 DEF LoopRun, Start
  <2>2. ParseInv(line, e[0])
    BY <2>1, StartInv
  <2> QED BY <1>2, <2>1, <2>2
<1>4. ASSUME NEW k \in 0 .. LineBytes - 1, k \in S PROVE k + 1 \in S
  <2> DEFINE x == e[k]
  <2>1. k + 1 \in 1 .. LineBytes /\ k + 1 \in 0 .. LineBytes /\ (k + 1) - 1 = k /\ k \in Nat
    BY <1>2
  <2>2. /\ x \in Loop(s)
        /\ e[k + 1] = IF x.i >= s.len \/ x.over THEN x ELSE Round(s, x)
    BY <1>1, <1>2, <2>1 DEF LoopRun
  <2>3. ParseInv(line, x) /\ (x.over \/ x.i >= k \/ x.i >= s.len)
    BY <1>4
  <2>4. x.i \in Nat /\ s.len \in Nat
    BY <1>2, <2>2 DEF Loop
  <2> HIDE DEF x, line
  <2>5. CASE x.i >= s.len \/ x.over
    <3>1. e[k + 1] = x
      BY <2>2, <2>5
    <3> QED BY <2>1, <2>3, <2>5, <3>1
  <2>6. CASE ~ (x.i >= s.len \/ x.over)
    <3>1. x.i < s.len /\ ~ x.over
      BY <2>4, <2>6
    <3>2. ParseInv(line, Round(s, x)) /\ Round(s, x).i > x.i
      BY <2>2, <2>3, <3>1, RoundKeeps DEF line
    <3>3. Round(s, x) \in Loop(s)
      BY <2>2, <3>1, RoundType
    <3>4. e[k + 1] = Round(s, x)
      BY <2>2, <2>6
    <3>5. Round(s, x).i \in Nat
      BY <2>4, <3>3 DEF Loop
    <3>6. Round(s, x).i >= k + 1
      BY <2>1, <2>3, <2>4, <2>6, <3>2, <3>5
    <3> QED BY <2>1, <3>2, <3>4, <3>6
  <2> QED BY <2>5, <2>6
<1> HIDE DEF S
<1>5. \A k \in 0 .. LineBytes : k \in S
  BY <1>2, <1>3, <1>4, IntervalInduction
<1>6. /\ ParseInv(line, e[LineBytes])
      /\ e[LineBytes].over \/ e[LineBytes].i >= LineBytes \/ e[LineBytes].i >= s.len
  BY <1>2, <1>5 DEF S
<1>7. e[LineBytes].i \in 0 .. s.len
  BY <1>1, <1>2 DEF LoopRun, Loop
<1> QED BY <1>1, <1>2, <1>6, <1>7

-----------------------------------------------------------------------------
(* What the commands get *)

\* Name and arguments of s are the words of the line.
WordsOf(line, s) ==
    LET n == Cardinality(ArgumentWords(line))
        trailing == line # << >> /\ line[Len(line)] = Space
    IN  /\ \A i \in 1 .. s.name : line[i] # Space
        /\ s.name = Len(line) \/ line[s.name + 1] = Space
        /\ s.neff = n + (IF trailing THEN 1 ELSE 0)
        /\ \A k \in 0 .. MaxArgs - 1 : s.args[k] = IF k < n THEN Argument(line, k) ELSE << >>

\* A line for which a store goes astray.
Astray(line) ==
    \/ Len(line) > LineBytes
    \/ Cardinality(ArgumentWords(line)) > MaxArgs
    \/ \E v \in ArgumentWords(line) : v[2] - v[1] >= ArgBytes

\* A shell at place a with memory s: the line is whole when the parser takes it over,
\* and what comes of it are its words.
WordsAt(a, s) ==
    /\ a = "parse" => TextOf(s) = Edited(s.taken)
    /\ a = "run" => WordsOf(Edited(s.taken), s)
    /\ a = "overrun" => Astray(Edited(s.taken))

WordsInv == \A p \in Processes : WordsAt(at[p], shell[p])

\* The end of the loop.
LEMMA LoopEnds ==
    ASSUME NEW line \in Seq(Char), NEW w, ParseInv(line, w), ~ w.over, w.i = Len(line),
           w.first \in -1 .. Len(line), NEW s, s.args = w.args, s.neff = w.neff,
           s.name = IF w.first # -1 THEN w.first ELSE w.i
    PROVE  WordsOf(line, s)
<1> DEFINE n == Cardinality(ArgumentWords(line))
<1>1. Upto(line, w.i) = ArgumentWords(line)
  <2>1. \A v \in ArgumentWords(line) : v[2] <= Len(line)
    BY ArgumentsAre DEF IsArgument
  <2> QED BY <2>1 DEF Upto
<1>2. Cardinality(Upto(line, w.i)) = n
  BY <1>1
<1> HIDE DEF n
<1>3. /\ w.first = -1 => \A j \in 1 .. w.i : line[j] # Space
      /\ w.first # -1 => /\ w.first < Len(line) /\ line[w.first + 1] = Space
                         /\ \A j \in 1 .. w.first : line[j] # Space
  BY DEF ParseInv
<1>4. w.neff = n + (IF w.i = Len(line) /\ w.i > 0 /\ line[w.i] = Space THEN 1 ELSE 0)
  BY <1>2 DEF ParseInv
<1>5. \A k \in 0 .. MaxArgs - 1 : w.args[k] = IF k < n THEN Argument(line, k) ELSE << >>
  BY <1>2 DEF ParseInv
<1>6. (line # << >> /\ line[Len(line)] = Space)
      <=> (w.i = Len(line) /\ w.i > 0 /\ line[w.i] = Space)
  <2>1. line # << >> <=> Len(line) > 0
    OBVIOUS
  <2> QED BY <2>1
<1>7. (\A i \in 1 .. s.name : line[i] # Space) /\ (s.name = Len(line) \/ line[s.name + 1] = Space)
  BY <1>3
<1>8. s.neff = n + (IF line # << >> /\ line[Len(line)] = Space THEN 1 ELSE 0)
  BY <1>4, <1>6
<1>9. \A k \in 0 .. MaxArgs - 1 : s.args[k] = IF k < n THEN Argument(line, k) ELSE << >>
  BY <1>5
<1> QED BY <1>7, <1>8, <1>9, Zenon DEF WordsOf, n

LEMMA OneShellWords ==
    ASSUME WordsInv, NEW p \in Processes, WordsAt(at'[p], shell'[p]),
           \A q \in Processes \ {p} : shell'[q] = shell[q] /\ at'[q] = at[q]
    PROVE  WordsInv'
<1>1. SUFFICES ASSUME NEW q \in Processes, q # p PROVE WordsAt(at'[q], shell'[q])
  BY DEF WordsInv
<1> QED BY <1>1 DEF WordsInv

LEMMA WordsUnchanged ==
    ASSUME WordsInv, UNCHANGED <<shell, at>> PROVE WordsInv'
BY DEF WordsInv

LEMMA WordsElsewhere ==
    ASSUME NEW a \in Place \ {"parse", "run", "overrun"}, NEW s PROVE WordsAt(a, s)
BY DEF WordsAt

LEMMA PromptWords ==
    ASSUME MachineTypeOK, ShellsInv, WordsInv, NEW p \in Processes, print_template(p)
    PROVE  WordsInv'
<1>1. PICK a \in {"poll", "parse"} : Goes(p, a)
  BY DEF print_template
<1>2. shell' = [shell EXCEPT ![p] = Fresh]
  BY DEF print_template
<1>3. at'[p] = a /\ \A q \in Processes \ {p} : at'[q] = at[q]
  BY <1>1, GoesAt
<1>4. shell'[p] = Fresh /\ \A q \in Processes \ {p} : shell'[q] = shell[q]
  BY <1>2, ShellSet DEF ShellsInv
<1>5. WordsAt(a, Fresh)
  BY FreshMemory DEF WordsAt
<1> QED BY <1>3, <1>4, <1>5, OneShellWords

\* A newline ends the line and is not part of it.
LEMMA GetcharWords ==
    ASSUME MachineTypeOK, KeyboardTypeOK, ShellsInv, WordsInv, NEW p \in Processes, getchar(p)
    PROVE  WordsInv'
<1> DEFINE c == keyboard_buffer
           a == IF c = Nul THEN "poll" ELSE IF c = Newline THEN "parse" ELSE "echo"
           s == shell[p]
           r == [s EXCEPT !.buf = c, !.taken = IF c = Nul THEN @ ELSE Append(@, c)]
<1>1. at[p] = "poll" /\ Goes(p, a)
      /\ shell' = [shell EXCEPT ![p].buf = c,
                                ![p].taken = IF c = Nul THEN @ ELSE Append(@, c)]
  BY DEF getchar
<1>2. /\ s \in Memory /\ TextOf(s) = Edited(s.taken) /\ DOMAIN shell = Processes
      /\ c \in Char \cup {Nul}
  BY <1>1 DEF ShellsInv, ShellInv, KeyboardTypeOK
<1>3. shell' = [shell EXCEPT ![p] = r]
  BY <1>1, <1>2
<1>4. at'[p] = a /\ \A q \in Processes \ {p} : at'[q] = at[q]
  BY <1>1, GoesAt
<1>5. shell'[p] = r /\ \A q \in Processes \ {p} : shell'[q] = shell[q]
  BY <1>2, <1>3, ShellSet
<1>6. s.taken \in Seq(Char)
  BY <1>2 DEF Memory
<1>7. /\ r.taken = (IF c = Nul THEN s.taken ELSE Append(s.taken, c))
      /\ r.info = s.info /\ r.len = s.len
  BY <1>2 DEF Memory
<1> HIDE DEF r
<1>8. TextOf(r) = TextOf(s)
  BY <1>7 DEF TextOf
<1>9. WordsAt(a, r)
  <2>1. CASE c = Newline
    <3>1. a = "parse" /\ r.taken = Append(s.taken, Newline) /\ Newline \in Char
      BY <1>7, <2>1, CharFacts
    <3>2. Edited(r.taken) = Keyed(Edited(s.taken), Newline)
      BY <1>6, <3>1, EditedAppend
    <3>3. \A x : Keyed(x, Newline) = x
      BY CharFacts DEF Keyed
    <3>4. TextOf(r) = Edited(r.taken)
      BY <1>2, <1>8, <3>2, <3>3
    <3> HIDE DEF a
    <3> QED BY <3>1, <3>4 DEF WordsAt
  <2>2. CASE c # Newline
    <3>1. a \in Place \ {"parse", "run", "overrun"}
      BY <2>2 DEF Place
    <3> QED BY <3>1, WordsElsewhere
  <2> QED BY <2>1, <2>2
<1> QED BY <1>4, <1>5, <1>9, OneShellWords

\* The character without room makes the line longer than info.
LEMMA EchoWords ==
    ASSUME MachineTypeOK, ShellsInv, WordsInv, NEW p \in Processes, echo(p) PROVE WordsInv'
<1> DEFINE s == shell[p]
           full == s.buf # Backspace /\ s.len = LineBytes
           a == IF full THEN "overrun" ELSE "poll"
           r == IF full THEN s ELSE Echoed(s, s.buf)
<1>1. at[p] = "echo" /\ Goes(p, a) /\ shell' = [shell EXCEPT ![p] = r]
  BY DEF echo, Echoed
<1>2. s \in Memory /\ s.buf \in Char \ {Newline} /\ DOMAIN shell = Processes
  BY <1>1 DEF ShellsInv, ShellInv
<1>3. PICK t \in Seq(Char) : s.taken = Append(t, s.buf) /\ TextOf(s) = Edited(t)
  BY <1>1 DEF ShellsInv, ShellInv
<1>4. at'[p] = a /\ \A q \in Processes \ {p} : at'[q] = at[q]
  BY <1>1, GoesAt
<1>5. shell'[p] = r /\ \A q \in Processes \ {p} : shell'[q] = shell[q]
  BY <1>1, <1>2, ShellSet
<1>6. WordsAt(a, r)
  <2>1. CASE full
    <3>1. a = "overrun" /\ r = s /\ s.buf # Backspace /\ s.len = LineBytes
      BY <2>1
    <3>2. TextOf(s) \in Seq(Char) /\ Len(TextOf(s)) = LineBytes
      BY <1>2, <1>3, <3>1, EditedType, TextFacts
    <3>3. Edited(s.taken) = Keyed(TextOf(s), s.buf)
      BY <1>2, <1>3, EditedAppend
    <3>4. Keyed(TextOf(s), s.buf) = Append(TextOf(s), s.buf)
      BY <1>2, <3>1 DEF Keyed
    <3>5. Len(Edited(s.taken)) > LineBytes
      BY <3>2, <3>3, <3>4, Sizes
    <3> HIDE DEF a, r
    <3> QED BY <3>1, <3>5 DEF WordsAt, Astray
  <2>2. CASE ~ full
    <3>1. a \in Place \ {"parse", "run", "overrun"}
      BY <2>2 DEF Place
    <3> QED BY <3>1, WordsElsewhere
  <2> QED BY <2>1, <2>2
<1> QED BY <1>4, <1>5, <1>6, OneShellWords

LEMMA ParseWords ==
    ASSUME MachineTypeOK, ShellsInv, WordsInv, NEW p \in Processes, parse(p) PROVE WordsInv'
<1> DEFINE s == shell[p]
           w == Parsed(s)
           a == IF w.over THEN "overrun" ELSE "run"
           name == IF w.first # -1 THEN w.first ELSE w.i
           r == [s EXCEPT !.name = name, !.args = w.args, !.neff = w.neff]
           line == TextOf(s)
<1>1. /\ at[p] = "parse" /\ Goes(p, a)
      /\ shell' = [shell EXCEPT ![p].name = name, ![p].args = w.args, ![p].neff = w.neff]
  BY DEF parse
<1>2. s \in Memory /\ DOMAIN shell = Processes /\ line = Edited(s.taken)
  BY <1>1 DEF ShellsInv, ShellInv, WordsInv, WordsAt
<1>3. line \in Seq(Char)
  BY <1>2, EditedType DEF Memory
<1>4. w \in Loop(s)
  BY <1>2, ParsedType
<1>5. ParseInv(line, w) /\ (w.over \/ w.i = s.len)
  BY <1>2, <1>3, ParsedSays
<1> HIDE DEF w
<1>6. Len(line) = s.len /\ w.first \in -1 .. Len(line)
  BY <1>2, <1>3, <1>4, TextFacts DEF Loop
<1>7. shell' = [shell EXCEPT ![p] = r]
  BY <1>1, <1>2
<1>8. at'[p] = a /\ \A q \in Processes \ {p} : at'[q] = at[q]
  BY <1>1, GoesAt
<1>9. shell'[p] = r /\ \A q \in Processes \ {p} : shell'[q] = shell[q]
  BY <1>2, <1>7, ShellSet
<1>10. r.taken = s.taken /\ r.args = w.args /\ r.neff = w.neff /\ r.name = name
  BY <1>2 DEF Memory
<1>11. line = Edited(r.taken)
  BY <1>2, <1>10
<1> HIDE DEF r, line
<1>12. WordsAt(a, r)
  <2>1. CASE w.over
    <3>1. Astray(line)
      BY <1>5, <2>1 DEF ParseInv, Astray
    <3>2. a = "overrun"
      BY <2>1
    <3> HIDE DEF a
    <3> QED BY <1>11, <3>1, <3>2 DEF WordsAt
  <2>2. CASE ~ w.over
    <3>1. w.i = Len(line)
      BY <1>5, <1>6, <2>2
    <3>2. WordsOf(line, r)
      BY <1>3, <1>5, <1>6, <1>10, <2>2, <3>1, LoopEnds
    <3>3. a = "run"
      BY <2>2
    <3> HIDE DEF a
    <3> QED BY <1>11, <3>2, <3>3 DEF WordsAt
  <2> QED BY <2>1, <2>2
<1> QED BY <1>8, <1>9, <1>12, OneShellWords

LEMMA QuietWords ==
    ASSUME MachineTypeOK, WordsInv, NEW p \in Processes, start(p) \/ command(p)
    PROVE  WordsInv'
<1>1. Goes(p, "prompt") /\ shell' = shell
  BY DEF start, command
<1>2. at'[p] = "prompt" /\ \A q \in Processes \ {p} : at'[q] = at[q]
  BY <1>1, GoesAt
<1>3. WordsAt(at'[p], shell'[p])
  BY <1>2, WordsElsewhere DEF Place
<1> QED BY <1>1, <1>2, <1>3, OneShellWords

LEMMA ExecWords ==
    ASSUME MachineTypeOK, WordsInv, NEW p \in Processes, NEW q \in Processes, exec(p, q)
    PROVE  WordsInv'
<1>1. at' = [at EXCEPT ![p] = "prompt", ![q] = "start"] /\ shell' = shell
  BY DEF exec
<1>2. DOMAIN at = Processes
  BY DEF MachineTypeOK
<1>3. SUFFICES ASSUME NEW r \in Processes PROVE WordsAt(at'[r], shell'[r])
  BY DEF WordsInv
<1>4. CASE r \in {p, q}
  <2>1. at'[r] \in {"prompt", "start"}
    BY <1>1, <1>2, <1>4
  <2>2. at'[r] \in Place \ {"parse", "run", "overrun"}
    BY <2>1 DEF Place
  <2> QED BY <2>2, WordsElsewhere
<1>5. CASE r \notin {p, q}
  <2>1. at'[r] = at[r]
    BY <1>1, <1>2, <1>5
  <2> QED BY <1>1, <2>1 DEF WordsInv
<1> QED BY <1>4, <1>5

LEMMA WordsNext ==
    MachineInv /\ KeyInv /\ ShellsInv /\ WordsInv /\ [LineNext]_lineVars => WordsInv'
<1> SUFFICES ASSUME MachineInv, KeyInv, ShellsInv, WordsInv, [LineNext]_lineVars PROVE WordsInv'
  OBVIOUS
<1>0. MachineTypeOK /\ KeyboardTypeOK /\ First \in Processes /\ DOMAIN at = Processes
  BY ProcessesAssumption DEF MachineInv, KeyInv, MachineTypeOK
<1>1. CASE KernelSetup /\ UNCHANGED <<keyboard, shell>>
  <2>1. CASE at' = at
    BY <1>1, <2>1, WordsUnchanged
  <2>2. CASE process_create_user_process
    <3>1. at'[First] = "start" /\ shell' = shell /\ \A q \in Processes \ {First} : at'[q] = at[q]
      BY <1>0, <1>1, <2>2 DEF process_create_user_process
    <3>2. WordsAt(at'[First], shell'[First])
      BY <3>1, WordsElsewhere DEF Place
    <3> QED BY <1>0, <3>1, <3>2, OneShellWords
  <2> QED BY <1>1, <2>1, <2>2 DEF KernelSetup, load_gdt, pic_remap, initialize_idt,
       activate_keyboard_interrupt, gdt_install_tss, set_tss_register,
       set_tss_kernel_current_stack, scheduler_init,
       scheduler_switch_to_next_process, SwitchTo
<1>2. CASE Tick /\ UNCHANGED <<keyboard, shell>>
  BY <1>2, WordsUnchanged DEF Tick
<1>3. CASE \E k \in Scancode : Strike(k) /\ UNCHANGED shell
  BY <1>3, WordsUnchanged DEF Strike
<1>4. CASE keyboard_isr /\ UNCHANGED shell
  BY <1>4, WordsUnchanged DEF keyboard_isr, KeyboardInterrupt
<1>5. CASE Timer
  BY <1>5, WordsUnchanged DEF Timer, timer_isr, SwitchTo
<1>6. ASSUME NEW p \in Processes, Step(p) PROVE WordsInv'
  BY <1>0, <1>6, QuietWords, PromptWords, GetcharWords, EchoWords, ParseWords, ExecWords DEF Step
<1>7. CASE UNCHANGED lineVars
  BY <1>7, WordsUnchanged DEF lineVars, machine
<1>8. CASE \E p \in Processes : Overrun(p)
  BY <1>7, <1>8 DEF Overrun
<1> QED BY <1>1, <1>2, <1>3, <1>4, <1>5, <1>6, <1>7, <1>8 DEF LineNext

\* Whatever the line, get_command hands its words to the command, in their order, and
\* leaves its arrays only for a line, a word or a number of words they cannot hold:
\* the rounds of its loop never skip a word, join two, or count one twice.
THEOREM CommandsGetTheirWords == LineSpec => []ParsedWords
<1>1. LineInit => WordsInv
  <2>1. SUFFICES ASSUME LineInit, NEW p \in Processes PROVE WordsAt(at[p], shell[p])
    BY DEF WordsInv
  <2>2. at[p] = "none"
    BY <2>1 DEF LineInit, MachineInit
  <2> QED BY <2>2, WordsElsewhere DEF Place
<1>2. WordsInv => ParsedWords
  BY Zenon DEF WordsInv, WordsAt, WordsOf, Astray, ParsedWords
<1> QED BY <1>1, <1>2, LineInvariance, WordsNext, PTL DEF LineSpec

=============================================================================

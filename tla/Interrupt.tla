----------------------------- MODULE Interrupt -----------------------------
(***************************************************************************)
(* How the kernel is entered and left: the steps of kernel_setup up to the  *)
(* first user process, the interrupt controller, the assembly stubs, the    *)
(* frame they leave for C, and the context the timer saves and restores.    *)
(* Every gate is an interrupt gate, so a handler runs with interrupts off   *)
(* and is one step.  Which process a tick switches to is the subject of     *)
(* Scheduler; here it may be any that has been created.                     *)
(*                                                                         *)
(* A word is a pair: <<"eax", <<p, a>>>> is what eax holds when process p   *)
(* is at place a of its program, and stays apart from any other word; a     *)
(* selector holds its number, and of eflags only the interrupt flag is kept.*)
(* The processor and the 8259 (one of the pair, in edge mode) are external. *)
(***************************************************************************)
EXTENDS Integers, Sequences

CONSTANTS
    Processes,  \* the processes that may be created
    First,      \* the one kernel_setup creates, of the executable "shell"
    Nobody      \* no process: kernel_setup runs

ASSUME ProcessesAssumption == First \in Processes /\ Nobody \notin Processes

IRQ_TIMER == 0
IRQ_KEYBOARD == 1
IRQ == {IRQ_TIMER, IRQ_KEYBOARD}
PIC1_OFFSET == 32
PAGE_FAULT == 14
SYSCALL == 48

KernelCode == <<"selector", 8>>
KernelData == <<"selector", 16>>
UserCode == <<"selector", 27>>
UserData == <<"selector", 35>>

\* The privilege level in a selector.
Level(w) == w[2] % 4

VARIABLES
    setup,      \* the call of kernel_setup that comes next, "user" after the last
    pic,        \* requested, masked and in-service interrupts
    gates,      \* the IDT is loaded
    tss,        \* base: in its descriptor; tr: in the task register; esp0: set
    cpu,        \* the registers
    running,    \* the process whose code runs
    context,    \* the context in each PCB
    at          \* where each process is in its program

machine == <<setup, pic, gates, tss, cpu, running, context, at>>

General == {"edi", "esi", "ebp", "esp", "ebx", "edx", "ecx", "eax", "eip"}
Register == General \cup {"gs", "fs", "es", "ds", "ss", "cs", "eflags"}

\* The registers of process p at place a of its program.
UserRegisters(p, a) ==
    [r \in Register |->
        CASE r \in General  -> <<r, <<p, a>>>>
          [] r = "cs"       -> UserCode
          [] r = "eflags"   -> <<r, TRUE>>
          [] OTHER          -> UserData]

\* Those of kernel_setup at call a; load_gdt leaves fs and gs to the boot loader.
KernelRegisters(a, enabled) ==
    [r \in Register |->
        CASE r \in General      -> <<r, <<Nobody, a>>>>
          [] r = "cs"           -> KernelCode
          [] r = "eflags"       -> <<r, enabled>>
          [] r \in {"fs", "gs"} -> <<r, <<Nobody, "boot loader">>>>
          [] OTHER              -> KernelData]

InterruptsOn == cpu.eflags[2]
UserMode == Level(cpu.cs) # 0

-----------------------------------------------------------------------------
(* Entry and return.  A frame is the sequence of its words, lowest first.    *)

\* struct CPURegister.
CPURegister == <<"edi", "esi", "ebp", "esp", "ebx", "edx", "ecx", "eax",
                 "gs", "fs", "es", "ds">>

\* What the processor pushes: the stack pointer only when the level changes.
Pushed ==
    <<cpu.eip, cpu.cs, cpu.eflags>>
    \o (IF UserMode THEN <<cpu.esp, cpu.ss>> ELSE << >>)

\* What the stub of gate n and call_generic_handler push on top of it: number,
\* error code, segments, and pushad, whose esp is the one of the kernel's stack.
Stacked(n) ==
    [i \in 1 .. Len(CPURegister) |->
        IF CPURegister[i] = "esp" THEN <<"esp", <<Nobody, "kernel stack">>>>
        ELSE cpu[CPURegister[i]]]
    \o <<<<"number", n>>, <<"error code", 0>>>>
    \o Pushed

\* The word at [esp+offset], below the two that are pushed for a while.
WordAt(offset) == (offset - 8) \div 4 + 1

\* Fault: the stack pointer is taken from the word below it.
Entered_FlagsForEsp(n) ==
    LET f == Stacked(n)
    IN  IF Level(f[WordAt(52)]) = 0 THEN f
        ELSE [f EXCEPT ![WordAt(20)] = f[WordAt(72)]]

\* The frame main_interrupt_handler gets: coming from user mode, esp is that of
\* the process.
Entered(n) ==
    LET f == Stacked(n)
    IN  IF Level(f[WordAt(52)]) = 0 THEN f
        ELSE [f EXCEPT ![WordAt(20)] = f[WordAt(76)]]

\* popad, which skips esp, and the pops of the segments: the word each one gets.
Popped ==
    [r \in {CPURegister[i] : i \in 1 .. Len(CPURegister)} |->
        CHOOSE i \in 1 .. Len(CPURegister) : CPURegister[i] = r]

\* iret, with eip, cs, eflags and then esp and ss from the i-th word on: these two
\* are loaded only when the level changes.
Loaded(f, i) ==
    [r \in Register |->
        CASE r = "eip"    -> f[i]
          [] r = "cs"     -> f[i + 1]
          [] r = "eflags" -> f[i + 2]
          [] r = "esp"    -> IF Level(f[i + 1]) = 0 THEN cpu.esp ELSE f[i + 3]
          [] r = "ss"     -> IF Level(f[i + 1]) = 0 THEN cpu.ss ELSE f[i + 4]
          [] OTHER        -> f[Popped[r]]]

\* The end of call_generic_handler: number and error code are dropped.
Returned(f) == Loaded(f, 15)

\* struct InterruptFrame, laid over the words.
int_number(f) == f[13][2]

\* The case of main_interrupt_handler.  Of the others, a page fault halts the
\* machine with interrupts off, and any other exception is returned from.
HandlerOf(f) ==
    CASE int_number(f) = PIC1_OFFSET + IRQ_TIMER    -> "timer_isr"
      [] int_number(f) = PIC1_OFFSET + IRQ_KEYBOARD -> "keyboard_isr"
      [] int_number(f) = SYSCALL                    -> "syscall"
      [] int_number(f) = PAGE_FAULT                 -> "hlt"
      [] OTHER                                      -> "default"

-----------------------------------------------------------------------------
(* Contexts *)

\* struct Context, as words: those of CPURegister, then eip, cs, eflags, esp, ss.
\* The context of a process that runs is not looked at before it is saved again.
NotSaved == << >>

\* The context process_create_user_process prepares: its registers at "start" are
\* the ones set here and, of those not set, the ones found in the PCB.
NewContext(p) ==
    LET first == UserRegisters(p, "start")
    IN  [i \in 1 .. Len(CPURegister) |-> first[CPURegister[i]]]
        \o <<first.eip, UserCode, <<"eflags", TRUE>>, first.esp, UserData>>

\* What timer_isr saves of frame f: esp is that of the stub, ss a constant.
Saved(f) ==
    SubSeq(f, 1, Len(CPURegister)) \o <<f[15], f[16], f[17], f[4], UserData>>

process_context_switch(c) == Loaded(c, 13)

Created(p) == at[p] # "none"

-----------------------------------------------------------------------------
(* The interrupt controller *)

\* An interrupt the processor would accept now: the most urgent one requested,
\* when none as urgent is in service.
Deliverable(i) ==
    /\ InterruptsOn
    /\ i \in pic.irr \ pic.mask
    /\ \A j \in IRQ : j \in (pic.irr \ pic.mask) \cup pic.isr => j >= i
    /\ i \notin pic.isr

Accepted(i) == [pic EXCEPT !.irr = @ \ {i}, !.isr = @ \cup {i}]

\* Fault: the end of the interrupt is not signalled.
pic_ack_None(c) == c

\* The most urgent interrupt in service is over.
pic_ack(c) == [c EXCEPT !.isr = {j \in @ : \E k \in @ : k < j}]

\* The timer chip requests an interrupt, from before the kernel starts.
Tick ==
    /\ pic' = [pic EXCEPT !.irr = @ \cup {IRQ_TIMER}]
    /\ UNCHANGED <<setup, gates, tss, cpu, running, context, at>>

-----------------------------------------------------------------------------
(* kernel_setup *)

MachineInit ==
    /\ setup = "load_gdt"
    /\ pic = [irr |-> {}, mask |-> {}, isr |-> {}]
    /\ gates = FALSE
    /\ tss = [base |-> FALSE, tr |-> FALSE, esp0 |-> FALSE]
    /\ cpu = KernelRegisters("load_gdt", FALSE)
    /\ running = Nobody
    /\ context = [p \in Processes |-> NotSaved]
    /\ at = [p \in Processes |-> "none"]

\* kernel_setup goes from one call to the next and leaves the flag at enabled.
Call(from, to, enabled) ==
    /\ setup = from
    /\ setup' = to
    /\ cpu' = KernelRegisters(to, enabled)

load_gdt ==
    /\ Call("load_gdt", "pic_remap", FALSE)
    /\ UNCHANGED <<pic, gates, tss, running, context, at>>

\* The controller forgets what was requested; everything is masked.
pic_remap ==
    /\ Call("pic_remap", "initialize_idt", InterruptsOn)
    /\ pic' = [irr |-> {}, mask |-> IRQ, isr |-> {}]
    /\ UNCHANGED <<gates, tss, running, context, at>>

initialize_idt ==
    /\ Call("initialize_idt", "activate_keyboard_interrupt", TRUE)
    /\ gates' = TRUE
    /\ UNCHANGED <<pic, tss, running, context, at>>

\* The screen and the file system are set up with the keyboard unmasked.
activate_keyboard_interrupt ==
    /\ Call("activate_keyboard_interrupt", "gdt_install_tss", InterruptsOn)
    /\ pic' = [pic EXCEPT !.mask = @ \ {IRQ_KEYBOARD}]
    /\ UNCHANGED <<gates, tss, running, context, at>>

gdt_install_tss ==
    /\ Call("gdt_install_tss", "set_tss_register", InterruptsOn)
    /\ tss' = [tss EXCEPT !.base = TRUE]
    /\ UNCHANGED <<pic, gates, running, context, at>>

\* ltr keeps the base the descriptor has now.
set_tss_register ==
    /\ Call("set_tss_register", "set_tss_kernel_current_stack", InterruptsOn)
    /\ tss' = [tss EXCEPT !.tr = tss.base]
    /\ UNCHANGED <<pic, gates, running, context, at>>

set_tss_kernel_current_stack ==
    /\ Call("set_tss_kernel_current_stack", "process_create", InterruptsOn)
    /\ tss' = [tss EXCEPT !.esp0 = TRUE]
    /\ UNCHANGED <<pic, gates, running, context, at>>

process_create_user_process ==
    /\ Call("process_create", "scheduler_init", InterruptsOn)
    /\ context' = [context EXCEPT ![First] = NewContext(First)]
    /\ at' = [at EXCEPT ![First] = "start"]
    /\ UNCHANGED <<pic, gates, tss, running>>

\* Fault: interrupts are switched on again, as the comment in the code has it.
scheduler_init_Sti ==
    /\ Call("scheduler_init", "scheduler_switch", TRUE)
    /\ pic' = [pic EXCEPT !.mask = @ \ {IRQ_TIMER}]
    /\ UNCHANGED <<gates, tss, running, context, at>>

\* activate_timer_interrupt switches interrupts off and unmasks the timer.
scheduler_init ==
    /\ Call("scheduler_init", "scheduler_switch", FALSE)
    /\ pic' = [pic EXCEPT !.mask = @ \ {IRQ_TIMER}]
    /\ UNCHANGED <<gates, tss, running, context, at>>

\* The end of scheduler_switch_to_next_process, from contexts cs.
SwitchTo(p, cs, c) ==
    /\ Created(p)
    /\ pic' = pic_ack(c)
    /\ cpu' = process_context_switch(cs[p])
    /\ context' = [cs EXCEPT ![p] = NotSaved]
    /\ running' = p
    /\ UNCHANGED <<gates, tss, at>>

scheduler_switch_to_next_process ==
    /\ setup = "scheduler_switch"
    /\ setup' = "user"
    /\ SwitchTo(First, context, pic)

KernelSetup ==
    \/ load_gdt \/ pic_remap \/ initialize_idt \/ activate_keyboard_interrupt
    \/ gdt_install_tss \/ set_tss_register \/ set_tss_kernel_current_stack
    \/ process_create_user_process \/ scheduler_init
    \/ scheduler_switch_to_next_process

-----------------------------------------------------------------------------
(* Interrupts and system calls *)

timer_isr(p) ==
    /\ Deliverable(IRQ_TIMER)
    /\ \E f \in {Entered(PIC1_OFFSET + IRQ_TIMER)} :
          /\ HandlerOf(f) = "timer_isr"
          /\ running # Nobody
          /\ SwitchTo(p, [context EXCEPT ![running] = Saved(f)], Accepted(IRQ_TIMER))
    /\ UNCHANGED setup

\* What the keyboard handler does to the machine: it returns to where it came from.
KeyboardInterrupt ==
    /\ Deliverable(IRQ_KEYBOARD)
    /\ \E f \in {Entered(PIC1_OFFSET + IRQ_KEYBOARD)} :
          /\ HandlerOf(f) = "keyboard_isr"
          /\ cpu' = Returned(f)
    /\ pic' = pic_ack(Accepted(IRQ_KEYBOARD))
    /\ UNCHANGED <<setup, gates, tss, running, context, at>>

\* Process p makes a system call and its code goes on to place a; a register that
\* did not come back as it was stays wrong.
SystemCall(p, a) ==
    /\ running = p
    /\ \E f \in {Entered(SYSCALL)} :
          /\ HandlerOf(f) = "syscall"
          /\ cpu' = [r \in Register |->
                        IF Returned(f)[r] = UserRegisters(p, at[p])[r]
                        THEN UserRegisters(p, a)[r] ELSE Returned(f)[r]]
    /\ UNCHANGED <<setup, pic, gates, tss, running>>

-----------------------------------------------------------------------------
(* Properties *)

\* The machine's variables have their types.
MachineTypeOK ==
    /\ setup \in {"load_gdt", "pic_remap", "initialize_idt",
                  "activate_keyboard_interrupt", "gdt_install_tss",
                  "set_tss_register", "set_tss_kernel_current_stack",
                  "process_create", "scheduler_init", "scheduler_switch", "user"}
    /\ pic \in [irr : SUBSET IRQ, mask : SUBSET IRQ, isr : SUBSET IRQ]
    /\ gates \in BOOLEAN
    /\ tss \in [base : BOOLEAN, tr : BOOLEAN, esp0 : BOOLEAN]
    /\ running \in Processes \cup {Nobody}
    /\ DOMAIN cpu = Register
    /\ DOMAIN context = Processes
    /\ DOMAIN at = Processes

\* Whatever interrupted it, a process goes on with exactly the registers it had:
\* the offsets of intsetup.s, the structures C lays over the stack and the pops of
\* process_context_switch agree, for any order of ticks, keys and system calls.
ResumesExact ==
    cpu = IF running = Nobody THEN KernelRegisters(setup, InterruptsOn)
          ELSE UserRegisters(running, at[running])

\* An interrupt that would be accepted now finds what its handler needs: gates; in
\* user mode a stack in the TSS; and, for the timer, a process whose context to
\* save: no tick interrupts kernel_setup, although the timer has ticked all along.
SafeToInterrupt ==
    \A i \in IRQ : Deliverable(i) =>
        /\ gates
        /\ UserMode => tss.tr /\ tss.esp0
        /\ i = IRQ_TIMER => UserMode
=============================================================================

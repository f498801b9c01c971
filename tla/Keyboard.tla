------------------------------ MODULE Keyboard ------------------------------
(***************************************************************************)
(* The keyboard driver, keyboard/keyboard.c: one character of buffer         *)
(* between the interrupt and the processes that poll it by system call 4.   *)
(* The controller (external) holds one scancode until it is read, and       *)
(* requests an interrupt when it gets one.                                  *)
(***************************************************************************)
EXTENDS Interrupt

CONSTANTS
    Letters,    \* characters without a meaning of their own
    MaxKeys     \* bound on the keys struck in a behaviour

Nul == "nul"
Space == "space"
Backspace == "backspace"
Newline == "newline"
Char == Letters \cup {Space, Backspace, Newline}

\* A scancode: that of a key with a character, or one that has none: the release of
\* any key, a key like shift, or the byte 0xE0.
Silent == "silent"
Empty == "empty"
Scancode == Char \cup {Silent}

ASSUME KeyAssumption ==
    /\ MaxKeys \in Nat
    /\ Letters \cap {Nul, Space, Backspace, Newline, Silent, Empty} = {}

VARIABLES
    port,               \* what the controller holds, Empty once it has been read
    keyboard_input_on,
    keyboard_buffer,
    keys,               \* the number of keys struck
    hasty,              \* history: a scancode came when a character was unread
    struck,             \* history: until then, the keys struck since activation,
    received            \*          and the characters handed to processes

keyboard == <<port, keyboard_input_on, keyboard_buffer, keys, hasty, struck, received>>

KeyboardInit ==
    /\ port = Empty
    /\ keyboard_input_on = FALSE
    /\ keyboard_buffer = Nul
    /\ keys = 0
    /\ hasty = FALSE
    /\ struck = << >> /\ received = << >>

keyboard_scancode_1_to_ascii_map(k) == IF k = Silent THEN Nul ELSE k

\* A scancode reaches the controller.
Strike(k) ==
    /\ port = Empty
    /\ k # Silent => keys < MaxKeys
    /\ port' = k
    /\ pic' = [pic EXCEPT !.irr = @ \cup {IRQ_KEYBOARD}]
    /\ keys' = IF k = Silent THEN keys ELSE keys + 1
    /\ struck' = IF k = Silent \/ hasty THEN struck ELSE Append(struck, k)
    /\ UNCHANGED <<setup, gates, tss, cpu, running, context, at,
                   keyboard_input_on, keyboard_buffer, hasty, received>>

\* The code is read even when input is off; a code without a character overwrites
\* the buffer like any other.
keyboard_isr ==
    /\ KeyboardInterrupt
    /\ port' = Empty
    /\ keyboard_buffer' = IF keyboard_input_on
                          THEN keyboard_scancode_1_to_ascii_map(port)
                          ELSE keyboard_buffer
    /\ hasty' = (hasty \/ (keyboard_input_on /\ keyboard_buffer # Nul))
    /\ struck' = IF hasty' \/ ~ keyboard_input_on THEN << >> ELSE struck
    /\ received' = IF hasty' THEN << >> ELSE received
    /\ UNCHANGED <<keyboard_input_on, keys>>

keyboard_state_activate ==
    /\ keyboard_input_on' = TRUE
    /\ UNCHANGED <<port, keyboard_buffer, keys, hasty, struck, received>>

\* Fault: the character stays in the buffer.
get_keyboard_buffer_Kept ==
    /\ received' = IF keyboard_buffer = Nul \/ hasty THEN received
                   ELSE Append(received, keyboard_buffer)
    /\ UNCHANGED <<port, keyboard_input_on, keyboard_buffer, keys, hasty, struck>>

\* The caller gets keyboard_buffer, Nul if nothing has come since the last call.
get_keyboard_buffer ==
    /\ keyboard_buffer' = Nul
    /\ received' = IF keyboard_buffer = Nul \/ hasty THEN received
                   ELSE Append(received, keyboard_buffer)
    /\ UNCHANGED <<port, keyboard_input_on, keys, hasty, struck>>

-----------------------------------------------------------------------------
(* Properties *)

\* The driver's variables have their types.
KeyboardTypeOK ==
    /\ port \in Scancode \cup {Empty}
    /\ keyboard_input_on \in BOOLEAN
    /\ keyboard_buffer \in Char \cup {Nul}
    /\ keys \in 0 .. MaxKeys
    /\ hasty \in BOOLEAN
    /\ struck \in Seq(Char)
    /\ received \in Seq(Char)

Waiting(c) == IF c \in Char THEN <<c>> ELSE << >>

\* As long as no scancode, be it the release of a key, comes before the character
\* ahead of it has been polled, the processes together get every key struck since
\* the activation once and in order, however the polls of several are interleaved.
KeysInOrder ==
    ~ hasty => received \o Waiting(keyboard_buffer) \o Waiting(port) = struck

\* A scancode whose request the controller has is read: no order of ticks, keys and
\* system calls leaves the keyboard locked.  (A request from before pic_remap is
\* forgotten while the scancode stays, and the keyboard is silent from then on.)
KeyServed ==
    (IRQ_KEYBOARD \in pic.irr /\ gates) ~> (port = Empty)
=============================================================================

---------------------------- MODULE CommandLine ----------------------------
(***************************************************************************)
(* The input line of the shell, user_mode/user-shell.c: shells poll the     *)
(* keyboard, echo and edit a line, take it apart and run it, while keys and *)
(* ticks interrupt them anywhere.  A step of a shell is a system call and   *)
(* the code up to the next one.  What the commands do is the subject of     *)
(* Shell; here one matters, exec, which may start another shell.            *)
(***************************************************************************)
EXTENDS Keyboard, FiniteSets

CONSTANTS
    VGA_WIDTH,  \* columns of the screen
    LineBytes,  \* the characters of CommandStruct.info
    ArgBytes,   \* those of Arg ahead of its len_info: info, ext and padding
    MaxArgs     \* DEFAULT_ARGS_COUNT

ASSUME LineAssumption ==
    /\ VGA_WIDTH \in Nat /\ VGA_WIDTH > 4
    /\ {LineBytes, ArgBytes, MaxArgs} \subseteq Nat \ {0}

VARIABLE shell  \* the memory of each shell

lineVars == <<machine, keyboard, shell>>

PromptCol == 3

\* The cells a line can reach, counted from the first column of the prompt's row.
Cell == 0 .. PromptCol + MaxKeys

Info == [0 .. LineBytes - 1 -> Char \cup {Nul}]
NoInfo == [i \in 0 .. LineBytes - 1 |-> Nul]
NoArgs == [k \in 0 .. MaxArgs - 1 |-> << >>]

\* info and len are those of CommandStruct, name what its len_info ends as, args
\* and neff the arguments, row and col cursor_position, counted from the prompt;
\* cells is what the shell has put on the screen there.  taken is history: the
\* characters it has got since the prompt.
Fresh == [buf |-> Nul, info |-> NoInfo, len |-> 0, name |-> 0, args |-> NoArgs,
          neff |-> 0, row |-> 0, col |-> PromptCol,
          cells |-> [c \in Cell |-> Space], taken |-> << >>]

LineInit ==
    /\ MachineInit
    /\ KeyboardInit
    /\ shell = [p \in Processes |-> Fresh]

\* A call of shell p after which its code goes on to place a.
Goes(p, a) ==
    /\ SystemCall(p, a)
    /\ at' = [at EXCEPT ![p] = a]
    /\ UNCHANGED context

-----------------------------------------------------------------------------
(* The echo *)

\* Fault: the row does not end.
putchar_NoWrap(s, c) == [s EXCEPT !.cells[s.row * VGA_WIDTH + s.col] = c]

\* putchar: behind the last column comes the next row.
putchar(s, c) ==
    [s EXCEPT !.cells[s.row * VGA_WIDTH + s.col] = c,
              !.row = IF s.col >= VGA_WIDTH - 1 THEN @ + 1 ELSE @,
              !.col = IF s.col >= VGA_WIDTH - 1 THEN -1 ELSE @]

\* move_text_cursor clears the cell it goes to.
move_text_cursor(s) == [s EXCEPT !.cells[s.row * VGA_WIDTH + s.col] = Space]

\* Fault: backspace goes back over the prompt.
handle_keyboard_input_OverPrompt(s, c) ==
    LET erased == [s EXCEPT !.col = @ - 1]
        t == putchar(s, c)
        put == [t EXCEPT !.col = @ + 1]
    IN  move_text_cursor(IF c = Backspace
                         THEN IF s.col > 0 THEN erased ELSE s
                         ELSE put)

\* Backspace goes back to the prompt at most.  (It puts the character at address 0
\* there, and the cursor clears it.)
handle_keyboard_input(s, c) ==
    LET erased == [s EXCEPT !.col = @ - 1]
        t == putchar(s, c)
        put == [t EXCEPT !.col = @ + 1]
    IN  move_text_cursor(IF c = Backspace
                         THEN IF s.col > PromptCol THEN erased ELSE s
                         ELSE put)

\* Fault: backspace does not shorten the line.
Edit_NoShorter(s, c) ==
    IF c = Backspace THEN [s EXCEPT !.info[s.len % LineBytes] = Nul]
    ELSE [s EXCEPT !.info[s.len] = c, !.len = @ + 1]

\* The line after character c.  Backspace clears the cell behind the line, and the
\* character it removes stays where it is.
Edit(s, c) ==
    IF c = Backspace
    THEN IF s.len = 0 THEN s
         ELSE [s EXCEPT !.info = [i \in DOMAIN @ |-> IF i = s.len THEN Nul ELSE @[i]],
                        !.len = @ - 1]
    ELSE [s EXCEPT !.info[s.len] = c, !.len = @ + 1]

-----------------------------------------------------------------------------
(* The parser *)

\* The first place from i on, ahead of the end of the line, with a character of C; or the end.
FirstFrom(s, i, C) ==
    LET hits == {j \in i .. s.len - 1 : s.info[j] \in C}
    IN  IF hits = {} THEN s.len ELSE CHOOSE j \in hits : \A k \in hits : j <= k

NotSpace == Char \ {Space}

\* The loop variables: i, first_space_location (-1 for none), argument_neff, the
\* arguments, and whether a character went to len_info or behind the last argument.
Start == [i |-> 0, first |-> -1, neff |-> 0, args |-> NoArgs, over |-> FALSE]

\* Fault: a space is taken for the first character of the word behind it.
Round_KeepsSpace(s, w) ==
    LET gap == FirstFrom(s, w.i, {Space})
        end == FirstFrom(s, FirstFrom(s, gap, NotSpace), {Space})
        word == [k \in 1 .. end - gap |-> s.info[gap + k - 1]]
        fits == w.neff < MaxArgs /\ Len(word) <= ArgBytes
    IN  [i |-> end,
         first |-> IF w.first = -1 /\ gap < s.len THEN gap ELSE w.first,
         neff |-> IF gap < s.len THEN w.neff + 1 ELSE w.neff,
         args |-> IF fits /\ word # << >> THEN [w.args EXCEPT ![w.neff] = word]
                  ELSE w.args,
         over |-> word # << >> /\ ~ fits]

\* One round: up to a space, over the spaces, and over the word behind them.
\* Spaces at the end of the line make an argument without characters.
Round(s, w) ==
    LET gap == FirstFrom(s, w.i, {Space})
        begin == FirstFrom(s, gap, NotSpace)
        end == FirstFrom(s, begin, {Space})
        word == [k \in 1 .. end - begin |-> s.info[begin + k - 1]]
        fits == w.neff < MaxArgs /\ Len(word) <= ArgBytes
    IN  [i |-> end,
         first |-> IF w.first = -1 /\ gap < s.len THEN gap ELSE w.first,
         neff |-> IF gap < s.len THEN w.neff + 1 ELSE w.neff,
         args |-> IF fits /\ word # << >> THEN [w.args EXCEPT ![w.neff] = word]
                  ELSE w.args,
         over |-> word # << >> /\ ~ fits]

Parsed(s) ==
    LET w[k \in 0 .. LineBytes] ==
            IF k = 0 THEN Start
            ELSE IF w[k - 1].i >= s.len \/ w[k - 1].over THEN w[k - 1]
            ELSE Round(s, w[k - 1])
    IN  w[LineBytes]

-----------------------------------------------------------------------------
(* The shell *)

\* main up to its loop: cd_root and the activation of the keyboard.
start(p) ==
    /\ at[p] = "start"
    /\ Goes(p, "prompt")
    /\ keyboard_state_activate
    /\ UNCHANGED shell

\* print_template, the clearing of command and arguments, and the test of buf, which
\* has not been set: a newline found on the stack makes the line empty.
print_template(p) ==
    /\ at[p] = "prompt"
    /\ Goes(p, "poll") \/ Goes(p, "parse")
    /\ shell' = [shell EXCEPT ![p] = Fresh]
    /\ UNCHANGED keyboard

\* System call 4 in the loop of get_command.
getchar(p) ==
    LET c == keyboard_buffer
    IN  /\ at[p] = "poll"
        /\ Goes(p, IF c = Nul THEN "poll" ELSE IF c = Newline THEN "parse" ELSE "echo")
        /\ get_keyboard_buffer
        /\ shell' = [shell EXCEPT ![p].buf = c,
                                  ![p].taken = IF c = Nul THEN @ ELSE Append(@, c)]

\* The calls that echo a character; the line then takes it in.  One more than info
\* has room for goes to len_info.
echo(p) ==
    LET s == shell[p]
        full == s.buf # Backspace /\ s.len = LineBytes
    IN  /\ at[p] = "echo"
        /\ Goes(p, IF full THEN "overrun" ELSE "poll")
        /\ shell' = [shell EXCEPT ![p] =
              IF full THEN s ELSE [Edit(handle_keyboard_input(s, s.buf), s.buf)
                                     EXCEPT !.buf = Nul]]
        /\ UNCHANGED keyboard

\* The rest of get_command, up to the first call of the command.
parse(p) ==
    LET w == Parsed(shell[p])
    IN  /\ at[p] = "parse"
        /\ Goes(p, IF w.over THEN "overrun" ELSE "run")
        /\ shell' = [shell EXCEPT
              ![p].name = IF w.first # -1 THEN w.first ELSE w.i,
              ![p].args = w.args, ![p].neff = w.neff]
        /\ UNCHANGED keyboard

\* A command that leaves keyboard and processes alone.
command(p) ==
    /\ at[p] = "run"
    /\ Goes(p, "prompt")
    /\ UNCHANGED <<keyboard, shell>>

\* exec of the shell's executable: a further shell.  A name of length 0 is a prefix
\* of every command, of which cat is the first.
exec(p, q) ==
    /\ at[p] = "run"
    /\ shell[p].name > 0 /\ shell[p].neff > 0 /\ shell[p].args[0] # << >>
    /\ ~ Created(q)
    /\ SystemCall(p, "prompt")
    /\ at' = [at EXCEPT ![p] = "prompt", ![q] = "start"]
    /\ context' = [context EXCEPT ![q] = NewContext(q)]
    /\ UNCHANGED <<keyboard, shell>>

\* A shell whose memory has been overwritten: what it does is not modelled.
Overrun(p) == running = p /\ at[p] = "overrun" /\ UNCHANGED lineVars

Step(p) ==
    \/ start(p) \/ print_template(p) \/ getchar(p) \/ echo(p) \/ parse(p)
    \/ command(p) \/ \E q \in Processes : exec(p, q)

Timer == (\E p \in Processes : timer_isr(p)) /\ UNCHANGED <<keyboard, shell>>

LineNext ==
    \/ KernelSetup /\ UNCHANGED <<keyboard, shell>>
    \/ Tick /\ UNCHANGED <<keyboard, shell>>
    \/ \E k \in Scancode : Strike(k) /\ UNCHANGED shell
    \/ keyboard_isr /\ UNCHANGED shell
    \/ Timer
    \/ \E p \in Processes : Step(p) \/ Overrun(p)

LineSpec == LineInit /\ [][LineNext]_lineVars

\* kernel_setup goes on, a tick the processor would accept is served, and as ticks
\* are far apart, so is a key that could be again and again.  Nothing is assumed of
\* the ticks, of the keys or of the shells.
Fairness ==
    /\ WF_lineVars(KernelSetup /\ UNCHANGED <<keyboard, shell>>)
    /\ WF_lineVars(Timer)
    /\ SF_lineVars(keyboard_isr /\ UNCHANGED shell)

FairLineSpec == LineSpec /\ Fairness

-----------------------------------------------------------------------------
(* Properties *)

Place == {"none", "start", "prompt", "poll", "echo", "parse", "run", "overrun"}

\* The variables have their types.
LineTypeOK ==
    /\ MachineTypeOK
    /\ KeyboardTypeOK
    /\ \A p \in Processes :
          LET s == shell[p]
          IN  /\ at[p] \in Place
              /\ s.buf \in Char \cup {Nul}
              /\ s.info \in Info
              /\ s.len \in 0 .. LineBytes
              /\ s.name \in 0 .. LineBytes
              /\ s.neff \in 0 .. LineBytes
              /\ s.row \in Nat /\ s.col \in 0 .. VGA_WIDTH - 1
              /\ \A c \in Cell : s.cells[c] \in Char

\* What an editor makes of a line and a character: a backspace takes the last one
\* back, and a newline is not part of the line.
Keyed(line, c) ==
    CASE c = Newline                    -> line
      [] c = Backspace /\ line = << >>  -> line
      [] c = Backspace /\ line # << >>  -> SubSeq(line, 1, Len(line) - 1)
      [] OTHER                          -> Append(line, c)

\* What it makes of the characters cs.
Edited(cs) ==
    LET e[k \in 0 .. Len(cs)] == IF k = 0 THEN << >> ELSE Keyed(e[k - 1], cs[k])
    IN  e[Len(cs)]

\* The line of shell p.
Line(p) == [i \in 1 .. shell[p].len |-> shell[p].info[i - 1]]

\* When a shell waits for a key its line is what an editor makes of the characters
\* it has got, although a backspace clears the cell behind the one it takes back.
LineIsEdited == \A p \in Processes : at[p] = "poll" => Line(p) = Edited(shell[p].taken)

\* As long as the line stays in the row of the prompt, the screen shows the line
\* behind the prompt, nothing behind the line, and the cursor there: cursor_position
\* and len_info, which only handle_keyboard_input and get_command keep in step, agree.
EchoIsLine ==
    \A p \in Processes :
        LET s == shell[p]
        IN  at[p] = "poll" /\ s.row = 0 =>
                /\ s.col = PromptCol + s.len
                /\ \A c \in Cell \cap PromptCol .. VGA_WIDTH - 1 :
                      s.cells[c] = IF c < s.col THEN s.info[c - PromptCol] ELSE Space

\* The words of a line: its longest stretches without a space, as <<first, last>>.
Words(line) ==
    {w \in (DOMAIN line) \X (DOMAIN line) :
        /\ w[1] <= w[2]
        /\ \A i \in w[1] .. w[2] : line[i] # Space
        /\ w[1] = 1 \/ line[w[1] - 1] = Space
        /\ w[2] = Len(line) \/ line[w[2] + 1] = Space}

\* The words that are arguments: those with a space ahead of them.
ArgumentWords(line) == {w \in Words(line) : w[1] > 1}

\* The text of the k-th argument of a line, k from 0.
Argument(line, k) ==
    LET w == CHOOSE x \in ArgumentWords(line) :
                Cardinality({y \in ArgumentWords(line) : y[1] < x[1]}) = k
    IN  SubSeq(line, w[1], w[2])

\* What get_command hands to the commands: the name ends at the first space, the
\* arguments are the words behind it, in order, and spaces at the end of the line
\* count as one more, empty one.  A store goes astray only for a line that is longer
\* than info, a word longer than an argument, or more words than arguments.
ParsedWords ==
    \A p \in Processes :
        LET s == shell[p]
            line == Edited(s.taken)
            n == Cardinality(ArgumentWords(line))
            trailing == line # << >> /\ line[Len(line)] = Space
        IN  /\ at[p] = "run" =>
                  /\ \A i \in 1 .. s.name : line[i] # Space
                  /\ s.name = Len(line) \/ line[s.name + 1] = Space
                  /\ s.neff = n + (IF trailing THEN 1 ELSE 0)
                  /\ \A k \in 0 .. MaxArgs - 1 :
                        s.args[k] = IF k < n THEN Argument(line, k) ELSE << >>
            /\ at[p] = "overrun" =>
                  \/ Len(line) > LineBytes
                  \/ n > MaxArgs
                  \/ \E w \in ArgumentWords(line) : w[2] - w[1] >= ArgBytes
=============================================================================

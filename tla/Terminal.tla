------------------------------ MODULE Terminal ------------------------------
(***************************************************************************)
(* From a key to a command: the line editor (devmgr/input), the command    *)
(* line (cmdline) with its Arena of commands, and the cursor of the        *)
(* console (gfx/console).                                                  *)
(*                                                                         *)
(* The keys arrive from the interrupt handlers of the PS/2 driver (Ps2),   *)
(* and key repetition from the timer's: each is one action, because the    *)
(* handlers run to their end with interrupts off.  They interrupt the      *)
(* kernel's boot, which prints messages, lets modules add and remove       *)
(* commands, and ends with cmdline_activate.                               *)
(***************************************************************************)
EXTENDS Containers, Sequences

CONSTANTS
    Chars,          \* what kbd_translate_hu makes of the keys
    MaxSize,        \* INPUT_BUFFER_MAX_SIZE
    Columns, Rows,  \* what the framebuffer has room for
    Prompt,         \* the length of the prompt
    Names,          \* the built-in commands, a sequence of names
    Added,          \* the name of a command a module adds
    MaxAdds,        \* bound: commands added and not removed
    Rollover        \* bound: keys pressed at once

VARIABLES
    kbd_state, lastkey,     \* kbd_lastpressed_key
    buf, size,              \* input_buffer, input_buffer_size
    phase, cmds,            \* "boot", "active" (cmdline_active) or "halted"
    con,                    \* con_cx, con_cy in characters, and the start of the line
    clean,                  \* history: only plain characters since the prompt
    owners, moved           \* history: handles given out; cmds moved while in use

commands == <<cmds, owners, moved>>
terminalvars == <<kbd_state, lastkey, buf, size, phase, con, clean, commands>>

NUL == "nul"

\* A screen of at least one character, whose lines have room for the prompt; a line
\* of at least one character; the built-in commands fill less than a word of bits.
ASSUME ScreenAssumption == Columns \in Nat \ {0} /\ Rows \in Nat \ {0} /\ Prompt \in 0..Columns
ASSUME LineAssumption == MaxSize \in Nat \ {0} /\ NUL \in Chars
ASSUME NamesAssumption ==
    Names \in Seq(Seq(Chars)) /\ Added \in Seq(Chars) /\ Word \in Nat /\ Len(Names) < Word

(***************************************************************************)
(* The console.  col is con_cx / (con_glyphw + con_padx) and row is con_cy *)
(* in lines.  Backspacing at column 0 wraps con_cx round, which the code   *)
(* does not notice: Outside stands for all the values from there until the *)
(* next newline.                                                           *)
(***************************************************************************)
Outside == -1

Newline(c) == [c EXCEPT !.col = 0, !.row = IF @ + 1 >= Rows THEN @ ELSE @ + 1]
Wraps(c) == c.col + 1 > Columns
Glyph(c) == LET at == IF Wraps(c) THEN Newline(c) ELSE c
            IN  [at EXCEPT !.col = IF @ = Outside THEN @ ELSE @ + 1]
\* Mutant of Backspace: the column is not moved back over the blank drawn.
Backspace_Once(c) == c

Backspace(c) == [c EXCEPT !.col = IF @ = Outside THEN @ ELSE @ - 1]

\* printk("%c", ch): a NUL ends the string before anything is drawn.
con_putc(c, ch) == CASE ch = "enter" -> Newline(c)
                     [] ch = "backspace" -> Backspace(c)
                     [] ch = NUL -> c
                     [] OTHER -> Glyph(c)

\* A message, which ends in a newline.
printlnk(c) == Newline(c)

prompt(c) == LET at[i \in 0..Prompt] == IF i = 0 THEN c ELSE Glyph(at[i - 1])
             IN  [at[Prompt] EXCEPT !.base = at[Prompt].col]

(***************************************************************************)
(* StringSplitIterator splits a line in place.  The buffer keeps, behind   *)
(* the terminating NUL, what earlier lines left.                           *)
(***************************************************************************)
Breaks == {NUL, "blank"}
WordEnd(b, i) == CHOOSE e \in i..(MaxSize - 1) :
                    b[e] \in Breaks /\ \A j \in i..(e - 1) : b[j] \notin Breaks
WordAt(b, i) == [j \in 1..(WordEnd(b, i) - i) |-> b[i + j - 1]]
\* Mutant of NextWord: the delimiter is not stepped over.
NextWord_Delimiter(b, i) == WordEnd(b, i)

NextWord(b, i) == WordEnd(b, i) + 1

\* The line handed to cmdline_evaluate_buffer, and the argument a command finds.
Line == [buf EXCEPT ![size] = NUL]
Argument(b) == WordAt(b, NextWord(b, 0))

-----------------------------------------------------------------------------
\* The names that were lost when the commands moved.
Lost == {i \in Slots(cmds) : cmds.data.data[i] = Junk}

\* The lines the built-in commands print, by the turn of the loop over the slots
\* they are printed in: help a heading and one for each command, mem two, lookup
\* and a refused address one, a value that was read is followed by an empty line.
Output == {{0}, {0, 1}, {0} \cup {h + 1 : h \in Slots(cmds)}}
Printed(c, lines) == LET at[i \in 0..(cmds.data.capacity + 1)] ==
                            IF i = 0 THEN c
                            ELSE IF i - 1 \in lines THEN printlnk(at[i - 1]) ELSE at[i - 1]
                     IN  at[cmds.data.capacity + 1]

\* After the newline was drawn: an empty line, a command with its output and
\* "Nonsense" (one line) all end in a new prompt.  Comparing the first word with
\* a lost name may take the kernel down.
cmdline_evaluate_buffer(c) ==
    \/ /\ phase # "active"
       /\ con' = c /\ clean' = FALSE /\ UNCHANGED phase
    \/ /\ phase = "active"
       /\ \E lines \in IF size = 0 THEN {{}} ELSE Output : con' = prompt(Printed(c, lines))
       /\ clean' = TRUE /\ UNCHANGED phase
    \/ /\ phase = "active" /\ size # 0 /\ Lost # {}
       /\ con' = c /\ clean' = FALSE /\ phase' = "halted"

append_char(ch) ==
    \/ /\ size = MaxSize - 1                            \* "Input buffer is full"
       /\ con' = printlnk(con) /\ clean' = FALSE
       /\ UNCHANGED <<buf, size, phase>>
    \/ /\ size # MaxSize - 1 /\ ch = "enter"
       /\ cmdline_evaluate_buffer(con_putc(con, ch))
       /\ buf' = [Line EXCEPT ![0] = NUL] /\ size' = 0
    \/ /\ size # MaxSize - 1 /\ ch = "backspace" /\ size > 0
       /\ con' = con_putc(con, ch)
       /\ size' = size - 1 /\ buf' = [buf EXCEPT ![size'] = NUL]
       /\ UNCHANGED <<clean, phase>>
    \/ /\ size # MaxSize - 1 /\ ch \notin {"utf8", "enter", "backspace"}
       /\ con' = con_putc(con, ch)
       /\ clean' = (clean /\ ch # NUL /\ ~Wraps(con))
       /\ buf' = [buf EXCEPT ![size] = ch] /\ size' = size + 1
       /\ UNCHANGED phase
    \/ /\ size # MaxSize - 1 /\ (ch = "utf8" \/ (ch = "backspace" /\ size = 0))
       /\ UNCHANGED <<buf, size, con, clean, phase>>

kbd_press(ch) ==
    /\ phase # "halted"
    /\ ch \notin kbd_state /\ Cardinality(kbd_state) < Rollover
    /\ lastkey' = ch
    /\ kbd_state' = kbd_state \cup {ch}
    /\ append_char(ch)
    /\ UNCHANGED commands

kbd_release(ch) ==
    /\ phase # "halted"
    /\ kbd_state' = kbd_state \ {ch}
    /\ UNCHANGED <<lastkey, buf, size, phase, con, clean, commands>>

\* The timer interrupt, in a tick that is due for a repeat.
kbd_onrepeat ==
    /\ phase # "halted"
    /\ lastkey \in kbd_state
    /\ append_char(lastkey)
    /\ UNCHANGED <<kbd_state, lastkey, commands>>

Message ==
    /\ phase = "boot"
    /\ con' = printlnk(con) /\ clean' = FALSE
    /\ UNCHANGED <<kbd_state, lastkey, buf, size, phase, commands>>

cmdline_add_command(inplace) ==
    /\ phase = "boot"
    /\ Cardinality(DOMAIN owners) < MaxAdds
    /\ cmds' = Arena_push_back(cmds, Added, inplace)
    /\ owners' = [h \in DOMAIN owners \cup {Arena_handle(cmds, inplace)} |-> Added]
    /\ moved' = (moved \/ cmds'.data.block # cmds.data.block)
    /\ UNCHANGED <<kbd_state, lastkey, buf, size, phase, con, clean>>

cmdline_remove_command(h) ==
    /\ phase = "boot"
    /\ cmds' = Arena_remove(cmds, h)
    /\ owners' = [i \in DOMAIN owners \ {h} |-> owners[i]]
    /\ UNCHANGED <<kbd_state, lastkey, buf, size, phase, con, clean, moved>>

cmdline_activate ==
    /\ phase = "boot"
    /\ phase' = "active"
    /\ con' = prompt(con)
    /\ clean' = (size = 0 /\ con.col = 0)
    /\ UNCHANGED <<kbd_state, lastkey, buf, size, commands>>

\* The commands of the initializer list of cmds, pushed one after the other.
Built == LET at[i \in 0..Len(Names)] ==
               IF i = 0 THEN Arena(Len(Names)) ELSE Arena_push_back(at[i - 1], Names[i], TRUE)
         IN  at[Len(Names)]

TerminalInit ==
    /\ kbd_state = {} /\ lastkey = NUL
    /\ buf = [i \in 0..(MaxSize - 1) |-> NUL] /\ size = 0
    /\ phase = "boot" /\ clean = FALSE
    /\ con = [col |-> 0, row |-> 0, base |-> 0]
    /\ cmds = Built
    /\ owners = <<>> /\ moved = FALSE

TerminalNext ==
    \/ \E ch \in Chars : kbd_press(ch) \/ kbd_release(ch)
    \/ kbd_onrepeat \/ Message \/ cmdline_activate
    \/ \E inplace \in BOOLEAN : cmdline_add_command(inplace)
    \/ \E h \in DOMAIN owners : cmdline_remove_command(h)

TerminalSpec == TerminalInit /\ [][TerminalNext]_terminalvars
-----------------------------------------------------------------------------
\* The types; in particular the line never fills its buffer and the cursor
\* stays in a row of the screen (append_char, con_putc).
TerminalTypeOK ==
    /\ kbd_state \subseteq Chars /\ lastkey \in Chars
    /\ buf \in [0..(MaxSize - 1) -> Chars] /\ size \in 0..(MaxSize - 1)
    /\ con.row \in 0..(Rows - 1) /\ con.col \in {Outside} \cup 0..Columns

\* As long as only plain characters were typed since the prompt and the line did
\* not wrap, the cursor is behind the line on the screen, so that erasing the
\* whole line stops at the prompt.
LineOnScreen == clean => con.col = con.base + size /\ con.base = Prompt

\* The argument a command finds is the second word of the line, when the line
\* has a blank: what an earlier, longer line left in the buffer is not read.
ArgumentTyped ==
    LET line == [i \in 1..size |-> buf[i - 1]]
        blanks == {i \in 1..size : line[i] = "blank"}
    IN  blanks # {} /\ (\A i \in 1..size : line[i] # NUL) =>
          \E first \in blanks : \E last \in first..size :
             /\ \A i \in blanks : first <= i /\ i \notin (first + 1)..last
             /\ last = size \/ last + 1 \in blanks
             /\ Argument(Line) = SubSeq(line, first + 1, last)

\* A handle designates its command until it is removed, and the built-in
\* commands stay, unless the slots moved to another block while in use.
HandlesKept ==
    ~moved =>
        /\ \A h \in DOMAIN owners : h \in Slots(cmds) /\ cmds.data.data[h] = owners[h]
        /\ \A i \in 1..Len(Names) : i - 1 \in Slots(cmds) /\ cmds.data.data[i - 1] = Names[i]

\* The screen shows the line that is edited, inside its bounds.
ScreenKept == TerminalTypeOK /\ LineOnScreen
=============================================================================

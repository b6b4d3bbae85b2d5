----------------------------- MODULE Ps2Proofs ------------------------------
(***************************************************************************)
(* KeyboardRight, for every keyboard: any number of keys, held at once in  *)
(* any number, with any codes, and a queue of any length.                  *)
(*                                                                         *)
(* The property speaks of the characters the handler takes for pressed;    *)
(* what makes it inductive is the stream of bytes between the keyboard and *)
(* the handler (StreamInv): a code that 0xf0 does not precede belongs to a *)
(* key that is held or whose code comes once more, behind its 0xf0.  That  *)
(* nobody else reads the stream follows from the place where mod_main is   *)
(* (MainInv, IrqsInv) and from the one interrupt per byte (PendingInv).    *)
(***************************************************************************)
EXTENDS Ps2, TLAPS

Masks == {irq_kb, irq_mouse, clock_kb, clock_mouse, first_port_translation}
Places == {"start", "config", "selftest", "detect", "detected", "test1", "test2", "enable1",
           "enable2", "assign", "assign2", "done", "failed", "halted"}

\* Where mod_main can be, and what its locals hold.
KeyTypes ==
    /\ Ps2TypeOK /\ main \in Places
    /\ port1 \in BOOLEAN /\ port2 \in BOOLEAN /\ released \in BOOLEAN /\ early \in BOOLEAN

\* The controller interrupts for the keyboard, and the I/O APIC passes it on.
Listening == Bit(ctl, irq_kb) = 1 /\ 1 \in irqs

\* The keyboard is as mod_main wants it.
KbOn(c) == Bit(c, irq_kb) = 1 /\ Bit(c, clock_kb) = 0 /\ Bit(c, first_port_translation) = 0

\* The controller's answer is where read() finds it.
Answering(v) == (obf = v /\ resp = Empty) \/ (obf = Empty /\ resp = v)

\* What mod_main knows: without a byte of a device in between, what it reads is the
\* answer to its last command, and what it has set up stays.
MainInv ==
    /\ SettingUp => (obf = Empty \/ resp = Empty) /\ pending = {} /\ pressed = {} /\ ~released
    /\ main \in {"enable1", "enable2"} => Answering(ctl)
    /\ main \in {"assign", "assign2"} => obf = Empty /\ resp = Empty
    /\ main \in {"enable2", "assign", "assign2", "done"} /\ port1 => KbOn(ctl)

\* Interrupts come only from where they were asked for.
IrqsInv ==
    /\ main \in Places \ {"assign2", "done", "halted"} => irqs = {}
    /\ main \in {"assign2", "done"} => 1 \in irqs

\* One byte in the output buffer has one interrupt.
PendingInv ==
    /\ 1 \in pending => obf # Empty /\ 12 \notin pending
    /\ 12 \in pending => obf # Empty
    /\ ~SettingUp /\ ~Listening => pressed = {} /\ 1 \notin pending

\* The bytes of the keyboard that the handler will get.
Stream == IF 1 \in pending THEN <<obf>> \o kbq ELSE kbq

Later(s, i, code) == \E j \in (i + 1)..Len(s) : s[j] = code

\* Bytes are codes and 0xf0; a code that 0xf0 does not precede is of a key that is
\* held or whose code comes again.
Sound(s, rel, down) ==
    /\ \A i \in 1..Len(s) : s[i] # 240 => \E k \in Keys : s[i] = Code[k]
    /\ \A i \in 1..Len(s) : s[i] # 240 /\ (IF i = 1 THEN ~rel ELSE s[i - 1] # 240) =>
         \E k \in Keys : Code[k] = s[i] /\ (k \in down \/ Later(s, i, s[i]))

\* A pressed character belongs to a key that is held or whose code is on the way.
Coming(s, down, chars) ==
    \A ch \in chars : \E k \in Keys :
        /\ Char[k] = ch /\ Code[k] <= 111
        /\ k \in down \/ Later(s, 0, Code[k])

StreamInv == SettingUp \/ Listening => Sound(Stream, released, held) /\ Coming(Stream, held, pressed)

KeyInv == KeyTypes /\ IrqsInv /\ (~early => MainInv /\ PendingInv /\ StreamInv)

-----------------------------------------------------------------------------
\* The values read() compares with are bytes, and no byte is an empty buffer.
LEMMA ByteFacts == {0, 1, 4} \subseteq Byte /\ Empty \notin Byte
BY DEF Byte, Empty

\* Setting a bit of the configuration keeps a byte and the other bits.
LEMMA WithFacts ==
    ASSUME NEW n \in Byte, NEW b \in Masks, NEW v \in {0, 1}
    PROVE  /\ With(n, b, v) \in Byte
           /\ Bit(With(n, b, v), b) = v
           /\ \A c \in Masks : c # b => Bit(With(n, b, v), c) = Bit(n, c)
<1> USE DEF With, Bit, Byte
<1> DEFINE m == n + (v - Bit(n, b)) * b
<1>1. CASE b = irq_kb
  <2>1. n \div 1 = n /\ m = n + (v - (n % 2)) /\ m \in Int
    BY <1>1 DEF irq_kb
  <2> HIDE DEF m
  <2>2. m \in Byte /\ m \div 1 = m /\ m % 2 = v
    BY <2>1
  <2>3. m \div 2 = n \div 2 /\ m \div 16 = n \div 16
    BY <2>1
  <2>4. m \div 32 = n \div 32 /\ m \div 64 = n \div 64
    BY <2>1
  <2> QED
    BY <1>1, <2>1, <2>2, <2>3, <2>4
       DEF m, Masks, irq_kb, irq_mouse, clock_kb, clock_mouse, first_port_translation
<1>2. CASE b = irq_mouse
  <2>1. m = n + (v - ((n \div 2) % 2)) * 2 /\ m \in Int
    BY <1>2 DEF irq_mouse
  <2> HIDE DEF m
  <2>2. m \in Byte /\ n \div 1 = n /\ m \div 1 = m /\ m % 2 = n % 2 /\ (m \div 2) % 2 = v
    BY <2>1
  <2>3. m \div 16 = n \div 16 /\ m \div 32 = n \div 32 /\ m \div 64 = n \div 64
    BY <2>1
  <2> QED
    BY <1>2, <2>1, <2>2, <2>3
       DEF m, Masks, irq_kb, irq_mouse, clock_kb, clock_mouse, first_port_translation
<1>3. CASE b = clock_kb
  <2>1. m = n + (v - ((n \div 16) % 2)) * 16 /\ m \in Int
    BY <1>3 DEF clock_kb
  <2> HIDE DEF m
  <2>2. m \in Byte /\ (m \div 16) % 2 = v /\ m \div 32 = n \div 32 /\ m \div 64 = n \div 64
    BY <2>1
  <2>3. (m \div 1) % 2 = (n \div 1) % 2
    BY <2>1
  <2>4. (m \div 2) % 2 = (n \div 2) % 2
    BY <2>1
  <2> QED
    BY <1>3, <2>1, <2>2, <2>3, <2>4
       DEF m, Masks, irq_kb, irq_mouse, clock_kb, clock_mouse, first_port_translation
<1>4. CASE b = clock_mouse
  <2>1. m = n + (v - ((n \div 32) % 2)) * 32 /\ m \in Int
    BY <1>4 DEF clock_mouse
  <2> HIDE DEF m
  <2>2. m \in Byte /\ (m \div 32) % 2 = v /\ m \div 64 = n \div 64
    BY <2>1
  <2>3. (m \div 1) % 2 = (n \div 1) % 2
    BY <2>1
  <2>4. (m \div 2) % 2 = (n \div 2) % 2
    BY <2>1
  <2>5. (m \div 16) % 2 = (n \div 16) % 2
    BY <2>1
  <2> QED
    BY <1>4, <2>1, <2>2, <2>3, <2>4, <2>5
       DEF m, Masks, irq_kb, irq_mouse, clock_kb, clock_mouse, first_port_translation
<1>5. CASE b = first_port_translation
  <2>1. m = n + (v - ((n \div 64) % 2)) * 64 /\ m \in Int
    BY <1>5 DEF first_port_translation
  <2> HIDE DEF m
  <2>2. m \in Byte /\ (m \div 64) % 2 = v
    BY <2>1
  <2>3. (m \div 1) % 2 = (n \div 1) % 2
    BY <2>1
  <2>4. (m \div 2) % 2 = (n \div 2) % 2
    BY <2>1
  <2>5. (m \div 16) % 2 = (n \div 16) % 2
    BY <2>1
  <2>6. (m \div 32) % 2 = (n \div 32) % 2
    BY <2>1
  <2> QED
    BY <1>5, <2>1, <2>2, <2>3, <2>4, <2>5, <2>6
       DEF m, Masks, irq_kb, irq_mouse, clock_kb, clock_mouse, first_port_translation
<1> QED
  BY <1>1, <1>2, <1>3, <1>4, <1>5 DEF Masks

-----------------------------------------------------------------------------
(* The stream of bytes *)

\* t is s with the sequence of bytes of an event behind it.
Extends(t, s, b) ==
    /\ t \in Seq(Byte) /\ Len(t) = Len(s) + Len(b)
    /\ \A i \in 1..Len(s) : t[i] = s[i]
    /\ \A i \in 1..Len(b) : t[Len(s) + i] = b[i]

\* s is t with the byte c in front of it.
Before(s, c, t) ==
    /\ t \in Seq(Byte) /\ Len(s) = Len(t) + 1 /\ s[1] = c
    /\ \A i \in 1..Len(t) : s[i + 1] = t[i]

\* What is on the way stays on the way.
LEMMA LaterExtends ==
    ASSUME NEW s \in Seq(Byte), NEW t, NEW b \in Seq(Byte), Extends(t, s, b),
           NEW i \in Nat, NEW code, Later(s, i, code)
    PROVE  Later(t, i, code)
BY DEF Later, Extends

\* A key is pressed, or repeats.
LEMMA MadeSound ==
    ASSUME NEW s \in Seq(Byte), NEW rel, NEW down, NEW chars,
           Sound(s, rel, down), Coming(s, down, chars),
           NEW k \in Keys, NEW t, Extends(t, s, <<Code[k]>>)
    PROVE  Sound(t, rel, down \cup {k}) /\ Coming(t, down \cup {k}, chars)
<1> DEFINE b == <<Code[k]>>
           n == Len(s)
<1>1. /\ b \in Seq(Byte) /\ Len(b) = 1 /\ b[1] = Code[k] /\ Code[k] \in Byte /\ Code[k] # 240
      /\ n \in Nat
  BY CodeAssumption
<1>2. /\ Len(t) = n + 1 /\ t[n + 1] = Code[k] /\ \A i \in 1..n : t[i] = s[i]
  BY <1>1 DEF Extends
<1>3. ASSUME NEW i \in 0..n, NEW code, Later(s, i, code)
      PROVE  Later(t, i, code)
  <2>1. i \in Nat /\ Extends(t, s, b)
    BY <1>1
  <2> HIDE DEF b
  <2> QED
    BY <1>1, <1>3, <2>1, LaterExtends
<1>4. ASSUME NEW code, Later(s, 0, code)
      PROVE  Later(t, 0, code)
  BY <1>1, <1>3, <1>4
<1> HIDE DEF b, n
<1>5. Coming(t, down \cup {k}, chars)
  BY <1>4 DEF Coming
<1>6. ASSUME NEW i \in 1..Len(t), t[i] # 240
      PROVE  \E l \in Keys : t[i] = Code[l]
  <2>1. CASE i \in 1..n
    <3>1. s[i] = t[i] /\ i \in 1..Len(s)
      BY <1>2, <2>1 DEF n
    <3> QED
      BY <1>6, <3>1 DEF Sound
  <2>2. CASE i \notin 1..n
    <3>1. t[i] = Code[k]
      BY <1>1, <1>2, <1>6, <2>2
    <3> QED
      BY <3>1
  <2> QED
    BY <2>1, <2>2
<1>7. ASSUME NEW i \in 1..Len(t), t[i] # 240, IF i = 1 THEN ~rel ELSE t[i - 1] # 240
      PROVE  \E l \in Keys : Code[l] = t[i] /\ (l \in down \cup {k} \/ Later(t, i, t[i]))
  <2>1. CASE i = n + 1
    BY <1>2, <2>1
  <2>2. CASE i \in 1..n
    <3>1. s[i] = t[i] /\ (i # 1 => s[i - 1] = t[i - 1])
      BY <1>1, <1>2, <2>2
    <3>2. PICK l \in Keys : Code[l] = s[i] /\ (l \in down \/ Later(s, i, s[i]))
      BY <1>7, <2>2, <3>1 DEF Sound, n
    <3>3. i \in 0..n
      BY <2>2
    <3> QED
      BY <1>3, <3>1, <3>2, <3>3
  <2> QED
    BY <1>1, <1>2, <2>1, <2>2
<1> QED
  BY <1>5, <1>6, <1>7 DEF Sound

\* A key is released: its code comes once more.
LEMMA BrokenSound ==
    ASSUME NEW s \in Seq(Byte), NEW rel, NEW down, NEW chars,
           Sound(s, rel, down), Coming(s, down, chars),
           NEW k \in Keys, NEW t, Extends(t, s, <<240, Code[k]>>)
    PROVE  Sound(t, rel, down \ {k}) /\ Coming(t, down \ {k}, chars)
<1> DEFINE b == <<240, Code[k]>>
           n == Len(s)
<1>1. /\ b \in Seq(Byte) /\ Len(b) = 2 /\ b[1] = 240 /\ b[2] = Code[k]
      /\ Code[k] \in Byte /\ Code[k] # 240 /\ n \in Nat
  BY CodeAssumption DEF Byte
<1>2. /\ Len(t) = n + 2 /\ t[n + 1] = 240 /\ t[n + 2] = Code[k] /\ \A i \in 1..n : t[i] = s[i]
  BY <1>1 DEF Extends
<1>3. ASSUME NEW i \in 0..n, NEW code, Later(s, i, code)
      PROVE  Later(t, i, code)
  <2>1. i \in Nat /\ Extends(t, s, b)
    BY <1>1
  <2> HIDE DEF b
  <2> QED
    BY <1>1, <1>3, <2>1, LaterExtends
<1>4. ASSUME NEW code, Later(s, 0, code)
      PROVE  Later(t, 0, code)
  BY <1>1, <1>3, <1>4
<1>5. \A i \in 0..n : Later(t, i, Code[k])
  BY <1>1, <1>2 DEF Later
<1> HIDE DEF b, n
<1>6. Coming(t, down \ {k}, chars)
  <2>1. 0 \in 0..n
    BY <1>1
  <2> QED
    BY <1>4, <1>5, <2>1 DEF Coming
<1>7. ASSUME NEW i \in 1..Len(t), t[i] # 240
      PROVE  \E l \in Keys : t[i] = Code[l]
  <2>1. CASE i \in 1..n
    <3>1. s[i] = t[i] /\ i \in 1..Len(s)
      BY <1>2, <2>1 DEF n
    <3> QED
      BY <1>7, <3>1 DEF Sound
  <2>2. CASE i \notin 1..n
    <3>1. i = n + 1 \/ i = n + 2
      BY <1>1, <1>2, <2>2
    <3> QED
      BY <1>2, <1>7, <3>1
  <2> QED
    BY <2>1, <2>2
<1>8. ASSUME NEW i \in 1..Len(t), t[i] # 240, IF i = 1 THEN ~rel ELSE t[i - 1] # 240
      PROVE  \E l \in Keys : Code[l] = t[i] /\ (l \in down \ {k} \/ Later(t, i, t[i]))
  <2>1. i \in 1..n
    BY <1>1, <1>2, <1>8
  <2>2. s[i] = t[i] /\ (i # 1 => s[i - 1] = t[i - 1])
    BY <1>1, <1>2, <2>1
  <2>3. PICK l \in Keys : Code[l] = s[i] /\ (l \in down \/ Later(s, i, s[i]))
    BY <1>8, <2>1, <2>2 DEF Sound, n
  <2>4. i \in 0..n
    BY <2>1, <1>1
  <2> QED
    BY <1>3, <1>5, <2>1, <2>2, <2>3, <2>4
<1> QED
  BY <1>6, <1>7, <1>8 DEF Sound

\* The handler takes the first byte.  After 0xf0 it has to remember that.
LEMMA TakenSound ==
    ASSUME NEW s \in Seq(Byte), NEW rel, NEW down, NEW t, NEW c, Before(s, c, t),
           Sound(s, rel, down), NEW rel2, c = 240 => rel2
    PROVE  Sound(t, rel2, down)
<1>1. /\ Len(t) \in Nat /\ Len(s) = Len(t) + 1 /\ s[1] = c
      /\ \A i \in 1..Len(t) : s[i + 1] = t[i] /\ i + 1 \in 1..Len(s)
  BY DEF Before
<1>2. ASSUME NEW i \in 1..Len(t), t[i] # 240
      PROVE  \E l \in Keys : t[i] = Code[l]
  BY <1>1, <1>2 DEF Sound
<1>3. ASSUME NEW i \in 1..Len(t), t[i] # 240, IF i = 1 THEN ~rel2 ELSE t[i - 1] # 240
      PROVE  \E l \in Keys : Code[l] = t[i] /\ (l \in down \/ Later(t, i, t[i]))
  <2>1. s[i + 1] = t[i] /\ i + 1 \in 1..Len(s) /\ i + 1 # 1
    BY <1>1
  <2>2. s[(i + 1) - 1] # 240
    BY <1>1, <1>3
  <2>3. PICK l \in Keys : Code[l] = s[i + 1] /\ (l \in down \/ Later(s, i + 1, s[i + 1]))
    BY <1>3, <2>1, <2>2 DEF Sound
  <2>4. ASSUME Later(s, i + 1, s[i + 1]) PROVE Later(t, i, t[i])
    <3>1. PICK j \in ((i + 1) + 1)..Len(s) : s[j] = s[i + 1]
      BY <2>4 DEF Later
    <3>2. j - 1 \in (i + 1)..Len(t) /\ j - 1 \in 1..Len(t) /\ j = (j - 1) + 1
      BY <1>1, <3>1
    <3>3. t[j - 1] = t[i]
      BY <1>1, <2>1, <3>1, <3>2
    <3> QED
      BY <3>2, <3>3 DEF Later
  <2> QED
    BY <2>1, <2>3, <2>4
<1> QED
  BY <1>2, <1>3 DEF Sound

\* Of what was on the way, the first byte is gone.
LEMMA LaterTaken ==
    ASSUME NEW s \in Seq(Byte), NEW t, NEW c, Before(s, c, t), NEW code, Later(s, 0, code)
    PROVE  code = c \/ Later(t, 0, code)
<1>1. PICK j \in (0 + 1)..Len(s) : s[j] = code
  BY DEF Later
<1>2. CASE j = 1
  BY <1>1, <1>2 DEF Before
<1>3. CASE j # 1
  <2>1. j - 1 \in (0 + 1)..Len(t) /\ j = (j - 1) + 1
    BY <1>1, <1>3 DEF Before
  <2>2. t[j - 1] = code
    BY <1>1, <2>1 DEF Before
  <2> QED
    BY <2>1, <2>2 DEF Later
<1> QED
  BY <1>2, <1>3

\* The table has the character of every key.
LEMMA ToCharIs ==
    ASSUME NEW k \in Keys
    PROVE  ToChar(Code[k]) = Char[k]
<1>1. \E l \in Keys : Code[l] = Code[k]
  OBVIOUS
<1>2. (CHOOSE l \in Keys : Code[l] = Code[k]) \in Keys
  BY <1>1
<1>3. Code[CHOOSE l \in Keys : Code[l] = Code[k]] = Code[k]
  BY <1>1
<1> QED
  BY <1>1, <1>2, <1>3, CharAssumption DEF ToChar

\* 0xf0 and the codes the handler drops are of no pressed key.
LEMMA DroppedComing ==
    ASSUME NEW s \in Seq(Byte), NEW down, NEW chars, NEW t, NEW c \in Byte, Before(s, c, t),
           Coming(s, down, chars), c > 111
    PROVE  Coming(t, down, chars)
<1> SUFFICES ASSUME NEW ch \in chars
             PROVE  \E k \in Keys : /\ Char[k] = ch /\ Code[k] <= 111
                                    /\ k \in down \/ Later(t, 0, Code[k])
  BY DEF Coming
<1>1. PICK k \in Keys : Char[k] = ch /\ Code[k] <= 111 /\ (k \in down \/ Later(s, 0, Code[k]))
  BY DEF Coming
<1>2. Code[k] # c
  BY <1>1, CodeAssumption DEF Byte
<1> QED
  BY <1>1, <1>2, LaterTaken

\* A release takes the character of its key out.
LEMMA ReleasedComing ==
    ASSUME NEW s \in Seq(Byte), NEW down, NEW chars, NEW t, NEW c, Before(s, c, t),
           Coming(s, down, chars)
    PROVE  Coming(t, down, chars \ {ToChar(c)})
<1> SUFFICES ASSUME NEW ch \in chars \ {ToChar(c)}
             PROVE  \E k \in Keys : /\ Char[k] = ch /\ Code[k] <= 111
                                    /\ k \in down \/ Later(t, 0, Code[k])
  BY DEF Coming
<1>1. PICK k \in Keys : Char[k] = ch /\ Code[k] <= 111 /\ (k \in down \/ Later(s, 0, Code[k]))
  BY DEF Coming
<1>2. Code[k] # c
  BY <1>1, ToCharIs
<1> QED
  BY <1>1, <1>2, LaterTaken

\* A press that no 0xf0 precedes is of a key that is held or will be released.
LEMMA PressedComing ==
    ASSUME NEW s \in Seq(Byte), NEW down, NEW chars, NEW t, NEW c \in Byte, Before(s, c, t),
           Coming(s, down, chars), Sound(s, FALSE, down), c <= 111
    PROVE  Coming(t, down, chars \cup {ToChar(c)})
<1>1. 1 \in 1..Len(s) /\ s[1] = c /\ c # 240
  BY DEF Before, Byte
<1>2. PICK l \in Keys : Code[l] = c /\ (l \in down \/ Later(s, 1, c))
  BY <1>1 DEF Sound
<1>3. Later(s, 1, c) => Later(t, 0, c)
  <2> SUFFICES ASSUME Later(s, 1, c) PROVE Later(t, 0, c)
    OBVIOUS
  <2>1. PICK j \in (1 + 1)..Len(s) : s[j] = c
    BY DEF Later
  <2>2. j - 1 \in (0 + 1)..Len(t) /\ j = (j - 1) + 1
    BY <2>1 DEF Before
  <2>3. t[j - 1] = c
    BY <2>1, <2>2 DEF Before
  <2> QED
    BY <2>2, <2>3 DEF Later
<1>4. ToChar(c) = Char[l]
  BY <1>2, ToCharIs
<1>5. ASSUME NEW ch \in chars \cup {ToChar(c)}
      PROVE  \E k \in Keys : /\ Char[k] = ch /\ Code[k] <= 111
                             /\ k \in down \/ Later(t, 0, Code[k])
  <2>1. CASE ch = ToChar(c)
    BY <1>2, <1>3, <1>4, <2>1
  <2>2. CASE ch \in chars
    <3>1. PICK k \in Keys : Char[k] = ch /\ Code[k] <= 111 /\ (k \in down \/ Later(s, 0, Code[k]))
      BY <2>2 DEF Coming
    <3>2. CASE Code[k] = c
      <4>1. Char[l] = ch
        BY <1>2, <3>1, <3>2, CharAssumption
      <4> QED
        BY <1>2, <1>3, <4>1
    <3>3. CASE Code[k] # c
      BY <3>1, <3>3, LaterTaken
    <3> QED
      BY <3>2, <3>3
  <2> QED
    BY <2>1, <2>2
<1> QED
  BY <1>5 DEF Coming

-----------------------------------------------------------------------------
(* The set-up *)

\* The bits of the configuration that mod_main changes.
LEMMA MasksAre ==
    /\ irq_kb \in Masks /\ irq_mouse \in Masks /\ clock_kb \in Masks /\ clock_mouse \in Masks
    /\ first_port_translation \in Masks
    /\ clock_kb # irq_kb /\ clock_kb # first_port_translation /\ irq_kb # first_port_translation
    /\ clock_mouse \notin {irq_kb, clock_kb, first_port_translation}
    /\ irq_mouse \notin {irq_kb, clock_kb, first_port_translation}
BY DEF Masks, irq_kb, irq_mouse, clock_kb, clock_mouse, first_port_translation

\* What concerns the mouse leaves the keyboard's bits alone.
LEMMA PortFacts ==
    ASSUME NEW c \in Byte, NEW v \in {0, 1}
    PROVE  /\ Port2On(c) \in Byte /\ Port2Off(c) \in Byte
           /\ With(c, clock_mouse, v) \in Byte /\ With(c, irq_mouse, v) \in Byte
           /\ KbOn(c) => KbOn(Port2On(c)) /\ KbOn(With(c, clock_mouse, v)) /\ KbOn(With(c, irq_mouse, v))
<1>1. \A w \in {0, 1} : \A b \in {clock_mouse, irq_mouse} :
        With(c, b, w) \in Byte /\ (KbOn(c) => KbOn(With(c, b, w)))
  <2> SUFFICES ASSUME NEW w \in {0, 1}, NEW b \in {clock_mouse, irq_mouse}
               PROVE  With(c, b, w) \in Byte /\ (KbOn(c) => KbOn(With(c, b, w)))
    OBVIOUS
  <2>1. b \in Masks /\ b # irq_kb /\ b # clock_kb /\ b # first_port_translation
    BY MasksAre
  <2>2. /\ With(c, b, w) \in Byte
        /\ \A d \in Masks : d # b => Bit(With(c, b, w), d) = Bit(c, d)
    BY <2>1, WithFacts
  <2>3. /\ Bit(With(c, b, w), irq_kb) = Bit(c, irq_kb)
        /\ Bit(With(c, b, w), clock_kb) = Bit(c, clock_kb)
        /\ Bit(With(c, b, w), first_port_translation) = Bit(c, first_port_translation)
    BY <2>1, <2>2, MasksAre
  <2> QED
    BY <2>2, <2>3 DEF KbOn
<1> QED
  BY <1>1 DEF Port2On, Port2Off

\* The configuration EnableFirst writes.
LEMMA KbConfig ==
    ASSUME NEW c \in Byte, NEW v \in {0, 1}
    PROVE  LET d == With(With(With(c, clock_kb, 0), irq_kb, v), first_port_translation, 0)
           IN  d \in Byte /\ (v = 1 => KbOn(d))
<1> DEFINE e == With(c, clock_kb, 0)
           f == With(e, irq_kb, v)
           d == With(f, first_port_translation, 0)
<1>1. e \in Byte /\ Bit(e, clock_kb) = 0
  BY WithFacts, MasksAre
<1> HIDE DEF e
<1>2. /\ f \in Byte /\ Bit(f, irq_kb) = v
      /\ \A b \in Masks : b # irq_kb => Bit(f, b) = Bit(e, b)
  <2>1. irq_kb \in Masks
    BY MasksAre
  <2> QED
    BY <1>1, <2>1, WithFacts
<1> HIDE DEF f
<1>3. /\ d \in Byte /\ Bit(d, first_port_translation) = 0
      /\ \A b \in Masks : b # first_port_translation => Bit(d, b) = Bit(f, b)
  BY <1>2, WithFacts, MasksAre
<1> HIDE DEF d
<1>4. Bit(d, clock_kb) = 0 /\ Bit(d, irq_kb) = v
  BY <1>1, <1>2, <1>3, MasksAre
<1>5. d \in Byte /\ (v = 1 => KbOn(d))
  BY <1>3, <1>4 DEF KbOn
<1> QED
  BY <1>5 DEF d, e, f

\* A step of mod_main touches neither the keyboard nor the handlers.
LEMMA MainStep ==
    ASSUME KeyInv, SettingUp, KeyTypes', IrqsInv', ~early => MainInv',
           UNCHANGED <<held, kbq, early, pending, keys>>
    PROVE  KeyInv'
<1> SUFFICES ASSUME ~early PROVE PendingInv' /\ StreamInv'
  BY DEF KeyInv
<1>1. pending = {} /\ pressed = {} /\ Sound(Stream, released, held)
  BY DEF KeyInv, MainInv, StreamInv
<1>2. pending' = {} /\ pressed' = {} /\ released' = released /\ held' = held
  BY <1>1 DEF keys
<1>3. Stream' = Stream
  BY <1>1, <1>2 DEF Stream
<1>4. Coming(Stream', held', pressed')
  BY <1>2 DEF Coming
<1> QED
  BY <1>1, <1>2, <1>3, <1>4 DEF PendingInv, StreamInv

\* The byte read() returns is one byte; without a byte of a device it is the
\* controller's answer, and the controller has no other.
LEMMA ReadFacts ==
    ASSUME KeyInv, SettingUp, NEW v \in Byte, read(v)
    PROVE  ~early => /\ resp = Empty
                     /\ main \in {"enable1", "enable2"} => v = ctl
BY DEF KeyInv, MainInv, Answering, read, KeyTypes, Ps2TypeOK, Byte, Empty

\* The steps of mod_main, one by one.
LEMMA DisablePortsInv == ASSUME KeyInv, DisablePorts PROVE KeyInv'
<1> USE DEF DisablePorts, Goes, Rest
<1>1. SettingUp /\ SettingUp' /\ main' = "config"
  BY DEF SettingUp
<1>2. ctl' \in Byte /\ resp' \in Byte
  <2>1. ctl \in Byte /\ With(ctl, clock_kb, 1) \in Byte
    BY WithFacts, MasksAre DEF KeyInv, KeyTypes, Ps2TypeOK
  <2> QED
    BY <2>1, PortFacts
<1>3. KeyTypes'
  BY <1>1, <1>2 DEF KeyInv, KeyTypes, Ps2TypeOK, keys, Places
<1>4. IrqsInv'
  BY <1>1 DEF KeyInv, IrqsInv, Places
<1>5. ~early => MainInv'
  BY <1>1 DEF KeyInv, MainInv, keys
<1> QED
  BY <1>1, <1>3, <1>4, <1>5, MainStep

LEMMA ConfigureInv == ASSUME KeyInv, Configure PROVE KeyInv'
<1> USE DEF Configure, Goes, Rest
<1>1. SettingUp /\ SettingUp' /\ main' = "selftest"
  BY DEF SettingUp
<1>2. cfg' \in Byte /\ ctl' = cfg'
  <2>1. PICK v \in Byte : cfg' = With(With(With(v, clock_kb, 0), irq_kb, 0), first_port_translation, 0)
    OBVIOUS
  <2> QED
    BY <2>1, KbConfig
<1>3. resp' \in Byte \cup {Empty} /\ obf' = Empty
  BY DEF Byte, Empty
<1>4. KeyTypes'
  BY <1>1, <1>2, <1>3 DEF KeyInv, KeyTypes, Ps2TypeOK, keys, Places
<1>5. IrqsInv'
  BY <1>1 DEF KeyInv, IrqsInv, Places
<1>6. ~early => MainInv'
  BY <1>1, <1>3 DEF KeyInv, MainInv, keys
<1> QED
  BY <1>1, <1>4, <1>5, <1>6, MainStep

LEMMA SelfTestInv == ASSUME KeyInv, SelfTest PROVE KeyInv'
<1> USE DEF SelfTest, Rest
<1>1. SettingUp /\ main = "selftest" /\ main' \in {"failed", "detect"} /\ obf' = Empty
  BY DEF SettingUp
<1>2. ctl' \in Byte /\ resp' \in Byte \cup {Empty}
  <2>1. cfg \in Byte /\ ctl \in Byte /\ resp \in Byte \cup {Empty}
    BY DEF KeyInv, KeyTypes, Ps2TypeOK
  <2>2. Port2On(cfg) \in Byte
    BY <2>1, PortFacts
  <2> QED
    BY <2>1, <2>2
<1>3. KeyTypes'
  BY <1>1, <1>2 DEF KeyInv, KeyTypes, Ps2TypeOK, keys, Places
<1>4. IrqsInv'
  BY <1>1 DEF KeyInv, IrqsInv, Places
<1>5. ~early => MainInv'
  BY <1>1 DEF KeyInv, MainInv, keys
<1> QED
  BY <1>1, <1>3, <1>4, <1>5, MainStep

LEMMA DetectSecondInv == ASSUME KeyInv, DetectSecond PROVE KeyInv'
<1> USE DEF DetectSecond, Rest
<1>1. SettingUp /\ main = "detect" /\ main' \in {"detected", "test1"} /\ obf' = Empty /\ cfg' \in Byte
  BY DEF SettingUp
<1>2. ctl' \in Byte /\ resp' \in Byte \cup {Empty}
  <2>1. ctl \in Byte /\ {0, 1} \subseteq Byte
    BY DEF KeyInv, KeyTypes, Ps2TypeOK, Byte
  <2>2. Port2Off(ctl) \in Byte
    BY <2>1, PortFacts
  <2> QED
    BY <2>1, <2>2
<1>3. KeyTypes'
  BY <1>1, <1>2 DEF KeyInv, KeyTypes, Ps2TypeOK, keys, Places
<1>4. IrqsInv'
  BY <1>1 DEF KeyInv, IrqsInv, Places
<1>5. ~early => MainInv'
  BY <1>1 DEF KeyInv, MainInv, keys
<1> QED
  BY <1>1, <1>3, <1>4, <1>5, MainStep

LEMMA SecondFoundInv == ASSUME KeyInv, SecondFound PROVE KeyInv'
<1> USE DEF SecondFound, Goes, Rest
<1>1. SettingUp /\ main = "detected" /\ main' = "test1" /\ obf' = Empty /\ cfg' \in Byte
  BY DEF SettingUp
<1>2. resp' \in Byte
  BY DEF Byte
<1>3. KeyTypes'
  BY <1>1, <1>2 DEF KeyInv, KeyTypes, Ps2TypeOK, keys, Places
<1>4. IrqsInv'
  BY <1>1 DEF KeyInv, IrqsInv, Places
<1>5. ~early => MainInv'
  BY <1>1 DEF KeyInv, MainInv, keys
<1> QED
  BY <1>1, <1>3, <1>4, <1>5, MainStep

LEMMA TestFirstInv == ASSUME KeyInv, TestFirst PROVE KeyInv'
<1> USE DEF TestFirst, Goes, Rest
<1>1. SettingUp /\ main = "test1" /\ main' = "test2" /\ obf' = Empty
  BY DEF SettingUp
<1>2. resp' \in Byte
  BY DEF Byte
<1>3. port1' \in BOOLEAN
  OBVIOUS
<1>4. KeyTypes'
  BY <1>1, <1>2, <1>3 DEF KeyInv, KeyTypes, Ps2TypeOK, keys, Places
<1>5. IrqsInv'
  BY <1>1 DEF KeyInv, IrqsInv, Places
<1>6. ~early => MainInv'
  BY <1>1 DEF KeyInv, MainInv, keys
<1> QED
  BY <1>1, <1>4, <1>5, <1>6, MainStep

\* The next port, or none: from a configuration with the keyboard on, if it passed.
LEMMA EnableInv ==
    ASSUME KeyInv, SettingUp, NEW p1, NEW p2, NEW c \in Byte, Enable(p1, p2, c), Rest,
           obf' = Empty, cfg' \in Byte, port1' \in BOOLEAN, port2' \in BOOLEAN,
           main \in Places \ {"assign2"},
           ~early => resp = Empty, ~early /\ port1' => p1 \/ KbOn(c)
    PROVE  KeyInv'
<1> USE DEF Enable, Rest
<1>1. /\ main' \in {"enable1", "enable2", "assign"} /\ SettingUp'
      /\ main' = "enable1" => p1
      /\ main' # "enable1" => ~p1
  BY DEF SettingUp
<1>2. With(c, clock_kb, 0) \in Byte /\ Port2On(c) \in Byte /\ (KbOn(c) => KbOn(Port2On(c)))
  BY WithFacts, MasksAre, PortFacts
<1>3. /\ ctl' \in Byte /\ resp' \in Byte \cup {Empty}
      /\ main' # "assign" => resp' = ctl'
      /\ main' = "assign" => resp' = resp
  BY <1>1, <1>2 DEF KeyInv, KeyTypes, Ps2TypeOK
<1>4. ~early /\ port1' /\ main' # "enable1" => KbOn(ctl')
  BY <1>1, <1>2
<1>5. KeyTypes'
  BY <1>1, <1>3 DEF KeyInv, KeyTypes, Ps2TypeOK, keys, Places
<1>6. IrqsInv'
  BY <1>1 DEF KeyInv, IrqsInv, Places, SettingUp
<1>7. ~early => MainInv'
  <2> SUFFICES ASSUME ~early PROVE MainInv'
    OBVIOUS
  <2>1. pending' = {} /\ pressed' = {} /\ ~released'
    BY DEF KeyInv, MainInv, keys
  <2> QED
    BY <1>1, <1>3, <1>4, <2>1 DEF MainInv, Answering, Places
<1> QED
  BY <1>5, <1>6, <1>7, MainStep

LEMMA TestSecondInv == ASSUME KeyInv, TestSecond PROVE KeyInv'
<1> USE DEF TestSecond
<1>1. SettingUp /\ main = "test2" /\ Rest /\ Enable(port1, port2', ctl)
  BY DEF SettingUp
<1>2. ctl \in Byte /\ cfg' \in Byte /\ port1' \in BOOLEAN /\ port2' \in BOOLEAN /\ port1' = port1
  BY DEF KeyInv, KeyTypes, Ps2TypeOK
<1>3. ~early => resp = Empty
  BY <1>1, ReadFacts
<1> QED
  BY <1>1, <1>2, <1>3, EnableInv DEF Places

LEMMA EnableFirstInv == ASSUME KeyInv, EnableFirst PROVE KeyInv'
<1> USE DEF EnableFirst
<1>1. SettingUp /\ main = "enable1" /\ Rest /\ Enable(FALSE, port2, cfg')
  BY DEF SettingUp
<1>2. PICK v \in Byte : read(v) /\
        cfg' = With(With(With(v, clock_kb, 0), irq_kb, 1), first_port_translation, 0)
  OBVIOUS
<1>3. cfg' \in Byte /\ KbOn(cfg')
  BY <1>2, KbConfig
<1>4. port1' \in BOOLEAN /\ port2' \in BOOLEAN
  BY DEF KeyInv, KeyTypes
<1>5. ~early => resp = Empty
  BY <1>1, <1>2, ReadFacts
<1> QED
  BY <1>1, <1>3, <1>4, <1>5, EnableInv DEF Places

LEMMA EnableSecondInv == ASSUME KeyInv, EnableSecond PROVE KeyInv'
<1> USE DEF EnableSecond
<1>1. SettingUp /\ main = "enable2" /\ Rest /\ Enable(FALSE, FALSE, cfg')
  BY DEF SettingUp
<1>2. PICK v \in Byte : read(v) /\ cfg' = With(With(v, clock_mouse, 0), irq_mouse, 1)
  OBVIOUS
<1>3. /\ With(v, clock_mouse, 0) \in Byte /\ cfg' \in Byte
      /\ KbOn(v) => KbOn(cfg')
  <2>1. With(v, clock_mouse, 0) \in Byte /\ (KbOn(v) => KbOn(With(v, clock_mouse, 0)))
    BY PortFacts
  <2> QED
    BY <1>2, <2>1, PortFacts
<1>4. port1' \in BOOLEAN /\ port2' \in BOOLEAN /\ port1' = port1
  BY DEF KeyInv, KeyTypes
<1>5. ~early => resp = Empty /\ v = ctl
  BY <1>1, <1>2, ReadFacts
<1>6. ~early /\ port1' => KbOn(cfg')
  BY <1>1, <1>3, <1>4, <1>5 DEF KeyInv, MainInv
<1> QED
  BY <1>1, <1>3, <1>4, <1>5, <1>6, EnableInv DEF Places

LEMMA AssignIrqInv == ASSUME KeyInv, AssignIrq PROVE KeyInv'
<1> USE DEF AssignIrq, Goes
<1>1. /\ SettingUp /\ main \in {"assign", "assign2"} /\ 1 \in irqs' /\ irqs' \subseteq {1, 12}
      /\ irqs \subseteq irqs' /\ main' \in {"assign2", "done"}
  BY DEF SettingUp, KeyInv, KeyTypes, Ps2TypeOK, IrqsInv
<1>2. KeyTypes'
  BY <1>1 DEF KeyInv, KeyTypes, Ps2TypeOK, hardware, keys, Places
<1>3. IrqsInv'
  BY <1>1 DEF IrqsInv, Places
<1>4. ~early => MainInv'
  BY <1>1 DEF KeyInv, MainInv, hardware, keys, Answering, SettingUp
<1> QED
  BY <1>1, <1>2, <1>3, <1>4, MainStep DEF hardware

LEMMA StuckInv == ASSUME KeyInv, Stuck PROVE KeyInv'
<1> USE DEF Stuck
<1>1. SettingUp /\ main' = "halted" /\ ~SettingUp'
  BY DEF SettingUp
<1>2. KeyTypes'
  BY <1>1 DEF KeyInv, KeyTypes, Ps2TypeOK, hardware, keys, Places
<1>3. IrqsInv'
  BY <1>1 DEF IrqsInv, Places
<1>4. ~early => MainInv'
  BY <1>1 DEF MainInv
<1> QED
  BY <1>1, <1>2, <1>3, <1>4, MainStep DEF hardware

-----------------------------------------------------------------------------
(* The keyboard and the mouse *)

\* The stream with and without a byte in the output buffer.
LEMMA StreamFacts ==
    ASSUME KeyTypes, ~early => PendingInv
    PROVE  ~early => /\ Stream \in Seq(Byte)
                     /\ 1 \in pending => Before(Stream, obf, kbq) /\ obf \in Byte
<1> SUFFICES ASSUME ~early PROVE /\ Stream \in Seq(Byte)
                                 /\ 1 \in pending => Before(Stream, obf, kbq) /\ obf \in Byte
  OBVIOUS
<1>1. kbq \in Seq(Byte) /\ (1 \in pending => obf \in Byte)
  BY DEF KeyTypes, Ps2TypeOK, PendingInv
<1>2. CASE 1 \in pending
  <2>1. Stream = <<obf>> \o kbq /\ obf \in Byte
    BY <1>1, <1>2 DEF Stream
  <2> QED
    BY <1>1, <2>1 DEF Before
<1>3. CASE 1 \notin pending
  BY <1>1, <1>3 DEF Stream
<1> QED
  BY <1>2, <1>3

\* Bytes the keyboard adds to its queue come at the end of the stream.
LEMMA SendExtends ==
    ASSUME KeyTypes, ~early, PendingInv, NEW b \in Seq(Byte), kbq' = kbq \o b,
           UNCHANGED <<obf, pending>>
    PROVE  Extends(Stream', Stream, b)
<1>1. kbq \in Seq(Byte) /\ kbq' \in Seq(Byte) /\ (1 \in pending => obf \in Byte)
  BY DEF KeyTypes, Ps2TypeOK, PendingInv
<1>2. CASE 1 \notin pending
  <2>1. Stream = kbq /\ Stream' = kbq \o b
    BY <1>2 DEF Stream
  <2> QED
    BY <1>1, <2>1 DEF Extends
<1>3. CASE 1 \in pending
  <2>1. Stream = <<obf>> \o kbq /\ Stream' = <<obf>> \o kbq' /\ obf \in Byte
    BY <1>1, <1>3 DEF Stream
  <2>2. /\ Len(kbq') = Len(kbq) + Len(b) /\ Len(kbq) \in Nat /\ Len(b) \in Nat
        /\ \A i \in 1..Len(kbq) : kbq'[i] = kbq[i]
        /\ \A i \in 1..Len(b) : kbq'[Len(kbq) + i] = b[i]
    BY <1>1
  <2>3. /\ Stream' \in Seq(Byte) /\ Len(Stream') = Len(kbq') + 1 /\ Stream'[1] = obf
        /\ \A i \in 2..(Len(kbq') + 1) : Stream'[i] = kbq'[i - 1]
    BY <1>1, <2>1
  <2>4. /\ Len(Stream) = Len(kbq) + 1 /\ Stream[1] = obf
        /\ \A i \in 2..(Len(kbq) + 1) : Stream[i] = kbq[i - 1]
    BY <1>1, <2>1
  <2> HIDE DEF Stream
  <2>5. \A i \in 1..Len(Stream) : Stream'[i] = Stream[i]
    BY <2>2, <2>3, <2>4
  <2>6. \A i \in 1..Len(b) : Stream'[Len(Stream) + i] = b[i]
    <3> SUFFICES ASSUME NEW i \in 1..Len(b) PROVE Stream'[Len(Stream) + i] = b[i]
      OBVIOUS
    <3>1. Len(Stream) + i \in 2..(Len(kbq') + 1) /\ (Len(Stream) + i) - 1 = Len(kbq) + i
      BY <2>2, <2>4
    <3> QED
      BY <2>2, <2>3, <3>1
  <2> QED
    BY <2>2, <2>3, <2>4, <2>5, <2>6 DEF Extends
<1> QED
  BY <1>2, <1>3

\* A step of the keyboard: nothing changes but the keys held and the queue.
LEMMA KeyEvent ==
    ASSUME KeyInv, held' \subseteq Keys, NEW b \in Seq(Byte), kbq' = kbq \o b,
           UNCHANGED <<mouse, ctl, obf, resp, driver, pending, keys>>,
           \A t : Sound(Stream, released, held) /\ Coming(Stream, held, pressed)
                    /\ ~early /\ Extends(t, Stream, b)
             => Sound(t, released, held') /\ Coming(t, held', pressed)
    PROVE  KeyInv'
<1> USE DEF driver, keys
<1>1. kbq' \in Seq(Byte)
  BY DEF KeyInv, KeyTypes, Ps2TypeOK
<1>2. KeyTypes'
  BY <1>1 DEF KeyInv, KeyTypes, Ps2TypeOK
<1>3. IrqsInv'
  BY DEF KeyInv, IrqsInv
<1>4. ASSUME ~early PROVE MainInv' /\ PendingInv' /\ StreamInv'
  <2>1. MainInv'
    BY <1>4 DEF KeyInv, MainInv, SettingUp, Answering
  <2>2. PendingInv'
    BY <1>4 DEF KeyInv, PendingInv, SettingUp, Listening
  <2>3. Extends(Stream', Stream, b)
    BY <1>4, SendExtends DEF KeyInv
  <2>4. StreamInv'
    BY <1>4, <2>3 DEF KeyInv, StreamInv, SettingUp, Listening
  <2> QED
    BY <2>1, <2>2, <2>4
<1> QED
  BY <1>2, <1>3, <1>4 DEF KeyInv

\* A key goes down or repeats: its code joins the queue.
LEMMA MadeInv ==
    ASSUME KeyInv, NEW k \in Keys, held' = held \cup {k}, Send(<<Code[k]>>),
           UNCHANGED <<mouse, ctl, obf, resp, driver, pending, keys>>
    PROVE  KeyInv'
<1>1. <<Code[k]>> \in Seq(Byte) /\ held' \subseteq Keys
  BY CodeAssumption DEF KeyInv, KeyTypes, Ps2TypeOK
<1>2. ~early => Stream \in Seq(Byte)
  BY StreamFacts DEF KeyInv
<1>3. ASSUME NEW t, Sound(Stream, released, held), Coming(Stream, held, pressed),
             ~early, Extends(t, Stream, <<Code[k]>>)
      PROVE  Sound(t, released, held') /\ Coming(t, held', pressed)
  BY <1>2, <1>3, MadeSound
<1> QED
  BY <1>1, <1>3, KeyEvent DEF Send

LEMMA KeyDownInv == ASSUME KeyInv, NEW k \in Keys, KeyDown(k) PROVE KeyInv'
BY MadeInv DEF KeyDown

LEMMA TypematicInv == ASSUME KeyInv, NEW k \in Keys, Typematic(k) PROVE KeyInv'
<1>1. held' = held \cup {k}
  BY DEF Typematic
<1> QED
  BY <1>1, MadeInv DEF Typematic

LEMMA KeyUpInv == ASSUME KeyInv, NEW k \in Keys, KeyUp(k) PROVE KeyInv'
<1>1. <<240, Code[k]>> \in Seq(Byte) /\ held' \subseteq Keys /\ held' = held \ {k}
  BY CodeAssumption DEF KeyInv, KeyTypes, Ps2TypeOK, KeyUp, Byte
<1>2. ~early => Stream \in Seq(Byte)
  BY StreamFacts DEF KeyInv
<1>3. ASSUME NEW t, Sound(Stream, released, held), Coming(Stream, held, pressed),
             ~early, Extends(t, Stream, <<240, Code[k]>>)
      PROVE  Sound(t, released, held') /\ Coming(t, held', pressed)
  BY <1>1, <1>2, <1>3, BrokenSound
<1> QED
  BY <1>1, <1>3, KeyEvent DEF Send, KeyUp

\* Steps that the keyboard's stream does not notice.
LEMMA SameStream ==
    ASSUME KeyInv, KeyTypes', IrqsInv', ~early' => MainInv' /\ PendingInv', ~early' => ~early,
           Stream' = Stream, UNCHANGED <<held, ctl, irqs, main, keys>>
    PROVE  KeyInv'
BY DEF KeyInv, StreamInv, SettingUp, Listening, keys

\* The mouse.
LEMMA MouseMoveInv == ASSUME KeyInv, MouseMove PROVE KeyInv'
<1> USE DEF MouseMove, driver, keys
<1>1. KeyTypes'
  BY DEF KeyInv, KeyTypes, Ps2TypeOK
<1>2. IrqsInv'
  BY DEF KeyInv, IrqsInv
<1>3. ~early => MainInv' /\ PendingInv'
  BY DEF KeyInv, MainInv, PendingInv, SettingUp, Answering, Listening
<1>4. Stream' = Stream
  BY DEF Stream
<1> QED
  BY <1>1, <1>2, <1>3, <1>4, SameStream

LEMMA MouseByteInv == ASSUME KeyInv, MouseByte PROVE KeyInv'
<1> USE DEF MouseByte, keys
<1>1. pending' \subseteq pending \cup ({12} \cap irqs) /\ pending \subseteq pending'
  BY DEF Raise
<1>2. KeyTypes'
  BY <1>1 DEF KeyInv, KeyTypes, Ps2TypeOK, Byte
<1>3. IrqsInv'
  BY DEF KeyInv, IrqsInv
<1>4. ASSUME ~early' PROVE MainInv' /\ PendingInv' /\ Stream' = Stream
  <2>1. ~early /\ ~SettingUp /\ ~SettingUp'
    BY <1>4 DEF SettingUp
  <2>2. 1 \notin pending /\ 1 \notin pending' /\ 12 \notin pending
    BY <1>1, <2>1 DEF KeyInv, PendingInv
  <2>3. MainInv'
    BY <2>1 DEF KeyInv, MainInv, SettingUp, Answering
  <2>4. PendingInv'
    BY <1>1, <2>1, <2>2 DEF KeyInv, PendingInv, Listening, Empty
  <2>5. Stream' = Stream
    BY <2>2 DEF Stream
  <2> QED
    BY <2>3, <2>4, <2>5
<1> QED
  <2>1. CASE ~early'
    BY <1>2, <1>3, <1>4, <2>1, SameStream
  <2>2. CASE early'
    BY <1>2, <1>3, <2>2 DEF KeyInv
  <2> QED
    BY <2>1, <2>2

\* The controller puts its answer into the output buffer.
LEMMA AnswerInv == ASSUME KeyInv, Answer PROVE KeyInv'
<1> USE DEF Answer, driver, keys
<1>1. KeyTypes'
  BY DEF KeyInv, KeyTypes, Ps2TypeOK
<1>2. IrqsInv'
  BY DEF KeyInv, IrqsInv
<1>3. ASSUME ~early PROVE MainInv' /\ PendingInv' /\ Stream' = Stream
  <2>1. pending = {} \/ (1 \notin pending /\ 12 \notin pending)
    BY <1>3 DEF KeyInv, PendingInv
  <2>2. MainInv'
    BY <1>3 DEF KeyInv, MainInv, SettingUp, Answering
  <2>3. PendingInv'
    BY <1>3, <2>1 DEF KeyInv, PendingInv, SettingUp, Listening
  <2>4. Stream' = Stream
    BY <2>1 DEF Stream
  <2> QED
    BY <2>2, <2>3, <2>4
<1> QED
  <2>1. CASE ~early
    BY <1>1, <1>2, <1>3, <2>1, SameStream
  <2>2. CASE early
    BY <1>1, <1>2, <2>2 DEF KeyInv
  <2> QED
    BY <2>1, <2>2

\* A byte leaves the keyboard: with an interrupt it stays in the stream, without one
\* the handler never had a key and never will.
LEMMA KeyByteInv == ASSUME KeyInv, KeyByte PROVE KeyInv'
<1> USE DEF KeyByte, keys
<1>1. kbq \in Seq(Byte) /\ kbq' \in Seq(Byte) /\ obf' \in Byte /\ kbq # <<>>
  BY DEF KeyInv, KeyTypes, Ps2TypeOK
<1>2. pending' = IF Listening THEN pending \cup {1} ELSE pending
  BY DEF Raise, Listening
<1>3. KeyTypes'
  BY <1>1, <1>2 DEF KeyInv, KeyTypes, Ps2TypeOK, Listening
<1>4. IrqsInv'
  BY DEF KeyInv, IrqsInv
<1>5. ASSUME ~early' PROVE MainInv' /\ PendingInv' /\ StreamInv'
  <2>1. ~early /\ ~SettingUp /\ ~SettingUp' /\ Listening' = Listening
    BY <1>5 DEF SettingUp, Listening
  <2>2. 1 \notin pending /\ 12 \notin pending /\ obf' # Empty
    <3>1. 1 \notin pending /\ 12 \notin pending
      BY <2>1 DEF KeyInv, PendingInv
    <3>2. obf' # Empty
      BY <1>1, ByteFacts
    <3> QED
      BY <3>1, <3>2
  <2>3. MainInv'
    BY <2>1 DEF KeyInv, MainInv, SettingUp, Answering
  <2>4. CASE Listening
    <3>1. PendingInv'
      BY <1>2, <2>1, <2>2, <2>4 DEF PendingInv
    <3>2. Stream' = <<Head(kbq)>> \o Tail(kbq) /\ Stream = kbq
      BY <1>2, <2>2, <2>4 DEF Stream
    <3>3. Stream' = Stream
      BY <1>1, <3>2
    <3>4. StreamInv'
      BY <2>1, <2>4, <3>3 DEF KeyInv, StreamInv
    <3> QED
      BY <2>3, <3>1, <3>4
  <2>5. CASE ~Listening
    <3>1. PendingInv'
      BY <1>2, <2>1, <2>2, <2>5 DEF KeyInv, PendingInv
    <3> QED
      BY <2>1, <2>3, <2>5, <3>1 DEF StreamInv
  <2> QED
    BY <2>4, <2>5
<1> QED
  BY <1>3, <1>4, <1>5 DEF KeyInv

-----------------------------------------------------------------------------
(* The handlers *)

\* The table of the handler has a character or 0 for every byte.
LEMMA ToCharType ==
    ASSUME NEW c
    PROVE  ToChar(c) \in {Char[k] : k \in Keys} \cup {NoChar}
<1>1. CASE \E k \in Keys : Code[k] = c
  <2>1. (CHOOSE k \in Keys : Code[k] = c) \in Keys
    BY <1>1
  <2> QED
    BY <1>1, <2>1 DEF ToChar
<1>2. CASE ~ \E k \in Keys : Code[k] = c
  BY <1>2 DEF ToChar
<1> QED
  BY <1>1, <1>2

\* The handler of the keyboard takes the first byte of the stream.
LEMMA handlekbInv == ASSUME KeyInv, handlekb PROVE KeyInv'
<1> DEFINE code == IF obf = Empty THEN 0 ELSE obf
<1>1. /\ 1 \in pending /\ pending' = pending \ {1} /\ obf' = Empty
      /\ UNCHANGED <<held, kbq, mouse, ctl, resp, driver>>
      /\ \/ code = 240 /\ released' = TRUE /\ pressed' = pressed
         \/ code > 111 /\ code # 240 /\ released' = released /\ pressed' = pressed
         \/ code <= 111 /\ released /\ released' = FALSE /\ pressed' = pressed \ {ToChar(code)}
         \/ code <= 111 /\ ~released /\ pressed' = pressed \cup {ToChar(code)} /\ released' = released
  BY DEF handlekb, Press, Release, keys
<1>2. code \in Byte
  BY DEF KeyInv, KeyTypes, Ps2TypeOK, Byte
<1> HIDE DEF code
<1> USE DEF driver
<1>3. pressed' \subseteq {Char[k] : k \in Keys} \cup {NoChar} /\ released' \in BOOLEAN
  <2>1. pressed \subseteq {Char[k] : k \in Keys} \cup {NoChar} /\ released \in BOOLEAN
    BY DEF KeyInv, KeyTypes, Ps2TypeOK
  <2>2. pressed' \subseteq pressed \cup {ToChar(code)}
    BY <1>1
  <2> QED
    BY <1>1, <2>1, <2>2, ToCharType
<1>4. KeyTypes'
  BY <1>1, <1>3 DEF KeyInv, KeyTypes, Ps2TypeOK
<1>5. IrqsInv'
  BY <1>1 DEF KeyInv, IrqsInv
<1>6. ASSUME ~early PROVE MainInv' /\ PendingInv' /\ StreamInv'
  <2>1. ~SettingUp /\ ~SettingUp' /\ obf # Empty /\ code = obf /\ 12 \notin pending
    BY <1>1, <1>6 DEF KeyInv, MainInv, PendingInv, SettingUp, code
  <2>2. Listening /\ Listening' = Listening
    BY <1>1, <1>6, <2>1 DEF KeyInv, PendingInv, Listening
  <2>3. MainInv'
    BY <1>1, <1>6, <2>1 DEF KeyInv, MainInv, SettingUp, Answering
  <2>4. PendingInv'
    BY <1>1, <2>1, <2>2 DEF PendingInv
  <2>5. Stream \in Seq(Byte) /\ Before(Stream, code, kbq) /\ Stream' = kbq /\ held' = held
    BY <1>1, <1>6, <2>1, StreamFacts DEF KeyInv, Stream
  <2>6. Sound(Stream, released, held) /\ Coming(Stream, held, pressed)
    BY <1>6, <2>2 DEF KeyInv, StreamInv
  <2>7. Sound(kbq, released', held)
    <3>1. code = 240 => released'
      BY <1>1, <1>2 DEF Byte
    <3> QED
      BY <2>5, <2>6, <3>1, TakenSound
  <2>8. Coming(kbq, held, pressed')
    <3>1. CASE code > 111
      <4>1. pressed' = pressed
        BY <1>1, <1>2, <3>1 DEF Byte
      <4> QED
        BY <1>2, <2>5, <2>6, <3>1, <4>1, DroppedComing
    <3>2. CASE code <= 111 /\ released
      <4>1. code # 240 /\ ~(code > 111)
        BY <1>2, <3>2 DEF Byte
      <4>2. pressed' = pressed \ {ToChar(code)}
        BY <1>1, <3>2, <4>1, Zenon
      <4> QED
        BY <2>5, <2>6, <4>2, ReleasedComing
    <3>3. CASE code <= 111 /\ ~released
      <4>1. code # 240 /\ ~(code > 111)
        BY <1>2, <3>3 DEF Byte
      <4>2. pressed' = pressed \cup {ToChar(code)}
        BY <1>1, <3>3, <4>1, Zenon
      <4>3. Sound(Stream, FALSE, held)
        BY <2>6, <3>3 DEF Sound
      <4> QED
        BY <1>2, <2>5, <2>6, <3>3, <4>2, <4>3, PressedComing
    <3> QED
      BY <1>2, <3>1, <3>2, <3>3 DEF Byte
  <2> QED
    BY <2>3, <2>4, <2>5, <2>7, <2>8 DEF StreamInv
<1> QED
  BY <1>1, <1>4, <1>5, <1>6 DEF KeyInv

\* The handler of the mouse takes a byte that is not of the keyboard.
LEMMA handlemouseInv == ASSUME KeyInv, handlemouse PROVE KeyInv'
<1> USE DEF handlemouse, driver, keys
<1>1. KeyTypes'
  BY DEF KeyInv, KeyTypes, Ps2TypeOK
<1>2. IrqsInv'
  BY DEF KeyInv, IrqsInv
<1>3. ASSUME ~early PROVE MainInv' /\ PendingInv' /\ Stream' = Stream
  <2>1. ~SettingUp /\ ~SettingUp' /\ 1 \notin pending /\ 1 \notin pending' /\ 12 \notin pending'
    BY <1>3 DEF KeyInv, MainInv, PendingInv, SettingUp
  <2>2. MainInv'
    BY <1>3, <2>1 DEF KeyInv, MainInv, SettingUp, Answering
  <2>3. PendingInv'
    BY <1>3, <2>1 DEF KeyInv, PendingInv, Listening
  <2>4. Stream' = Stream
    BY <2>1 DEF Stream
  <2> QED
    BY <2>2, <2>3, <2>4
<1> QED
  <2>1. CASE ~early
    BY <1>1, <1>2, <1>3, <2>1, SameStream
  <2>2. CASE early
    BY <1>1, <1>2, <2>2 DEF KeyInv
  <2> QED
    BY <2>1, <2>2

\* Before mod_main nothing is pressed and nobody listens.
LEMMA KeyInit == Ps2Init => KeyInv
<1> SUFFICES ASSUME Ps2Init PROVE KeyInv
  OBVIOUS
<1> USE DEF Ps2Init
<1>1. ctl \in Byte
  <2>1. PICK i \in {0, 1} : ctl = With(With(4, first_port_translation, 1), irq_kb, i)
    OBVIOUS
  <2>2. With(4, first_port_translation, 1) \in Byte
    BY WithFacts, MasksAre, ByteFacts
  <2>3. irq_kb \in Masks
    BY MasksAre
  <2> QED
    BY <2>1, <2>2, <2>3, WithFacts
<1>2. KeyTypes
  <2>1. Ps2TypeOK
    BY <1>1, ByteFacts DEF Ps2TypeOK
  <2>2. main \in Places /\ port1 \in BOOLEAN /\ port2 \in BOOLEAN
    BY DEF Places
  <2>3. released \in BOOLEAN /\ early \in BOOLEAN
    OBVIOUS
  <2> QED
    BY <2>1, <2>2, <2>3 DEF KeyTypes
<1>3. IrqsInv
  BY DEF IrqsInv
<1>4. SettingUp /\ MainInv /\ PendingInv
  BY DEF SettingUp, MainInv, PendingInv
<1>5. Stream = <<>>
  BY DEF Stream
<1>6. StreamInv
  BY <1>5 DEF StreamInv, Sound, Coming
<1> QED
  BY <1>2, <1>3, <1>4, <1>6 DEF KeyInv

\* Every step of the driver, the controller, the keyboard and the mouse.
LEMMA KeyStep == KeyInv /\ [Ps2Next]_ps2vars => KeyInv'
<1> SUFFICES ASSUME KeyInv, [Ps2Next]_ps2vars PROVE KeyInv'
  OBVIOUS
<1>1. CASE SetUp
  BY <1>1, DisablePortsInv, ConfigureInv, SelfTestInv, DetectSecondInv, SecondFoundInv, TestFirstInv,
     TestSecondInv, EnableFirstInv, EnableSecondInv, AssignIrqInv DEF SetUp
<1>2. CASE Stuck
  BY <1>2, StuckInv
<1>3. CASE \E k \in Keys : KeyDown(k) \/ KeyUp(k) \/ Typematic(k)
  BY <1>3, KeyDownInv, KeyUpInv, TypematicInv
<1>4. CASE MouseMove \/ KeyByte \/ MouseByte \/ Answer
  BY <1>4, MouseMoveInv, KeyByteInv, MouseByteInv, AnswerInv
<1>5. CASE handlekb \/ handlemouse
  BY <1>5, handlekbInv, handlemouseInv
<1>6. CASE UNCHANGED ps2vars
  <2> USE <1>6 DEF ps2vars, hardware, driver, keys
  <2>1. KeyTypes' /\ IrqsInv'
    BY DEF KeyInv, KeyTypes, Ps2TypeOK, IrqsInv
  <2>2. ~early => MainInv' /\ PendingInv'
    BY DEF KeyInv, MainInv, PendingInv, SettingUp, Answering, Listening
  <2>3. Stream' = Stream
    BY DEF Stream
  <2> QED
    BY <2>1, <2>2, <2>3, SameStream
<1> QED
  BY <1>1, <1>2, <1>3, <1>4, <1>5, <1>6 DEF Ps2Next

\* The driver leaves the controller as it wanted it, and a key that the kernel takes
\* for pressed is held or its release is on the way, for every keyboard, whatever is
\* pressed, repeated and released and however late the handler runs (modules/ps2,
\* devmgr/input).  A byte that came in during the set-up is the one exception.
THEOREM KeyboardIsRight == Ps2Spec => []KeyboardRight
<1>1. KeyInv => KeyboardRight
  <2> SUFFICES ASSUME KeyInv PROVE KeyboardRight
    OBVIOUS
  <2>1. Ps2TypeOK
    BY DEF KeyInv, KeyTypes
  <2>2. SetUpRight
    BY DEF KeyInv, MainInv, IrqsInv, KbOn, SetUpRight, Dead
  <2>3. NoStuckKeys
    <3> SUFFICES ASSUME ~early, NEW ch \in pressed
                 PROVE  \E k \in Keys :
                          /\ Char[k] = ch
                          /\ k \in held \/ obf = Code[k] \/ \E i \in DOMAIN kbq : kbq[i] = Code[k]
      BY DEF NoStuckKeys
    <3>1. Coming(Stream, held, pressed)
      BY DEF KeyInv, MainInv, PendingInv, StreamInv
    <3>2. PICK k \in Keys : Char[k] = ch /\ (k \in held \/ Later(Stream, 0, Code[k]))
      BY <3>1 DEF Coming
    <3>3. ASSUME Later(Stream, 0, Code[k])
          PROVE  obf = Code[k] \/ Later(kbq, 0, Code[k])
      <4>1. CASE 1 \in pending
        BY <3>3, <4>1, StreamFacts, LaterTaken DEF KeyInv
      <4>2. CASE 1 \notin pending
        BY <3>3, <4>2 DEF Stream
      <4> QED
        BY <4>1, <4>2
    <3>4. Later(kbq, 0, Code[k]) => \E i \in DOMAIN kbq : kbq[i] = Code[k]
      BY DEF Later, KeyInv, KeyTypes, Ps2TypeOK
    <3> QED
      BY <3>2, <3>3, <3>4
  <2> QED
    BY <2>1, <2>2, <2>3 DEF KeyboardRight
<1> QED
  BY <1>1, KeyInit, KeyStep, PTL DEF Ps2Spec
=============================================================================

------------------------------ MODULE Keyboard ------------------------------
(***************************************************************************)
(* The PS/2 keyboard driver of src/kernel/src/arch/x86/kernel/idt.c: the   *)
(* IRQ1 handler ps2_keyboard_interrupt, which applies key releases to     *)
(* keyboard_state and appends the scancode to the kb_buffer ring, against  *)
(* a caller looping on ps2_keyboard_get_char, which takes scancodes out of *)
(* the ring and applies key presses to keyboard_state while converting     *)
(* them to ASCII.                                                          *)
(*                                                                         *)
(* The handler runs through an interrupt gate and the PIC holds IRQ1 until *)
(* its EOI, so one handler run is one step; it may run between any two     *)
(* steps of the caller.  kb_buffer_get is split where another step can    *)
(* come between: it loads count at line 258 and stores count - 1 at line   *)
(* 264.  count is neither volatile nor atomic, so the build may store the  *)
(* value loaded at line 258 minus one, or reload count and decrement it:  *)
(* both outcomes are allowed.                                              *)
(*                                                                         *)
(* The keyboard is a user pressing and releasing keys; each byte it sends  *)
(* is an event (sent), numbered so that the ring's slots hold event        *)
(* numbers and 0 stands for the zero byte of the static initialiser.       *)
(***************************************************************************)
EXTENDS Integers, Sequences, SequencesExt

CONSTANTS
  KB_BUFFER_SIZE, \* slots of the ring
  Keys,           \* key codes the user presses (set 1, make codes < 0x80)
  MaxEvents       \* bytes the keyboard sends in a behaviour

ASSUME KB_BUFFER_SIZE >= 1 /\ MaxEvents >= 1

KB_KEY_LEFT_SHIFT == 42    \* 0x2A
KB_KEY_RIGHT_SHIFT == 54   \* 0x36
ShiftKeys == {KB_KEY_LEFT_SHIFT, KB_KEY_RIGHT_SHIFT}
ReleaseBit == 128          \* 0x80

\* scancode_to_ascii_low / _high for the keys modelled (0x1E is the A key);
\* a key code past the 89-entry tables, and every entry that is not a
\* character, give the NUL character.
TableSize == 89
NUL == "NUL"
Upper == {"A"}
Ascii(key, uppercase) ==
  IF key = 30 THEN (IF uppercase THEN "A" ELSE "a") ELSE NUL

VARIABLES
  held,      \* keys the user holds down
  sent,      \* every byte the keyboard sent: [sc |-> scancode, shift |-> shift held]
  irqd,      \* bytes the IRQ1 handler has read from the data port
  data, head, tail, count,  \* kb_buffer
  shift,     \* the KB_STATE_SHIFT bit of keyboard_state
  pc,        \* where the caller of ps2_keyboard_get_char is
  loaded,    \* count as loaded at line 258
  ev,        \* the event whose scancode kb_buffer_get returned (0: none)
  accepted,  \* events kb_buffer_add stored, in order
  consumed,  \* events kb_buffer_get returned, in order
  out        \* ps2_keyboard_get_char's results: [ch, ev]

vars == <<held, sent, irqd, data, head, tail, count, shift, pc, loaded, ev,
          accepted, consumed, out>>

Scancode(e) == IF e = 0 THEN 0 ELSE sent[e].sc

Init ==
  /\ held = {}
  /\ sent = <<>>
  /\ irqd = 0
  /\ data = [i \in 0..(KB_BUFFER_SIZE - 1) |-> 0]
  /\ head = 0 /\ tail = 0 /\ count = 0
  /\ shift = FALSE
  /\ pc = "idle"
  /\ loaded = 0
  /\ ev = 0
  /\ accepted = <<>> /\ consumed = <<>> /\ out = <<>>

(***************************************************************************)
(* The user.                                                               *)
(***************************************************************************)
Send(sc, h) ==
  /\ Len(sent) < MaxEvents
  /\ held' = h
  /\ sent' = Append(sent, [sc |-> sc, shift |-> h \cap ShiftKeys # {}])
  /\ UNCHANGED <<irqd, data, head, tail, count, shift, pc, loaded, ev,
                 accepted, consumed, out>>

Press == \E k \in Keys \ held : Send(k, held \cup {k})
Release == \E k \in held : Send(k + ReleaseBit, held \ {k})

(***************************************************************************)
(* keyboard_handler -> ps2_keyboard_interrupt (lines 512-560)             *)
(***************************************************************************)
\* Mutant: the fullness test off by one.
kb_buffer_add_overfull(e) ==
  IF count <= KB_BUFFER_SIZE
  THEN /\ data' = [data EXCEPT ![head] = e]
       /\ head' = (head + 1) % KB_BUFFER_SIZE
       /\ count' = count + 1
       /\ accepted' = Append(accepted, e)
  ELSE UNCHANGED <<data, head, count, accepted>>

\* kb_buffer_add (lines 248-254).
kb_buffer_add(e) ==
  IF count < KB_BUFFER_SIZE
  THEN /\ data' = [data EXCEPT ![head] = e]
       /\ head' = (head + 1) % KB_BUFFER_SIZE
       /\ count' = count + 1
       /\ accepted' = Append(accepted, e)
  ELSE UNCHANGED <<data, head, count, accepted>>

KeyboardInterrupt ==
  /\ irqd < Len(sent)
  /\ LET e == irqd + 1
         sc == sent[e].sc
     IN  /\ irqd' = e
         /\ shift' = IF sc >= ReleaseBit /\ sc - ReleaseBit \in ShiftKeys
                     THEN FALSE ELSE shift
         /\ kb_buffer_add(e)
  /\ UNCHANGED <<held, sent, tail, pc, loaded, ev, consumed, out>>

(***************************************************************************)
(* ps2_keyboard_get_char (lines 677-694) and kb_buffer_get (257-267)      *)
(***************************************************************************)
\* The caller calls ps2_keyboard_get_char; the wait loop at line 678 spins
\* until count > 0.
GetCharWait ==
  /\ pc = "idle"
  /\ count > 0
  /\ pc' = "get"
  /\ UNCHANGED <<held, sent, irqd, data, head, tail, count, shift, loaded, ev,
                 accepted, consumed, out>>

\* Lines 258-263: load count; when 0 return -1 (ps2_keyboard_get_scancode
\* turns it into scancode 0); else read the slot at tail and advance tail.
BufferGetRead ==
  /\ pc = "get"
  /\ loaded' = count
  /\ IF count = 0
     THEN /\ ev' = 0
          /\ pc' = "convert"
          /\ UNCHANGED tail
     ELSE /\ ev' = data[tail]
          /\ tail' = (tail + 1) % KB_BUFFER_SIZE
          /\ pc' = "dec"
  /\ UNCHANGED <<held, sent, irqd, data, head, count, shift, accepted, consumed, out>>

\* Mutant: count never decremented.
BufferGetNoDecrement ==
  /\ pc = "dec"
  /\ consumed' = Append(consumed, ev)
  /\ pc' = "convert"
  /\ UNCHANGED <<held, sent, irqd, data, head, tail, count, shift, loaded, ev, accepted, out>>

\* Line 264: count-- from the loaded value, or as a fresh read-modify-write.
BufferGetDecrement ==
  /\ pc = "dec"
  /\ count' \in {loaded - 1, count - 1}
  /\ consumed' = Append(consumed, ev)
  /\ pc' = "convert"
  /\ UNCHANGED <<held, sent, irqd, data, head, tail, shift, loaded, ev, accepted, out>>

\* Mutant: the loop at line 688 without its ps2_keyboard_available() test.
ConvertScancodeNoAvailable ==
  /\ pc = "convert"
  /\ LET sc == Scancode(ev)
         key == sc % ReleaseBit
         release == sc >= ReleaseBit
         c == IF release \/ key >= TableSize \/ key \in ShiftKeys THEN NUL
              ELSE Ascii(key, shift)
     IN  /\ shift' = (shift \/ (~release /\ key \in ShiftKeys))
         /\ IF c = NUL
            THEN /\ pc' = "get"
                 /\ UNCHANGED out
            ELSE /\ pc' = "idle"
                 /\ out' = Append(out, [ch |-> c, ev |-> ev])
  /\ UNCHANGED <<held, sent, irqd, data, head, tail, count, loaded, ev,
                 accepted, consumed>>

\* ps2_scancode_to_ascii (lines 456-510) on the scancode, then the loop test
\* at line 688: get another scancode while the result is 0 and count > 0.
ConvertScancode ==
  /\ pc = "convert"
  /\ LET sc == Scancode(ev)
         key == sc % ReleaseBit
         release == sc >= ReleaseBit
         c == IF release \/ key >= TableSize \/ key \in ShiftKeys THEN NUL
              ELSE Ascii(key, shift)
     IN  /\ shift' = (shift \/ (~release /\ key \in ShiftKeys))
         /\ IF c = NUL /\ count > 0
            THEN /\ pc' = "get"
                 /\ UNCHANGED out
            ELSE /\ pc' = "idle"
                 /\ out' = Append(out, [ch |-> c, ev |-> ev])
  /\ UNCHANGED <<held, sent, irqd, data, head, tail, count, loaded, ev,
                 accepted, consumed>>

Caller == GetCharWait \/ BufferGetRead \/ BufferGetDecrement \/ ConvertScancode

Next == Press \/ Release \/ KeyboardInterrupt \/ Caller

Spec == Init /\ [][Next]_vars

\* The hardware raises IRQ1 while a byte waits in the controller, and the
\* caller keeps running; the user need not type.
FairSpec == Spec /\ WF_vars(KeyboardInterrupt) /\ WF_vars(Caller)

(***************************************************************************)
(* Properties                                                              *)
(***************************************************************************)
TypeOK ==
  /\ held \subseteq Keys
  /\ irqd \in 0..Len(sent)
  /\ data \in [0..(KB_BUFFER_SIZE - 1) -> 0..Len(sent)]
  /\ {head, tail} \subseteq 0..(KB_BUFFER_SIZE - 1)
  /\ count \in 0..KB_BUFFER_SIZE
  /\ shift \in BOOLEAN
  /\ pc \in {"idle", "get", "dec", "convert"}
  /\ ev \in 0..Len(sent)

\* kb_buffer_get hands out only bytes the handler stored, each at most once,
\* however the handler interleaves with the load and store of count: the
\* caller never reads a slot twice or a slot nobody wrote.
NoPhantomScancode ==
  /\ \A i \in 1..Len(consumed) : consumed[i] \in ToSet(accepted)
  /\ IsInjective(consumed)

\* A caller that finds a scancode waiting returns from
\* ps2_keyboard_get_char: the loop at line 688 ends.
GetCharReturns == (pc = "get") ~> (pc = "idle")

\* Every scancode the handler stored is eventually returned by
\* kb_buffer_get to a caller that keeps calling ps2_keyboard_get_char.
EveryKeyRead ==
  \A n \in 1..MaxEvents : (Len(accepted) >= n) ~> (Len(consumed) >= n)

\* The character returned for a letter is upper case exactly when a shift
\* key was held when the letter was pressed.
CaseFollowsShift ==
  \A i \in 1..Len(out) :
    out[i].ch # NUL => (out[i].ch \in Upper <=> sent[out[i].ev].shift)
====

------------------------------ MODULE PS2Mouse ------------------------------
(***************************************************************************)
(* The PS/2 mouse driver of src/kernel/src/arch/x86/mouse.c and the mouse  *)
(* it talks to.                                                            *)
(*                                                                         *)
(* ps2_mouse_init is the driver's probe, in steps: the controller setup    *)
(* that enables IRQ12 (lines 321-338), the RESET command (341), each byte  *)
(* the device answers to the init's polled commands, and the return.       *)
(* Between them the device's bytes raise IRQ12, and while mouse_handler is *)
(* installed, from an earlier successful init, it runs ps2_mouse_interrupt *)
(* on each of them, the init's answers included: on real hardware the      *)
(* poll then times out and reads port 0x60's last byte again, so the init  *)
(* sees the same answers either way.  The device's answers are fixed by    *)
(* MouseKind and by the check at which the init stops.  The mouse streams  *)
(* packets one byte at a time once ENABLE went through; its reporting      *)
(* starts when the init returns.  ps2_mouse_remove sends DISABLE: the      *)
(* mouse drops the rest of its packet and acknowledges.                    *)
(*                                                                         *)
(* A byte is [pkt |-> packet number, pos |-> place in it, val |-> value];  *)
(* an answer to a command has packet number 0.  mouse_state.sample_rate    *)
(* and resolution, and the unset mouse_callback, are left out.             *)
(***************************************************************************)
EXTENDS Integers, Sequences, Bitwise

CONSTANTS
  MouseKind,   \* "standard", "scroll" or "five": what the device answers
  Buttons,     \* button bit patterns the user presses (subset of 0..7)
  Moves,       \* movements the device reports, 9-bit two's complement
  MaxPackets   \* packets the device sends in a behaviour

ASSUME MouseKind \in {"standard", "scroll", "five"}

MOUSE_PACKET_Y_OVERFLOW == 128  \* 0x80
MOUSE_PACKET_X_OVERFLOW == 64   \* 0x40
MOUSE_PACKET_Y_SIGN == 32       \* 0x20
MOUSE_PACKET_X_SIGN == 16       \* 0x10
MOUSE_PACKET_ALWAYS_1 == 8      \* 0x08
MOUSE_PACKET_4_Z_SIGN == 8      \* 0x08
MOUSE_PACKET_4_Z_DATA == 7      \* 0x07
MOUSE_RESP_ACK == 250           \* 0xFA
MOUSE_RESP_SELF_TEST == 170     \* 0xAA
MOUSE_RESP_ERROR == 252         \* 0xFC, the answer that is neither ACK nor NAK
MOUSE_RESP_ID_SCROLL == 3
MOUSE_RESP_ID_5BTN == 4

\* How ps2_mouse_init can end: success, or the check that returns -1.
InitResults == {"ok", "reset", "selftest", "defaults", "enable"}

\* (int8_t) of a byte.
Int8(b) == IF b >= 128 THEN b - 256 ELSE b

VARIABLES
  mstate,     \* mouse_state: x, y, z, buttons, has_scroll_wheel, has_5_buttons
  buffer,     \* mouse_packet_buffer[4]
  index,      \* mouse_packet_index
  size,       \* mouse_packet_size
  irq12,      \* bit 1 of the controller configuration byte
  handler,    \* exception_handlers[MOUSE_INT_VECTOR] = mouse_handler
  reporting,  \* the device streams packets
  extended,   \* the device sends 4-byte packets
  pending,    \* bytes of the device's current packet not yet sent
  npkts,      \* packets the device has started
  lastpkt,    \* the bytes of the packet process_mouse_packet last processed
  minit,      \* where ps2_mouse_init is: "idle", "config" or "exchange"
  initres,    \* the check at which the running init stops ("ok" if none)
  replies     \* the device's answers to the init's commands not yet sent

mvars == <<mstate, buffer, index, size, irq12, handler, reporting, extended,
           pending, npkts, lastpkt, minit, initres, replies>>

NoByte == [pkt |-> 0, pos |-> 0, val |-> 0]
Answer(v) == [pkt |-> 0, pos |-> 0, val |-> v]
ZeroState == [x |-> 0, y |-> 0, z |-> 0, buttons |-> 0,
              has_scroll_wheel |-> FALSE, has_5_buttons |-> FALSE]

MouseInit ==
  /\ mstate = ZeroState
  /\ buffer = [i \in 0..3 |-> NoByte]
  /\ index = 0
  /\ size = 3
  /\ irq12 = FALSE /\ handler = FALSE
  /\ reporting = FALSE /\ extended = FALSE
  /\ pending = <<>> /\ npkts = 0 /\ lastpkt = <<>>
  /\ minit = "idle" /\ initres = "ok" /\ replies = <<>>

(***************************************************************************)
(* The interrupt path                                                      *)
(***************************************************************************)
\* process_mouse_packet (lines 213-269) on the assembled buffer.
process_mouse_packet(m, buf, sz) ==
  LET flags == buf[0].val
      xm == Int8(buf[1].val)
      ym == Int8(buf[2].val)
      zb == buf[3].val
      zm == IF sz > 3 /\ m.has_scroll_wheel
            THEN IF (zb & MOUSE_PACKET_4_Z_SIGN) # 0
                 THEN -(zb & MOUSE_PACKET_4_Z_DATA) ELSE zb & MOUSE_PACKET_4_Z_DATA
            ELSE 0
      x == CASE (flags & MOUSE_PACKET_X_OVERFLOW) = 0 -> m.x + xm
             [] (flags & MOUSE_PACKET_X_SIGN) # 0   -> m.x - 128
             [] OTHER                               -> m.x + 127
      y == CASE (flags & MOUSE_PACKET_Y_OVERFLOW) = 0 -> m.y - ym
             [] (flags & MOUSE_PACKET_Y_SIGN) # 0   -> m.y - 128
             [] OTHER                               -> m.y + 127
  IN  [m EXCEPT !.buttons = flags & 7,
                !.x = IF x < 0 THEN 0 ELSE x,
                !.y = IF y < 0 THEN 0 ELSE y,
                !.z = IF m.has_scroll_wheel THEN @ + zm ELSE @]

\* The handler's variables as a record.
HState == [mstate |-> mstate, buffer |-> buffer, index |-> index,
           lastpkt |-> lastpkt]

\* ps2_mouse_interrupt (lines 272-291) on byte b, from handler state s with
\* packet size sz.
ps2_mouse_interrupt(s, b, sz) ==
  IF s.index = 0 /\ (b.val & MOUSE_PACKET_ALWAYS_1) = 0 THEN s
  ELSE LET buf == [s.buffer EXCEPT ![s.index] = b] IN
       IF s.index + 1 >= sz
       THEN [mstate |-> process_mouse_packet(s.mstate, buf, sz), buffer |-> buf,
             index |-> 0, lastpkt |-> [i \in 1..(s.index + 1) |-> buf[i - 1]]]
       ELSE [s EXCEPT !.buffer = buf, !.index = @ + 1]

\* Byte b arrives at port 0x60 and raises IRQ12: mouse_handler takes it when
\* the IRQ is enabled and the handler installed; otherwise it is polled or
\* lost.  The handler's state after it.
Arrive(b) == IF irq12 /\ handler THEN ps2_mouse_interrupt(HState, b, size) ELSE HState

SetHandlerState(s) ==
  /\ mstate' = s.mstate /\ buffer' = s.buffer
  /\ index' = s.index /\ lastpkt' = s.lastpkt

(***************************************************************************)
(* ps2_mouse_init (lines 321-390)                                          *)
(***************************************************************************)
\* Lines 322-338: mouse_state and mouse_packet_index are cleared and IRQ12
\* is enabled in the controller; the device is still streaming.
InitStart ==
  /\ minit = "idle"
  /\ mstate' = ZeroState
  /\ index' = 0
  /\ irq12' = TRUE
  /\ minit' = "config"
  /\ UNCHANGED <<buffer, size, handler, reporting, extended, pending, npkts,
                 lastpkt, initres, replies>>

\* An answer the poll reads, and what the init sets once it has read it:
\* the scroll-wheel probe's verdict (lines 178-186) after the first device
\* ID, the 5-button probe's (205-209) after the second.
Reply(v, then) == [val |-> v, then |-> then]
Acks(k) == [i \in 1..k |-> Reply(MOUSE_RESP_ACK, "none")]

\* mouse_enable_scroll_wheel: three ps2_mouse_set_sample_rate, each an ACK
\* for the command and one for the rate, GET_DEVICE_ID's ACK, the ID.
WheelProbe ==
  Acks(7) \o <<Reply(IF MouseKind = "scroll" THEN MOUSE_RESP_ID_SCROLL ELSE 0,
                     "wheel")>>

\* mouse_enable_5_button, called only without a wheel (line 363).
FiveProbe ==
  IF MouseKind = "scroll" THEN <<>>
  ELSE Acks(7) \o <<Reply(IF MouseKind = "five" THEN MOUSE_RESP_ID_5BTN ELSE 0,
                          "five")>>

\* The device's answers when the init stops at check r: RESET's ACK, the
\* self-test result and the ID (lines 341-356), the probes, then DEFAULT's
\* and ENABLE's ACKs (368-377) and the two ACKs each of the sample rate and
\* the resolution (380-383).
Replies(r) ==
  CASE r = "reset"    -> <<Reply(MOUSE_RESP_ERROR, "none")>>
    [] r = "selftest" -> <<Reply(MOUSE_RESP_ACK, "none"),
                           Reply(MOUSE_RESP_ERROR, "none")>>
    [] OTHER ->
         <<Reply(MOUSE_RESP_ACK, "none"), Reply(MOUSE_RESP_SELF_TEST, "none"),
           Reply(0, "none")>>
         \o WheelProbe \o FiveProbe
         \o (CASE r = "defaults" -> <<Reply(MOUSE_RESP_ERROR, "none")>>
               [] r = "enable"   -> <<Reply(MOUSE_RESP_ACK, "none"),
                                      Reply(MOUSE_RESP_ERROR, "none")>>
               [] OTHER          -> Acks(6))

\* Line 341: RESET.  The device drops its packet, stops reporting, returns
\* to 3-byte packets and queues its answers.
InitReset(r) ==
  /\ minit = "config"
  /\ pending' = <<>>
  /\ reporting' = FALSE
  /\ extended' = FALSE
  /\ initres' = r
  /\ replies' = Replies(r)
  /\ minit' = "exchange"
  /\ UNCHANGED <<mstate, buffer, index, size, irq12, handler, npkts, lastpkt>>

\* What the init sets after reading an answer (lines 180-185 and 207-208).
Detect(m, then) ==
  CASE then = "wheel" -> [m EXCEPT !.has_scroll_wheel = (MouseKind = "scroll")]
    [] then = "five"  -> [m EXCEPT !.has_5_buttons = (MouseKind = "five")]
    [] OTHER          -> m

DetectSize(sz, then) ==
  CASE then = "wheel"                      -> IF MouseKind = "scroll" THEN 4 ELSE 3
    [] then = "five" /\ MouseKind = "five" -> 4
    [] OTHER                               -> sz

\* The device sends its next answer; it raises IRQ12 on the way to the poll.
InitReply ==
  /\ minit = "exchange" /\ replies # <<>>
  /\ LET e == Head(replies)
         s == Arrive(Answer(e.val))
     IN  /\ SetHandlerState([s EXCEPT !.mstate = Detect(@, e.then)])
         /\ size' = DetectSize(size, e.then)
  /\ replies' = Tail(replies)
  /\ UNCHANGED <<irq12, handler, reporting, extended, pending, npkts, minit,
                 initres>>

Detected(r) == r \in {"ok", "defaults", "enable"}

\* The init returns: after ENABLE went through the device reports, in the
\* format the probes set, and ps2_mouse_register_handler installs
\* mouse_handler (line 386); a failed check returns -1 with the handler as
\* it was.
InitEnd ==
  /\ minit = "exchange" /\ replies = <<>>
  /\ reporting' = (initres = "ok")
  /\ extended' = (Detected(initres) /\ MouseKind # "standard")
  /\ handler' = (handler \/ initres = "ok")
  /\ minit' = "idle"
  /\ UNCHANGED <<mstate, buffer, index, size, irq12, pending, npkts, lastpkt,
                 initres, replies>>

\* Mutant: remove does not send DISABLE.
ps2_mouse_remove_no_disable ==
  /\ UNCHANGED mvars

\* ps2_mouse_remove_driver (lines 408-412): MOUSE_CMD_DISABLE, and the
\* device's ACK.
ps2_mouse_remove ==
  /\ reporting' = FALSE
  /\ pending' = <<>>
  /\ SetHandlerState(Arrive(Answer(MOUSE_RESP_ACK)))
  /\ UNCHANGED <<size, irq12, handler, extended, npkts, minit, initres, replies>>

(***************************************************************************)
(* The device                                                              *)
(***************************************************************************)
\* The bytes of a packet with buttons b and movements dx, dy.
PacketBytes(n, b, dx, dy) ==
  LET flags == MOUSE_PACKET_ALWAYS_1 + b
                 + (IF dx < 0 THEN MOUSE_PACKET_X_SIGN ELSE 0)
                 + (IF dy < 0 THEN MOUSE_PACKET_Y_SIGN ELSE 0)
      vals == <<flags, dx % 256, dy % 256>> \o (IF extended THEN <<0>> ELSE <<>>)
  IN  [i \in 1..Len(vals) |-> [pkt |-> n, pos |-> i - 1, val |-> vals[i]]]

\* The reporting device starts a packet of its choice.
StartPacket ==
  /\ reporting /\ pending = <<>> /\ npkts < MaxPackets
  /\ \E b \in Buttons, dx \in Moves, dy \in Moves :
        pending' = PacketBytes(npkts + 1, b, dx, dy)
  /\ npkts' = npkts + 1
  /\ UNCHANGED <<mstate, buffer, index, size, irq12, handler, reporting,
                 extended, lastpkt, minit, initres, replies>>

\* The device sends the next byte of its packet.
SendByte ==
  /\ pending # <<>>
  /\ pending' = Tail(pending)
  /\ SetHandlerState(Arrive(Head(pending)))
  /\ UNCHANGED <<size, irq12, handler, reporting, extended, npkts, minit,
                 initres, replies>>

MouseTypeOK ==
  /\ index \in 0..3
  /\ size \in {3, 4}
  /\ mstate.x >= 0 /\ mstate.y >= 0
  /\ mstate.buttons \in 0..7
  /\ \A b \in {irq12, handler, reporting, extended} : b \in BOOLEAN
  /\ Len(pending) <= 4
  /\ minit \in {"idle", "config", "exchange"}
  /\ initres \in InitResults

\* Every packet process_mouse_packet handles is one packet the device sent,
\* whole and in order: the driver's packet boundaries stay on the device's,
\* across removes in the middle of a packet and the inits that follow.
PacketsAligned ==
  lastpkt # <<>> =>
    /\ \A i \in 1..Len(lastpkt) :
          lastpkt[i].pkt = lastpkt[1].pkt /\ lastpkt[i].pos = i - 1
    /\ Len(lastpkt) = size
====

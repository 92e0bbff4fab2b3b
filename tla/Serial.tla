------------------------------- MODULE Serial -------------------------------
(***************************************************************************)
(* The serial driver of src/kernel/src/arch/x86/serial.c and the 16550    *)
(* UART it programs through port I/O.                                     *)
(*                                                                         *)
(* The UART is the environment, as the datasheet describes it to the      *)
(* driver: a register file in which DLAB (bit 7 of LCR) turns offsets 0   *)
(* and 1 into the divisor latches, a transmit and a receive FIFO of       *)
(* TX_DEPTH and RX_DEPTH bytes once FCR enables them (one byte before),   *)
(* LSR's data-ready bit (receive FIFO not empty) and THRE bit (transmit   *)
(* FIFO empty), and MCR's loopback bit, which routes transmitted bytes    *)
(* to the receiver.  A byte written to a full transmit FIFO, or received  *)
(* into a full receive FIFO, is lost (an overrun, which LSR would report  *)
(* and no code reads).  A UART is the record                              *)
(*   [dll, dlm, ier, lcr, fcr, mcr, tx, rx].                              *)
(***************************************************************************)
EXTENDS Integers, Sequences, Bitwise, SequencesExt

CONSTANTS
  TX_DEPTH,     \* transmit FIFO depth (16 on a 16550A)
  RX_DEPTH      \* receive FIFO depth (16 on a 16550A)

\* Register offsets and bits of arch/x86/include/serial.h.
SERIAL_DATA_REG        == 0
SERIAL_INTR_ENABLE_REG == 1
SERIAL_FIFO_CTRL_REG   == 2
SERIAL_LINE_CTRL_REG   == 3
SERIAL_MODEM_CTRL_REG  == 4
SERIAL_LINE_STATUS_REG == 5
SERIAL_LSR_RX_READY    == 1
SERIAL_LSR_TX_READY    == 32
SERIAL_FCR_ENABLE      == 1
SERIAL_FCR_CLEAR_RX    == 2
SERIAL_FCR_CLEAR_TX    == 4
SERIAL_FCR_TRIGGER_14  == 192
SERIAL_LCR_8BITS       == 3
SERIAL_LCR_1STOP       == 0
SERIAL_LCR_DLAB        == 128
SERIAL_MCR_DTR         == 1
SERIAL_MCR_RTS         == 2
SERIAL_MCR_OUT2        == 8
SERIAL_MCR_LOOPBACK    == 16
SERIAL_BAUD_115200     == 1

-----------------------------------------------------------------------------
(* The UART. *)

Set(v, b) == (v & b) # 0
Dlab(u) == Set(u.lcr, SERIAL_LCR_DLAB)
Loopback(u) == Set(u.mcr, SERIAL_MCR_LOOPBACK)
Depth(u, d) == IF Set(u.fcr, SERIAL_FCR_ENABLE) THEN d ELSE 1

\* A byte into a FIFO of depth d; into a full one it is lost.
Push(q, b, d) == IF Len(q) < d THEN Append(q, b) ELSE q

\* FCR: the clear bits empty a FIFO and read back as 0.
WriteFcr(u, val) ==
  [u EXCEPT !.fcr = val - (val & (SERIAL_FCR_CLEAR_RX + SERIAL_FCR_CLEAR_TX)),
            !.rx  = IF Set(val, SERIAL_FCR_CLEAR_RX) THEN <<>> ELSE @,
            !.tx  = IF Set(val, SERIAL_FCR_CLEAR_TX) THEN <<>> ELSE @]

\* outb(port + off, val).
Outb(u, off, val) ==
  CASE off = SERIAL_DATA_REG /\ Dlab(u)        -> [u EXCEPT !.dll = val]
    [] off = SERIAL_DATA_REG                   -> [u EXCEPT !.tx = Push(@, val, Depth(u, TX_DEPTH))]
    [] off = SERIAL_INTR_ENABLE_REG /\ Dlab(u) -> [u EXCEPT !.dlm = val]
    [] off = SERIAL_INTR_ENABLE_REG            -> [u EXCEPT !.ier = val]
    [] off = SERIAL_FIFO_CTRL_REG              -> WriteFcr(u, val)
    [] off = SERIAL_LINE_CTRL_REG              -> [u EXCEPT !.lcr = val]
    [] off = SERIAL_MODEM_CTRL_REG             -> [u EXCEPT !.mcr = val]

\* inb(port + SERIAL_LINE_STATUS_REG).
Lsr(u) ==
  (IF u.rx # <<>> THEN SERIAL_LSR_RX_READY ELSE 0)
  + (IF u.tx = <<>> THEN SERIAL_LSR_TX_READY ELSE 0)

\* inb(port + SERIAL_DATA_REG): the divisor latch under DLAB, else the
\* oldest received byte, which the read removes.
InbData(u) ==
  IF Dlab(u) THEN [val |-> u.dll, u |-> u]
  ELSE [val |-> Head(u.rx), u |-> [u EXCEPT !.rx = Tail(@)]]

-----------------------------------------------------------------------------
(* serial.c *)

\* The port writes of serial_init (lines 41-57), as <<offset, value>>.
IerOff     == <<SERIAL_INTR_ENABLE_REG, 0>>
DlabOn     == <<SERIAL_LINE_CTRL_REG, SERIAL_LCR_DLAB>>
DivLow(b)  == <<SERIAL_DATA_REG, b % 256>>
DivHigh(b) == <<SERIAL_DATA_REG + 1, (b \div 256) % 256>>
Lcr8N1     == <<SERIAL_LINE_CTRL_REG, SERIAL_LCR_8BITS + SERIAL_LCR_1STOP>>
FcrOn      == <<SERIAL_FIFO_CTRL_REG, SERIAL_FCR_ENABLE + SERIAL_FCR_CLEAR_RX
                                      + SERIAL_FCR_CLEAR_TX + SERIAL_FCR_TRIGGER_14>>
McrOn      == <<SERIAL_MODEM_CTRL_REG, SERIAL_MCR_DTR + SERIAL_MCR_RTS + SERIAL_MCR_OUT2>>

\* Mutant: the 8N1 line control is written before the divisor, which
\* clears DLAB too early.
SerialInitWritesLcrFirst(b) == <<IerOff, DlabOn, Lcr8N1, DivLow(b), DivHigh(b), FcrOn, McrOn>>

\* serial_init's writes in the order of the code.
SerialInitWrites(b) == <<IerOff, DlabOn, DivLow(b), DivHigh(b), Lcr8N1, FcrOn, McrOn>>

\* Mutant: the wait tests the data-ready bit instead of THRE.
serial_is_transmit_empty_rx_bit(u) == Lsr(u) & SERIAL_LSR_RX_READY

\* serial_is_transmit_empty (lines 65-67).
serial_is_transmit_empty(u) == Lsr(u) & SERIAL_LSR_TX_READY

\* Mutant: the data-ready mask is bit 1 (the overrun bit) instead of bit 0.
serial_received_bit1(u) == Lsr(u) & 2

\* serial_received (lines 87-89).
serial_received(u) == Lsr(u) & SERIAL_LSR_RX_READY

\* serial_write_char (lines 74-80) once its wait loop has seen THRE: the
\* wait is the guard of the step that writes.
CanWrite(u) == serial_is_transmit_empty(u) # 0
serial_write_char(u, c) == Outb(u, SERIAL_DATA_REG, c)

\* serial_read_char (lines 96-102), likewise.
CanRead(u) == serial_received(u) # 0
serial_read_char(u) == InbData(u)

-----------------------------------------------------------------------------
(* The UART's own steps. *)

\* The transmitter shifts the oldest byte out, to the line or, in
\* loopback, to the receiver.
Shift(u) ==
  IF Loopback(u)
  THEN [u EXCEPT !.tx = Tail(@), !.rx = Push(@, Head(u.tx), Depth(u, RX_DEPTH))]
  ELSE [u EXCEPT !.tx = Tail(@)]

\* A byte arrives from the line; in loopback the line is disconnected.
Receive(u, b) ==
  IF Loopback(u) THEN u ELSE [u EXCEPT !.rx = Push(@, b, Depth(u, RX_DEPTH))]
====

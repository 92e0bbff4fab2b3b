------------------------------ MODULE Console -------------------------------
(***************************************************************************)
(* The kernel's console: kmain (src/unnamed/part_002) printing its boot    *)
(* messages through kprintf and kerr, io_init, kputs and kputchar (the I/O *)
(* part of src/kernel/src/kernel/config.h), the serial driver writing them *)
(* to the UART, and the echo loop answering the keys typed on a terminal.  *)
(*                                                                         *)
(* Actors: the CPU running kmain (nothing else runs: the UART's interrupts *)
(* stay disabled), the UART's transmitter, and the terminal, which may     *)
(* type at any time.  A kprintf formats its buffer in one step and then    *)
(* writes one character per step, each after its wait for THRE.  The text  *)
(* of kmain's messages is kept where formatting acts on it (directives,   *)
(* newlines, arguments) and shortened to one letter per run of plain text. *)
(***************************************************************************)
EXTENDS Format, Serial

CONSTANTS
  BUF_SIZE,     \* sizeof(buffer) of kprintf and kerr (1024)
  Boots,        \* what the bootloader answers: [rev, info, fb]
  InitUarts,    \* the UART as the firmware leaves it
  Keys,         \* characters the terminal may type
  MAX_TYPED     \* bound on the keys typed

VARIABLES
  uart,            \* the UART's registers and FIFOs
  wire,            \* the bytes the UART has sent on the line
  init,            \* serial_init's port writes still to do
  out,             \* the characters the running call has still to write
  prog,            \* the calls kmain has still to make
  said,            \* every call's text, in order: the kernel's output
  typed,           \* keys typed so far
  io_initialized   \* config.h's io_initialized

vars == <<uart, wire, init, out, prog, said, typed, io_initialized>>

DEBUG_SERIAL_BAUD == SERIAL_BAUD_115200
KERNEL_VERSION_STRING == <<"0", ".", "1", ".", "0">>

\* One call of kmain's: kprintf(fmt, args...), kerr(fmt), hcf's halt, or
\* the echo loop.
Printf(fmt, args) == [op |-> "kprintf", fmt |-> CharsOf(fmt), args |-> args]
Kerr(fmt) == [op |-> "kerr", fmt |-> CharsOf(fmt), args |-> <<>>]

\* kmain (lines 63-133), from the bootloader's answers b: which messages it
\* prints, ending in hcf or the echo loop.
Kmain(b) ==
  LET hcf   == <<Printf("\nH\n", <<>>), [op |-> "halt"]>>
      start == <<[op |-> "io_init"], Printf("\n", <<>>), Printf("K\n", <<>>),
                 Printf("-\n", <<>>)>>
      info  == IF b.info = NULL THEN <<>>
               ELSE <<Printf("B%s %s\n", <<b.info.name, b.info.version>>)>>
      gdt   == <<Printf("G", <<>>), Printf("d\n", <<>>), Printf("C", <<>>)>>
      fbok  == <<Printf("D\n", <<>>),
                 Printf("F%ux%u,%uP\n", <<b.fb.width, b.fb.height, b.fb.bpp>>),
                 Printf("L", <<>>), Printf("d\n", <<>>),
                 Printf("\nV%s!\n", <<KERNEL_VERSION_STRING>>),
                 Printf("S%d.\n", <<1>>), Printf("P", <<>>), [op |-> "echo"]>>
  IN  IF ~b.rev THEN start \o <<Kerr("I\n")>> \o hcf
      ELSE IF b.fb = NULL \/ b.fb.count < 1
      THEN start \o info \o gdt \o <<Printf("f\n", <<>>), Kerr("N\n")>> \o hcf
      ELSE start \o info \o gdt \o fbok

\* The banner io_init writes with serial_write_string (line 85).
Banner == <<"\r", "\n", "R", "\r", "\n">>
ErrorPrefix == CharsOf("[ERROR] ")

\* The characters of a C string up to its NUL.
CStr(s) == IF SelectInSeq(s, LAMBDA c : c = NUL) = 0 THEN s
           ELSE SubSeq(s, 1, SelectInSeq(s, LAMBDA c : c = NUL) - 1)

\* kputs and kputchar (lines 95-118): every '\n' is followed by '\r'.
Kputs(str) ==
  FlattenSeq([k \in 1..Len(CStr(str)) |->
                IF CStr(str)[k] = "\n" THEN <<"\n", "\r">> ELSE <<CStr(str)[k]>>])

\* Bytes of the kernel's text are characters, bytes of serial_init's
\* programming numbers; they are compared through their printed forms.
SameByte(a, b) == ToString(a) = ToString(b)

\* The echo loop's writes for a byte c read (lines 124-129).
EchoOf(c) == IF SameByte(c, "\r") THEN <<c, "\n">> ELSE <<c>>

\* The bytes a call's text becomes on its way to the UART.
Bytes(e) ==
  CASE e.kind = "raw"  -> e.text
    [] e.kind = "echo" -> EchoOf(e.text[1])
    [] OTHER           -> Kputs(e.text)

Init ==
  /\ \E b \in Boots : prog = Kmain(b)
  /\ uart \in InitUarts
  /\ wire = <<>>
  /\ init = <<>>
  /\ out = <<>>
  /\ said = <<>>
  /\ typed = 0
  /\ io_initialized = FALSE

Calling(op) == init = <<>> /\ out = <<>> /\ prog # <<>> /\ Head(prog).op = op

\* io_init (lines 77-89): serial_init's port writes, then the banner.
\* kmain calls it first; kprintf and kerr call it when io_initialized is
\* still FALSE.
IoInitSteps ==
  /\ init' = SerialInitWrites(DEBUG_SERIAL_BAUD)
  /\ out' = Banner
  /\ said' = Append(said, [kind |-> "raw", text |-> Banner])
  /\ io_initialized' = TRUE

IoInit ==
  /\ Calling("io_init")
  /\ prog' = Tail(prog)
  /\ IF io_initialized THEN UNCHANGED <<init, out, said, io_initialized>>
     ELSE IoInitSteps
  /\ UNCHANGED <<uart, wire, typed>>

\* A kprintf or kerr call c whose buffer kvsnprintf has filled with text.
Formatted(c, text) == [kind |-> "kprintf", fmt |-> c.fmt, args |-> c.args, text |-> text]

\* The buffer kvsnprintf(buffer, sizeof(buffer), fmt, args) fills.
Buffer(c) == {kvsnprintf(BUF_SIZE, c.fmt, c.args)}

\* A kprintf or kerr call once io_init has run: the texts es go to kputs.
Say(es) ==
  /\ out' = FlattenSeq([k \in 1..Len(es) |-> Kputs(es[k].text)])
  /\ said' = said \o es
  /\ prog' = Tail(prog)
  /\ UNCHANGED <<init, io_initialized>>

\* kprintf (lines 125-136): io_init if needed, kvsnprintf into buffer, kputs.
Kprintf ==
  /\ Calling("kprintf")
  /\ IF ~io_initialized THEN IoInitSteps /\ UNCHANGED prog
     ELSE \E text \in Buffer(Head(prog)) : Say(<<Formatted(Head(prog), text)>>)
  /\ UNCHANGED <<uart, wire, typed>>

\* kerr (lines 164-178): the prefix through kputs, then as kprintf.
KerrCall ==
  /\ Calling("kerr")
  /\ IF ~io_initialized THEN IoInitSteps /\ UNCHANGED prog
     ELSE \E text \in Buffer(Head(prog)) :
            Say(<<[kind |-> "kputs", text |-> ErrorPrefix], Formatted(Head(prog), text)>>)
  /\ UNCHANGED <<uart, wire, typed>>

\* One port write of serial_init (lines 39-58).
InitWrite ==
  /\ init # <<>>
  /\ uart' = Outb(uart, Head(init)[1], Head(init)[2])
  /\ init' = Tail(init)
  /\ UNCHANGED <<wire, out, prog, said, typed, io_initialized>>

\* serial_write_char of the next character, once THRE is set.
WriteChar ==
  /\ init = <<>>
  /\ out # <<>>
  /\ CanWrite(uart)
  /\ uart' = serial_write_char(uart, Head(out))
  /\ out' = Tail(out)
  /\ UNCHANGED <<wire, init, prog, said, typed, io_initialized>>

\* One turn of the echo loop (lines 122-130): serial_read_char once data
\* is ready, then the echo.
Echo ==
  /\ Calling("echo")
  /\ CanRead(uart)
  /\ LET r == serial_read_char(uart)
     IN  /\ uart' = r.u
         /\ out' = EchoOf(r.val)
         /\ said' = Append(said, [kind |-> "echo", text |-> <<r.val>>])
  /\ UNCHANGED <<wire, init, prog, typed, io_initialized>>

\* The UART's transmitter sends the oldest byte of its FIFO.
Transmit ==
  /\ uart.tx # <<>>
  /\ uart' = Shift(uart)
  /\ wire' = IF Loopback(uart) THEN wire ELSE Append(wire, Head(uart.tx))
  /\ UNCHANGED <<init, out, prog, said, typed, io_initialized>>

\* The terminal sends a key.
Type(k) ==
  /\ typed < MAX_TYPED
  /\ uart' = Receive(uart, k)
  /\ typed' = typed + 1
  /\ UNCHANGED <<wire, init, out, prog, said, io_initialized>>

Kernel == IoInit \/ Kprintf \/ KerrCall \/ InitWrite \/ WriteChar \/ Echo

Next == Kernel \/ Transmit \/ \E k \in Keys : Type(k)

\* The CPU runs kmain whenever it can take a step, and the UART sends a
\* byte of its FIFO at the line's pace; the terminal need not type.
Spec == Init /\ [][Next]_vars /\ WF_vars(Kernel) /\ WF_vars(Transmit)
-----------------------------------------------------------------------------
(* Properties *)

\* Everything the kernel has handed to the serial driver, in call order.
Transcript == FlattenSeq([k \in DOMAIN said |-> Bytes(said[k])])

\* IsPrefix for sequences mixing characters and numbers.
BytePrefix(s, t) == Len(s) <= Len(t) /\ \A i \in 1..Len(s) : SameByte(s[i], t[i])

InEcho == prog # <<>> /\ Head(prog).op = "echo"

\* A sequence of characters or of byte values.
ByteSeq(s) == DOMAIN s = 1..Len(s) /\ \A i \in DOMAIN s : s[i] \in STRING

\* Type invariant; it also says that the buffer kvsnprintf fills for a
\* kprintf or kerr keeps room for its NUL (line 449): at most BUF_SIZE - 1
\* characters before it, however long the formatted text.
TypeOK ==
  /\ ByteSeq(uart.tx) /\ Len(uart.tx) <= TX_DEPTH
  /\ ByteSeq(uart.rx) /\ Len(uart.rx) <= RX_DEPTH
  /\ {uart.dll, uart.dlm, uart.ier, uart.lcr, uart.fcr, uart.mcr} \subseteq 0..255
  /\ ByteSeq(wire)
  /\ ByteSeq(out)
  /\ typed \in 0..MAX_TYPED
  /\ io_initialized \in BOOLEAN
  /\ \A k \in DOMAIN said :
       said[k].kind = "kprintf" => Len(said[k].text) <= BUF_SIZE - 1

\* Every message kprintf and kerr print is what snprintf would make of the
\* same format and arguments in a buffer of BUF_SIZE bytes: kvsnprintf's
\* directive parsing, int_to_string's digits and the truncation agree with
\* the C library on the formats kmain uses.
BufferFormatted ==
  \A k \in DOMAIN said :
    said[k].kind = "kprintf" =>
      said[k].text = RefSnprintf(BUF_SIZE, said[k].fmt, said[k].args)

\* What goes out on the line is always a prefix of what the kernel wrote,
\* in order: no byte of serial_init's programming (the divisor written
\* through offset 0) reaches the transmitter, no byte is lost to a full
\* FIFO, and the banner, kputchar's '\r' after '\n' and the echo come out
\* where the code writes them, while the terminal types at any time.
WireFaithful == BytePrefix(wire, Transcript)

\* Whatever the kernel has written is eventually on the line: no
\* serial_write_char waits for THRE forever, and kmain's output is not
\* held up by keys typed while it prints.
OutputDelivered == []<>(wire = Transcript)

\* Once kmain is in its echo loop, every key the terminal sends is read:
\* serial_received sees it and serial_read_char takes it off the receiver.
EchoDrains == (InEcho /\ uart.rx # <<>>) ~> (uart.rx = <<>>)
====

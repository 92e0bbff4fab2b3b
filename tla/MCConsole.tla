----------------------------- MODULE MCConsole ------------------------------
(***************************************************************************)
(* Console with three boots: an unsupported base revision (kerr, hcf), no *)
(* framebuffer (kerr, hcf) and a full boot into the echo loop whose        *)
(* bootloader name and version are long enough to be cut at BUF_SIZE;      *)
(* the UART as the firmware leaves it either powered-up blank or already *)
(* programmed with its FIFOs on.                                          *)
(***************************************************************************)
EXTENDS Console

MCBoots ==
  { [rev |-> FALSE, info |-> NULL, fb |-> NULL],
    [rev |-> TRUE, info |-> NULL, fb |-> [count |-> 0, width |-> 0, height |-> 0, bpp |-> 0]],
    [rev |-> TRUE, info |-> [name |-> CharsOf("Limine"), version |-> CharsOf("10.0.3")],
     fb |-> [count |-> 1, width |-> 640, height |-> 480, bpp |-> 32]] }

Blank == [dll |-> 0, dlm |-> 0, ier |-> 0, lcr |-> 0, fcr |-> 0, mcr |-> 0,
          tx |-> <<>>, rx |-> <<>>]

MCInitUarts ==
  { Blank,
    [Blank EXCEPT !.dll = 1, !.lcr = 3, !.fcr = 193, !.mcr = 11] }
====

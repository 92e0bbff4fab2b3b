------------------------------ MODULE Drivers -------------------------------
(***************************************************************************)
(* The driver registry composed with the drivers registered in it: the     *)
(* PS/2 mouse, whose probe is ps2_mouse_init and whose remove disables     *)
(* reporting (mouse.c), ext4 (part_006: ext4_probe_driver returns          *)
(* ext4_init(), ext4_remove_driver does nothing) and drivers without a     *)
(* probe.  The kernel runs one call at a time; a register or unregister    *)
(* call and its callback are one step, except the mouse's probe, whose     *)
(* polled exchange with the device is a sequence of steps (see PS2Mouse).  *)
(* The mouse's bytes arrive between any two steps.                         *)
(*                                                                         *)
(* Every *_register_driver function in the tree registers a static driver  *)
(* object, and nothing stops it from being called again: a driver may be   *)
(* registered while it is registered.                                      *)
(***************************************************************************)
EXTENDS Integers, Sequences

CONSTANTS
  Drivers, ClassOf, HasProbe, MAX_DRIVERS_PER_CLASS,
  MouseDriver,      \* ps2_mouse_driver
  MouseKind, Buttons, Moves, MaxPackets

VARIABLES
  registry, dstate, ret,
  mstate, buffer, index, size, irq12, handler, reporting, extended, pending,
  npkts, lastpkt, minit, initres, replies

Reg == INSTANCE DriverRegistry
Mouse == INSTANCE PS2Mouse

rvars == <<registry, dstate, ret>>
mvars == <<mstate, buffer, index, size, irq12, handler, reporting, extended,
           pending, npkts, lastpkt, minit, initres, replies>>
vars == <<rvars, mvars>>

Init == Reg!RegistryInit /\ Mouse!MouseInit

\* What d's probe can return when it runs in one step: success or failure
\* for a probe, success without one.
ProbeResults(d) == IF d \in HasProbe THEN {"ok", "fail"} ELSE {"ok"}

\* No call is running: the mouse's probe has returned.
Idle == minit = "idle"

\* The *_register_driver calls: device_driver_register(&driver), which runs
\* the probe when the driver got a slot.  The mouse's probe starts here.
Register(d) ==
  /\ Idle
  /\ IF d = MouseDriver /\ Reg!HasRoom(d)
     THEN Reg!device_driver_register_begin(d) /\ Mouse!InitStart
     ELSE /\ \E r \in ProbeResults(d) : Reg!device_driver_register(d, r = "ok")
          /\ UNCHANGED mvars

\* The steps of ps2_mouse_init, and its return to device_driver_register.
MouseProbeStep ==
  /\ \/ \E r \in Mouse!InitResults : Mouse!InitReset(r)
     \/ Mouse!InitReply
  /\ UNCHANGED rvars

MouseProbeReturn ==
  /\ Mouse!InitEnd
  /\ Reg!device_driver_probe_returned(MouseDriver, initres = "ok")

\* device_driver_unregister(&driver), which runs the remove callback when
\* it finds the driver.
Unregister(d) ==
  /\ Idle
  /\ Reg!device_driver_unregister(d)
  /\ IF d = MouseDriver /\ Reg!Registered(d)
     THEN Mouse!ps2_mouse_remove
     ELSE UNCHANGED mvars

MouseStartPacket == Mouse!StartPacket /\ UNCHANGED rvars
MouseByte == Mouse!SendByte /\ UNCHANGED rvars

Next ==
  \/ \E d \in Drivers : Register(d) \/ Unregister(d)
  \/ MouseProbeStep
  \/ MouseProbeReturn
  \/ MouseStartPacket
  \/ MouseByte

Spec == Init /\ [][Next]_vars

TypeOK == Reg!RegistryTypeOK /\ Mouse!MouseTypeOK

\* See PS2Mouse: every packet process_mouse_packet handles is one the device
\* sent, whole, however registers, re-inits and unregisters cut the stream.
PacketsAligned == Mouse!PacketsAligned

\* See DriverRegistry: a driver that is not UNLOADED is found in its class.
LoadedDriversFound == Reg!LoadedDriversFound

\* The mouse streams packets only while its driver is loading or READY:
\* every path that takes the driver out of those states (a probe returning
\* an error, an unregister) first stops the device, a re-init by resetting
\* it and an unregister by ps2_mouse_remove's DISABLE, although
\* mouse_handler stays installed and IRQ12 stays enabled.
ReportingOnlyWhileLoaded ==
  reporting => dstate[MouseDriver] \in {"INITIALIZING", "READY"}
====

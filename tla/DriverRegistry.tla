--------------------------- MODULE DriverRegistry ---------------------------
(***************************************************************************)
(* The device driver registry of src/unnamed/part_001 (driversys.c): one   *)
(* array of driver pointers per device class with a count, and the state   *)
(* field of each device_driver_t.  The kernel is single-threaded here, so  *)
(* each call, including the driver's probe or remove callback it makes, is *)
(* one step; the callback's own effect is conjoined by the module that     *)
(* composes the registry with the drivers.  The driver a slot points to is *)
(* a model value; the slots past the count are never read and are left    *)
(* out, so a class is the sequence drivers[c][0 .. count - 1].            *)
(***************************************************************************)
EXTENDS Integers, Sequences, SequencesExt

CONSTANTS
  Drivers,                \* the device_driver_t objects
  ClassOf,                \* their device_class
  HasProbe,               \* drivers whose ops->probe is set
  MAX_DRIVERS_PER_CLASS

VARIABLES
  registry,  \* registry[c] = drivers[c][0 .. driver_count[c] - 1]
  dstate,    \* dstate[d] = d->state
  ret        \* what the last call returned

rvars == <<registry, dstate, ret>>

Classes == {ClassOf[d] : d \in Drivers}
DriverStates == {"UNLOADED", "INITIALIZING", "READY", "ERROR"}

\* The static device_registry = {0} and the drivers' static initialisers.
RegistryInit ==
  /\ registry = [c \in Classes |-> <<>>]
  /\ dstate = [d \in Drivers |-> "UNLOADED"]
  /\ ret = 0

Registered(d) == \E i \in 1..Len(registry[ClassOf[d]]) : registry[ClassOf[d]][i] = d

\* Mutant: the class-full check off by one.
HasRoomOffByOne(d) == Len(registry[ClassOf[d]]) <= MAX_DRIVERS_PER_CLASS

HasRoom(d) == Len(registry[ClassOf[d]]) < MAX_DRIVERS_PER_CLASS

\* device_driver_register (lines 50-88), where ok is whether the probe
\* returned 0.  The class-full check comes first; then the driver takes the
\* next slot and is INITIALIZING while its probe runs; a failed probe leaves
\* it in its slot, in state ERROR.
device_driver_register(d, ok) ==
  LET c == ClassOf[d] IN
  IF ~HasRoom(d)
  THEN /\ ret' = -1
       /\ UNCHANGED <<registry, dstate>>
  ELSE /\ registry' = [registry EXCEPT ![c] = Append(@, d)]
       /\ dstate' = [dstate EXCEPT ![d] = IF ok THEN "READY" ELSE "ERROR"]
       /\ ret' = IF ok THEN 0 ELSE -1

\* The same call for a driver whose probe takes steps of its own, when the
\* class has room: lines 63-68, up to the probe call ...
device_driver_register_begin(d) ==
  /\ registry' = [registry EXCEPT ![ClassOf[d]] = Append(@, d)]
  /\ dstate' = [dstate EXCEPT ![d] = "INITIALIZING"]
  /\ UNCHANGED ret

\* ... and lines 71-87, once the probe returned.
device_driver_probe_returned(d, ok) ==
  /\ dstate' = [dstate EXCEPT ![d] = IF ok THEN "READY" ELSE "ERROR"]
  /\ ret' = IF ok THEN 0 ELSE -1
  /\ UNCHANGED registry

\* Mutant: the removal does not shift the drivers after slot i down, it
\* only decrements the count.
RemoveSlotNoShift(s, i) == SubSeq(s, 1, Len(s) - 1)

\* The shift loop at lines 114-116 and the decrement at 118.
RemoveSlot(s, i) == RemoveAt(s, i)

\* device_driver_unregister (lines 95-128): the first slot holding d is
\* removed and d is marked UNLOADED; the caller runs d's remove callback.
device_driver_unregister(d) ==
  LET c == ClassOf[d]
      s == registry[c]
  IN  IF Registered(d)
      THEN /\ registry' = [registry EXCEPT ![c] =
                             RemoveSlot(s, SelectInSeq(s, LAMBDA x : x = d))]
           /\ dstate' = [dstate EXCEPT ![d] = "UNLOADED"]
           /\ ret' = 0
      ELSE /\ ret' = -1
           /\ UNCHANGED <<registry, dstate>>

\* device_driver_find (lines 137-151): the first driver of the class with
\* the name; each driver here has its own name.
device_driver_find(d, c) ==
  LET s == registry[c]
      i == SelectInSeq(s, LAMBDA x : x = d)
  IN  IF i = 0 THEN "NULL" ELSE s[i]

RegistryTypeOK ==
  /\ \A c \in Classes : registry[c] \in Seq(Drivers)
                        /\ Len(registry[c]) <= MAX_DRIVERS_PER_CLASS
  /\ dstate \in [Drivers -> DriverStates]
  /\ ret \in {0, -1}

\* A driver that is loading, loaded or failed is found in its class: every
\* state change away from UNLOADED happens with the slot taken, and a slot
\* is given back only with the driver marked UNLOADED, after any sequence of
\* registers, probes and unregisters.  (The converse fails: a driver
\* registered twice holds two slots, and unregistering it once marks it
\* UNLOADED while device_driver_find still returns it.)
LoadedDriversFound ==
  \A d \in Drivers :
    dstate[d] # "UNLOADED" => device_driver_find(d, ClassOf[d]) # "NULL"
====

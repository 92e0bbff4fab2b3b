------------------------------ MODULE MCDrivers ------------------------------
(***************************************************************************)
(* The mouse and two more input drivers, one with a probe and one without, *)
(* compete for two input slots; ext4 has the storage class to itself.  A   *)
(* standard mouse sends two packets whose X byte is 0 or 200 (0xC8, which  *)
(* has the always-1 bit of a first byte set).                              *)
(***************************************************************************)
EXTENDS Drivers

CONSTANTS ps2_mouse, ext4_fs, input_a, input_b

MCDrivers == {ps2_mouse, ext4_fs, input_a, input_b}
MCClassOf == [d \in MCDrivers |-> IF d = ext4_fs THEN "STORAGE" ELSE "INPUT"]
MCHasProbe == {ps2_mouse, ext4_fs, input_a}
====

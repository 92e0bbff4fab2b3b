----------------------------- MODULE MCKeyboard -----------------------------
(***************************************************************************)
(* Left shift and the A key, a two-slot ring and four bytes from the       *)
(* keyboard: enough to fill the ring, drop a byte, and type a shifted and *)
(* an unshifted letter.                                                    *)
(***************************************************************************)
EXTENDS Keyboard

MCKeys == {KB_KEY_LEFT_SHIFT, 30}
====

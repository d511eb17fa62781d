----------------------------- MODULE MCKeyboard -----------------------------
(* Small instances of the keyboard driver. *)
EXTENDS Keyboard
=============================================================================

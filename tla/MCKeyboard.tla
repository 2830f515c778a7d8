----------------------------- MODULE MCKeyboard -----------------------------
(* The keys that a platform treats in a way of its own; a letter and CapsLock. *)
EXTENDS Keyboard

Keys(p) ==
    CASE p = "windows" -> {"ControlLeft", "AltRight", "ShiftLeft", "ShiftRight"}
      [] p = "mac"     -> {"MetaLeft", "KeyA", "CapsLock"}
      [] OTHER         -> {"KeyA", "CapsLock"}
=============================================================================

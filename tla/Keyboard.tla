------------------------------- MODULE Keyboard -------------------------------
(***************************************************************************)
(* KeyboardState and InputHandler (src/keyboardState.cpp,                  *)
(* src/inputHandler.cpp).  A KeyboardState is the set of the scancodes it  *)
(* shows as pressed, copied from the array that SDL keeps.                 *)
(***************************************************************************)
LOCAL INSTANCE Integers

CONSTANTS
    ScancodeCount,  \* SDL_SCANCODE_COUNT
    ArraySize       \* the length that SDL reports for its array

KeyA     == 4
KeyD     == 7
KeyP     == 19
Key1     == 30
Key2     == 31
Key3     == 32
KeySpace == 44

InRange(key) == key \in 0..(ScancodeCount - 1)

\* InputHandler::isKeyPressed, where held is the array.
IsHeld(key, held) == key < ArraySize /\ key \in held

Capture(held) == {key \in held : InRange(key) /\ IsHeld(key, held)}

IsKeyPressed(keyboard, key) == InRange(key) /\ key \in keyboard

JustPressed(keyboard, key, earlier) ==
    IsKeyPressed(keyboard, key) /\ ~IsKeyPressed(earlier, key)
=============================================================================

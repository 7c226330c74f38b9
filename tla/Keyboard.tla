------------------------------ MODULE Keyboard ------------------------------
(***************************************************************************)
(* The polled PS/2 keyboard driver (keyboard.c).  The keyboard sends a byte *)
(* for every press and release, the driver takes them one per call, perhaps *)
(* long after, and keeps three flags for the modifier keys.                 *)
(***************************************************************************)
EXTENDS Naturals, Sequences

CONSTANTS
  Keys,         \* the keys that are used, of DOMAIN scancode_set1 and Modifier
  MaxPending    \* bytes the keyboard holds until they are polled

VARIABLES
  held,         \* the keys that are down
  pending,      \* bytes that were not polled yet
  key_state,    \* the driver's flags
  char,         \* what keyboard_read_char returned last
  pressed,      \* history: for the last byte polled, and for every pending
                \* one, the flags that were right once it was sent
  both          \* history: the flags whose two keys were down together

vars == <<held, pending, key_state, char, pressed, both>>
-----------------------------------------------------------------------------
\* Both keys of a pair have one flag.
Modifier == [lctrl |-> "ctrl", rctrl |-> "ctrl", lshift |-> "shift",
             rshift |-> "shift", lalt |-> "alt", ralt |-> "alt"]

\* Keys whose byte is preceded by E0, which has the release bit set.
Extended == {"rctrl", "ralt", "up"}
Prefix == [key |-> "E0", up |-> TRUE]

\* A part of the two tables that has every kind of character.
scancode_set1 ==
  [h |-> "h", j |-> "j", m |-> "m", d4 |-> "4", apostrophe |-> "'",
   enter |-> "LF", back |-> "BS", tab |-> "HT", up |-> "NUL"]
scancode_set1_shift ==
  [h |-> "H", j |-> "J", m |-> "M", d4 |-> "$", apostrophe |-> "\"",
   enter |-> "LF", back |-> "BS", tab |-> "HT", up |-> "NUL"]

\* c - 'a' + 1: ^H is a backspace, ^J a line feed and ^M a carriage return.
Control == [h |-> "BS", j |-> "LF", m |-> "CR"]

ASSUME KeysAssumption ==
  /\ Keys \subseteq DOMAIN scancode_set1 \cup DOMAIN Modifier
  /\ MaxPending \in Nat

\* 32 to 126.
Printable == {"h", "H", "j", "J", "m", "M", "4", "$", "'", "\""}

Decoded(k, ks) ==
  LET c == IF ks.shift THEN scancode_set1_shift[k] ELSE scancode_set1[k]
  IN IF ks.ctrl /\ c \in DOMAIN Control THEN Control[c] ELSE c

\* The flags that are right for a set of keys.
Flags(s) == [f \in {"ctrl", "shift", "alt"} |->
               \E k \in s \cap DOMAIN Modifier : Modifier[k] = f]

Init ==
  /\ held = {} /\ pending = <<>> /\ char = "NUL"
  /\ key_state = Flags({}) /\ pressed = << Flags({}) >> /\ both = {}
-----------------------------------------------------------------------------
\* The keyboard sends the bytes of key k.
Send(k, up) ==
  LET bytes == (IF k \in Extended THEN <<Prefix>> ELSE <<>>)
                 \o << [key |-> k, up |-> up] >>
  IN /\ Len(pending) + Len(bytes) <= MaxPending
     /\ pending' = pending \o bytes
     /\ held' = IF up THEN held \ {k} ELSE held \cup {k}
     /\ pressed' = pressed \o (IF k \in Extended THEN << Flags(held) >> ELSE <<>>)
                           \o << Flags(held') >>
     /\ both' = both \cup {f \in {"ctrl", "shift", "alt"} :
                             {k2 \in DOMAIN Modifier : Modifier[k2] = f} \subseteq held'}
     /\ UNCHANGED <<key_state, char>>

\* A key that stays down sends its byte again.
Press(k) == Send(k, FALSE)
Release(k) == k \in held /\ Send(k, TRUE)

\* Mutant: a modifier that repeats toggles its flag.
MutReadToggle ==
  /\ pending # <<>>
  /\ LET b == Head(pending) IN
       IF b.key \in DOMAIN Modifier
       THEN /\ key_state' = [key_state EXCEPT ![Modifier[b.key]] = ~ b.up /\ ~ @]
            /\ char' = "NUL"
       ELSE /\ char' = IF b.up THEN "NUL" ELSE Decoded(b.key, key_state)
            /\ UNCHANGED key_state
  /\ pending' = Tail(pending) /\ pressed' = Tail(pressed)
  /\ UNCHANGED <<held, both>>

\* One byte is taken.  A modifier sets or clears its flag, any other release
\* is ignored, any other press is a character of the table for the flags.
keyboard_read_char ==
  /\ pending # <<>>
  /\ LET b == Head(pending) IN
       IF b.key \in DOMAIN Modifier
       THEN /\ key_state' = [key_state EXCEPT ![Modifier[b.key]] = ~ b.up]
            /\ char' = "NUL"
       ELSE /\ char' = IF b.up THEN "NUL" ELSE Decoded(b.key, key_state)
            /\ UNCHANGED key_state
  /\ pending' = Tail(pending) /\ pressed' = Tail(pressed)
  /\ UNCHANGED <<held, both>>

Next ==
  \/ \E k \in Keys : Press(k) \/ Release(k)
  \/ keyboard_read_char

Spec == Init /\ [][Next]_vars
-----------------------------------------------------------------------------
TypeOK ==
  /\ held \subseteq Keys
  /\ pending \in Seq([key : Keys \cup {"E0"}, up : BOOLEAN])
  /\ key_state \in [{"ctrl", "shift", "alt"} -> BOOLEAN]
  /\ char \in Printable \cup {"LF", "CR", "BS", "HT", "NUL"}
  /\ pressed \in Seq([{"ctrl", "shift", "alt"} -> BOOLEAN])
  /\ Len(pressed) = Len(pending) + 1 /\ both \subseteq {"ctrl", "shift", "alt"}

\* keyboard.c:16-21: a press that is polled late is decoded with the modifiers
\* of the moment it was sent.  Only a modifier whose two keys were down together
\* may be missed, and none is ever seen that was not there.
FlagsOfTheirTime ==
  pending # <<>> /\ Head(pending).key \in DOMAIN scancode_set1 /\ ~ Head(pending).up =>
    \A f \in DOMAIN key_state :
      key_state[f] = pressed[2][f] \/ (f \in both /\ ~ key_state[f])
=============================================================================

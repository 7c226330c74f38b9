------------------------------- MODULE Mouse --------------------------------
(***************************************************************************)
(* The window demo (gui.c) on the polled PS/2 mouse (mouse.c).  Keyboard    *)
(* and mouse are behind one controller with one output buffer: whoever      *)
(* reads the data port takes the byte that is there, whosever it is.  The   *)
(* drawing is left out, except for where the boxes of a window are drawn.   *)
(***************************************************************************)
EXTENDS Integers, Sequences

CONSTANTS
  Reports,       \* what the mouse may report: its three bytes
  KeyByte,       \* a byte of the keyboard, as the port gives it
  KeyBytes,      \* how many the keyboard sends while the demo runs
  CommandByte,   \* the controller's command byte
  Width, Height, \* of the screen
  WinX, Box, TitleH,  \* 50, 15 and 20 pixels of gui.c
  Drawn,         \* the side of a box as drawn: 12 pixels
  Desk           \* bound: how far a held button is moved off the screen

ASSUME MouseAssumption ==
  /\ Reports \subseteq [1..3 -> -128..127]
  /\ KeyByte \in -128..127 /\ KeyBytes \in Nat
  /\ CommandByte \in 0..127 /\ (CommandByte \div 2) % 2 = 0
  /\ Width \in Nat \ {0} /\ Height \in Nat \ {0}
  /\ WinX \in Nat /\ Box \in Nat \ {0} /\ TitleH \in Nat \ {0}
  /\ Drawn \in 0..Box /\ (TitleH \div 10) + Drawn <= TitleH
  /\ Desk \in Nat

VARIABLES
  obuf,          \* the controller's output buffer: at most one byte
  ctrl, aux, keys,    \* bytes that wait for it: replies, mouse; keys to come
  streaming,     \* the mouse sends reports
  pc, status,    \* mouse_init; "poll" and "drag" are the demo's loops
  packet, packet_cycle, ms, win,
  acted          \* history: the window changed since the button was up

hardware == <<ctrl, aux, keys, streaming>>
driver == <<packet, packet_cycle, ms>>
vars == <<obuf, hardware, pc, status, driver, win, acted>>
-----------------------------------------------------------------------------
\* A byte and, as a history, its place in the mouse's report, or 0.
Byte(v, from) == [v |-> v, from |-> from]
Ack == Byte(-6, 0)
MOUSE_SCALE == 2
WinW == Width \div 2

Init ==
  /\ obuf = <<>> /\ ctrl = <<>> /\ aux = <<>> /\ keys = KeyBytes
  /\ streaming = FALSE /\ pc = "ask" /\ status = 0
  /\ packet = [k \in 1..3 |-> Byte(0, 0)] /\ packet_cycle = 0
  /\ ms = [x |-> 0, y |-> 0, buttons |-> 0]
  /\ win = "NORMAL" /\ acted = FALSE
-----------------------------------------------------------------------------
\* The controller fills its empty output buffer from one of the devices.
Output ==
  /\ obuf = <<>>
  /\ \/ ctrl # <<>> /\ obuf' = <<Head(ctrl)>> /\ ctrl' = Tail(ctrl) /\ UNCHANGED <<aux, keys>>
     \/ aux # <<>> /\ obuf' = <<Head(aux)>> /\ aux' = Tail(aux) /\ UNCHANGED <<ctrl, keys>>
     \/ /\ keys > 0 /\ keys' = keys - 1
        /\ obuf' = <<Byte(KeyByte, 0)>> /\ UNCHANGED <<ctrl, aux>>
  /\ UNCHANGED <<streaming, pc, status, driver, win, acted>>

Report ==
  /\ streaming /\ aux = <<>> /\ ms.x <= Desk /\ ms.y <= Desk
  /\ \E r \in Reports : aux' = [k \in 1..3 |-> Byte(r[k], k)]
  /\ UNCHANGED <<obuf, ctrl, keys, streaming, pc, status, driver, win, acted>>
-----------------------------------------------------------------------------
\* mouse_init: the auxiliary device is enabled and the command byte is asked
\* for; what comes next from the port is taken for it, with bit 1 set.
GetCommandByte ==
  /\ pc = "ask" /\ pc' = "status" /\ ctrl' = Append(ctrl, Byte(CommandByte, 0))
  /\ UNCHANGED <<obuf, aux, keys, streaming, status, driver, win, acted>>

SetCommandByte ==
  /\ pc = "status" /\ obuf # <<>>
  /\ LET v == obuf[1].v % 256 IN status' = IF (v \div 2) % 2 = 1 THEN v ELSE v + 2
  /\ obuf' = <<>> /\ pc' = "default"
  /\ UNCHANGED <<hardware, driver, win, acted>>

\* mouse_write sends a command, F6 or F4, which the mouse acknowledges, and
\* mouse_read takes one byte.
MouseWrite ==
  /\ pc \in {"default", "stream"}
  /\ aux' = Append(aux, Ack)
  /\ streaming' = (pc = "stream")
  /\ pc' = IF pc = "default" THEN "default_ack" ELSE "stream_ack"
  /\ UNCHANGED <<obuf, ctrl, keys, status, driver, win, acted>>

\* Mutant: the acknowledgement of F4 is left in the port.
MutMouseRead ==
  /\ pc = "stream_ack" \/ (pc = "default_ack" /\ obuf # <<>>)
  /\ obuf' = IF pc = "default_ack" THEN <<>> ELSE obuf
  /\ pc' = IF pc = "default_ack" THEN "stream" ELSE "poll"
  /\ UNCHANGED <<hardware, status, driver, win, acted>>

MouseRead ==
  /\ pc \in {"default_ack", "stream_ack"} /\ obuf # <<>>
  /\ obuf' = <<>>
  /\ pc' = IF pc = "default_ack" THEN "stream" ELSE "poll"
  /\ UNCHANGED <<hardware, status, driver, win, acted>>
-----------------------------------------------------------------------------
AtLeast0(n) == IF n < 0 THEN 0 ELSE n
Below(n, limit) == IF n >= limit THEN limit - 1 ELSE n

\* The byte in the port joins the packet; the third one moves the cursor.
Taken ==
  LET p == [packet EXCEPT ![packet_cycle + 1] = obuf[1]] IN
  [packet |-> p, cycle |-> (packet_cycle + 1) % 3,
   ms |-> IF packet_cycle < 2 THEN ms
          ELSE [x |-> AtLeast0(ms.x + p[2].v * MOUSE_SCALE),
                y |-> AtLeast0(ms.y - p[3].v * MOUSE_SCALE),
                buttons |-> p[1].v % 8]]

\* The driver after mouse_poll, which does nothing when the port is empty.
mouse_poll ==
  IF obuf = <<>> THEN [packet |-> packet, cycle |-> packet_cycle, ms |-> ms]
  ELSE Taken

Pressed(m) == m.buttons % 2 = 1

Unhandled(w) == [win |-> w, handled |-> FALSE]

\* Mutant: a box's first column belongs to the box on its left.
Mutgui_window_handle_click(w, x, y) ==
  LET rel == x - WinX IN
  IF \/ w = "CLOSED" \/ rel < 0 \/ rel >= WinW \/ y < WinX \/ y >= WinX + TitleH
     \/ rel <= WinW - 3 * Box
  THEN Unhandled(w)
  ELSE [handled |-> TRUE,
        win |-> CASE rel <= WinW - 2 * Box -> "MINIMIZED"
                  [] rel > WinW - 2 * Box /\ rel <= WinW - Box ->
                       (IF w = "MAXIMIZED" THEN "NORMAL" ELSE "MAXIMIZED")
                  [] OTHER -> "CLOSED"]

\* gui_window_handle_click: the window's state after a click at (x, y), and
\* whether it was handled.
gui_window_handle_click(w, x, y) ==
  LET rel == x - WinX IN
  IF \/ w = "CLOSED" \/ rel < 0 \/ rel >= WinW \/ y < WinX \/ y >= WinX + TitleH
     \/ rel < WinW - 3 * Box
  THEN Unhandled(w)
  ELSE [handled |-> TRUE,
        win |-> CASE rel < WinW - 2 * Box -> "MINIMIZED"
                  [] rel >= WinW - 2 * Box /\ rel < WinW - Box ->
                       (IF w = "MAXIMIZED" THEN "NORMAL" ELSE "MAXIMIZED")
                  [] OTHER -> "CLOSED"]

\* gui_draw_window_ex: the corner of the k-th box from the right end of the
\* title bar, a little below its edge.
BoxAt(w, k) ==
  IF w = "MAXIMIZED" THEN [x |-> Width - k * Box, y |-> TitleH \div 10]
  ELSE [x |-> WinX + WinW - k * Box, y |-> WinX + (TitleH \div 10)]

\* History: acted is forgotten when the button is seen up.
Acted(changed) == acted' = (Pressed(ms') /\ (acted \/ changed))

\* What the demo does with the result d of a poll, with m as mouse state.
Polled(d, m) ==
  /\ obuf' = <<>>
  /\ packet' = d.packet /\ packet_cycle' = d.cycle /\ ms' = m
  /\ UNCHANGED <<hardware, status>>

OnScreen(m) == [m EXCEPT !.x = Below(@, Width), !.y = Below(@, Height)]
Clicked(m) == IF Pressed(m) THEN gui_window_handle_click(win, m.x, m.y)
              ELSE Unhandled(win)

\* Mutant: a handled click does not wait for the release.
MutIteration ==
  /\ pc = "poll"
  /\ LET m == OnScreen(mouse_poll.ms) IN
       /\ Polled(mouse_poll, m)
       /\ win' = Clicked(m).win /\ pc' = "poll"
       /\ Acted(win' # win)

\* One round of gui_run_demo's loop: poll, keep the cursor on the screen,
\* draw, look for a click.  A handled click waits for the button's release.
Iteration ==
  /\ pc = "poll"
  /\ LET m == OnScreen(mouse_poll.ms) IN
       /\ Polled(mouse_poll, m)
       /\ win' = Clicked(m).win
       /\ pc' = IF Clicked(m).handled THEN "drag" ELSE "poll"
       /\ Acted(win' # win)

DragPoll ==
  /\ pc = "drag" /\ Pressed(ms)
  /\ Polled(mouse_poll, mouse_poll.ms)
  /\ Acted(FALSE) /\ UNCHANGED <<pc, win>>

DragEnd ==
  /\ pc = "drag" /\ ~ Pressed(ms)
  /\ pc' = "poll"
  /\ UNCHANGED <<obuf, hardware, status, driver, win, acted>>
-----------------------------------------------------------------------------
Demo == GetCommandByte \/ SetCommandByte \/ MouseWrite \/ MouseRead
          \/ Iteration \/ DragPoll \/ DragEnd
Next == Output \/ Report \/ Demo
Spec == Init /\ [][Next]_vars
-----------------------------------------------------------------------------
TypeOK ==
  /\ \A q \in {obuf, ctrl, aux} :
       q \in Seq([v : -128..127, from : 0..3])
  /\ Len(obuf) <= 1 /\ keys \in 0..KeyBytes /\ streaming \in BOOLEAN
  /\ pc \in {"ask", "status", "default", "default_ack", "stream", "stream_ack",
            "poll", "drag"}
  /\ status \in 0..255 /\ packet_cycle \in 0..2
  /\ ms.x \in Nat /\ ms.y \in Nat /\ ms.buttons \in 0..7
  /\ win \in {"NORMAL", "MINIMIZED", "MAXIMIZED", "CLOSED"} /\ acted \in BOOLEAN

\* The bytes the keyboard has sent since the demo was started.
Sent == KeyBytes - keys

\* While the keyboard is silent, what mouse_init writes back is the command
\* byte with bit 1 set (mouse.c:50-57, "get command byte", "set command byte"),
\* and every byte of a report is taken in its place.  In any case the loops of
\* the demo (mouse.c:73) are ahead of the mouse by the bytes the keyboard has
\* sent, less the reply that one of them left in the controller: a key shifts
\* the packets by one for each byte, three bytes bring them back into step,
\* and nothing else ever shifts them.
PacketAligned ==
  /\ TypeOK
  /\ keys = KeyBytes =>
       /\ pc \notin {"ask", "status"} => status = CommandByte + 2
       /\ \A k \in 1..packet_cycle : packet[k].from = k
  /\ pc \in {"poll", "drag"} /\ obuf # <<>> /\ obuf[1].from # 0 =>
       packet_cycle = (obuf[1].from - 1 + Sent - Len(ctrl)) % 3

\* gui.c:182-187: one press of the button changes the window at most once,
\* however often it is polled while it is down.
OneChangePerPress == [][win' # win => ~ acted]_vars

\* What the k-th box from the right is for.
Effect == <<"CLOSED", "MAXIMIZED", "MINIMIZED">>

\* gui.c:130-132, the boxes drawn as "min", "max" and "close": a click into any
\* pixel of a box does that, and a click that does anything is in the title
\* bar, less than Box pixels to the right of the corner of the box it is for.
\* That is for a window that is not maximised now.
BoxesWork ==
  win \in {"NORMAL", "MINIMIZED"} =>
    /\ \A k \in 1..3, i \in 0..Drawn - 1, j \in 0..Drawn - 1 :
         gui_window_handle_click(win, BoxAt(win, k).x + i, BoxAt(win, k).y + j)
           = [handled |-> TRUE, win |-> Effect[k]]
    /\ \A x \in 0..Width - 1, y \in 0..Height - 1 :
         LET c == gui_window_handle_click(win, x, y) IN
         c.handled => /\ y \in WinX..WinX + TitleH - 1
                      /\ \E k \in 1..3 : /\ x \in BoxAt(win, k).x..BoxAt(win, k).x + Box - 1
                                        /\ c.win = Effect[k]
=============================================================================

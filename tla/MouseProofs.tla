----------------------------- MODULE MouseProofs -----------------------------
(***************************************************************************)
(* The mouse's bytes are taken in step with its reports, and a press acts  *)
(* once: for every set of reports, every screen and every interleaving of  *)
(* the demo with the controller, the mouse and a keyboard.                 *)
(***************************************************************************)
EXTENDS Mouse, TLAPS

ByteT == [v : -128..127, from : 0..3]
PacketT == [1..3 -> ByteT]
MsT == [x : Nat, y : Nat, buttons : 0..7]

Types ==
  /\ obuf \in Seq(ByteT) /\ ctrl \in Seq(ByteT) /\ aux \in Seq(ByteT)
  /\ packet \in PacketT /\ ms \in MsT
  /\ Len(obuf) <= 1 /\ keys \in 0..KeyBytes /\ streaming \in BOOLEAN
  /\ pc \in {"ask", "status", "default", "default_ack", "stream", "stream_ack",
            "poll", "drag"}
  /\ status \in 0..255 /\ packet_cycle \in 0..2
  /\ win \in {"NORMAL", "MINIMIZED", "MAXIMIZED", "CLOSED"} /\ acted \in BOOLEAN

\* What the mouse still has of a report is its end.
EndOfReport(q) == Len(q) <= 3 /\ \A j \in 1..Len(q) : q[j].from = 3 - Len(q) + j

\* One byte b is on its way from queue q to the driver.
OnItsWay(q, b) == (q = <<b>> /\ obuf = <<>>) \/ (q = <<>> /\ obuf = <<b>>)

Quiet == obuf = <<>> /\ ctrl = <<>> /\ aux = <<>> /\ ~ streaming

\* What is where, at each place of mouse_init and in the loops of the demo.
Stage ==
  /\ pc \in {"ask", "default", "stream"} => Quiet
  /\ pc = "status" =>
       aux = <<>> /\ ~ streaming /\ OnItsWay(ctrl, Byte(CommandByte, 0))
  /\ pc = "default_ack" => ctrl = <<>> /\ ~ streaming /\ OnItsWay(aux, Ack)
  /\ pc = "stream_ack" =>
       /\ ctrl = <<>>
       /\ \/ aux = <<Ack>> /\ obuf = <<>>
          \/ obuf = <<Ack>> /\ EndOfReport(aux) /\ Len(aux) \in {0, 3}
  /\ pc \in {"poll", "drag"} =>
       /\ ctrl = <<>> /\ EndOfReport(aux)
       /\ (packet_cycle + Len(obuf) + Len(aux)) % 3 = 0
       /\ obuf # <<>> => obuf[1].from = packet_cycle + 1
  /\ pc \notin {"poll", "drag"} => packet_cycle = 0
  /\ pc \notin {"ask", "status"} => status = CommandByte + 2
  /\ \A k \in 1..packet_cycle : packet[k].from = k

\* Stage holds until the keyboard sends a byte.
AlignInv == Types /\ (keys = KeyBytes => Stage)

\* A byte of aux is an acknowledgement or has the place in its report that the
\* number of bytes behind it says; so has a byte of a report in the port.
InPlace ==
  /\ \A j \in 1..Len(ctrl) : ctrl[j].from = 0
  /\ \A j \in 1..Len(aux) : aux[j].from \in {0, 3 - Len(aux) + j}
  /\ ~ streaming =>
       /\ \A j \in 1..Len(aux) : aux[j].from = 0
       /\ obuf # <<>> => obuf[1].from = 0
  /\ obuf # <<>> /\ obuf[1].from # 0 => (obuf[1].from + Len(aux)) % 3 = 0
  /\ pc \notin {"stream_ack", "poll", "drag"} => ~ streaming

\* mouse_init still reads the answer to what it has sent.
Owed == IF pc \in {"status", "default_ack", "stream_ack"} THEN 1 ELSE 0

\* Up to whole reports, the bytes that wait and those of the open packet are
\* those the keyboard has sent and the answer that is still to be read.
Count(c, o, n, a, k, w) == (c + o + n + a + k - KeyBytes - w) % 3 = 0
Balance == Count(packet_cycle, Len(obuf), Len(ctrl), Len(aux), keys, Owed)

\* A window that changed under the button waits for its release.
ActedInv == acted => pc = "drag" /\ Pressed(ms)
-----------------------------------------------------------------------------
LEMMA BytesTyped ==
  ASSUME NEW v \in -128..127, NEW k \in 0..3  PROVE Byte(v, k) \in ByteT
BY DEF Byte, ByteT

LEMMA Constants ==
  /\ Ack \in ByteT /\ Byte(KeyByte, 0) \in ByteT /\ Byte(CommandByte, 0) \in ByteT
  /\ CommandByte + 2 \in 0..255 /\ (CommandByte \div 2) % 2 = 0 /\ CommandByte % 256 = CommandByte
  /\ Width \in Nat \ {0} /\ Height \in Nat \ {0} /\ KeyBytes \in Nat
BY MouseAssumption DEF Ack, Byte, ByteT

\* A report begins where the last one ends.
LEMMA RestOfReport ==
  ASSUME NEW c \in 0..2, NEW n \in 1..3, (c + 0 + n) % 3 = 0
  PROVE  c + n = 3
OBVIOUS

\* The decoded position is on the screen's quadrant, the buttons are three bits.
LEMMA PollTyped ==
  ASSUME Types
  PROVE  /\ mouse_poll.packet \in PacketT /\ mouse_poll.cycle \in 0..2
         /\ mouse_poll.ms \in MsT /\ OnScreen(mouse_poll.ms) \in MsT
<1>1. ASSUME obuf # <<>>
      PROVE Taken.packet \in PacketT /\ Taken.cycle \in 0..2 /\ Taken.ms \in MsT
  <2>1. obuf[1] \in ByteT /\ packet_cycle + 1 \in 1..3
    BY <1>1 DEF Types
  <2> DEFINE p == [packet EXCEPT ![packet_cycle + 1] = obuf[1]]
  <2>2. p \in PacketT
    BY <2>1 DEF Types, PacketT
  <2>3. (packet_cycle + 1) % 3 \in 0..2
    BY <2>1
  <2>. HIDE DEF p
  <2>4. /\ p[1].v \in Int /\ p[2].v \in Int /\ p[3].v \in Int /\ ms.x \in Nat /\ ms.y \in Nat
    <3>1. p[1] \in ByteT /\ p[2] \in ByteT /\ p[3] \in ByteT
      BY <2>2 DEF PacketT
    <3>2. \A b \in ByteT : b.v \in Int
      BY DEF ByteT
    <3>3. ms.x \in Nat /\ ms.y \in Nat
      BY DEF Types, MsT
    <3>. QED  BY <3>1, <3>2, <3>3
  <2>5. /\ AtLeast0(ms.x + p[2].v * MOUSE_SCALE) \in Nat
        /\ AtLeast0(ms.y - p[3].v * MOUSE_SCALE) \in Nat
    BY <2>4 DEF AtLeast0, MOUSE_SCALE
  <2>6. p[1].v % 8 \in 0..7
    BY <2>4
  <2>7. /\ Taken.packet = p /\ Taken.cycle = (packet_cycle + 1) % 3
        /\ Taken.ms = IF packet_cycle < 2 THEN ms
                      ELSE [x |-> AtLeast0(ms.x + p[2].v * MOUSE_SCALE),
                            y |-> AtLeast0(ms.y - p[3].v * MOUSE_SCALE),
                            buttons |-> p[1].v % 8]
    BY DEF Taken, p
  <2>8. Taken.ms \in MsT
    BY <2>5, <2>6, <2>7 DEF MsT, Types
  <2>. QED  BY <2>2, <2>3, <2>7, <2>8
<1>2. /\ mouse_poll.packet \in PacketT /\ mouse_poll.cycle \in 0..2 /\ mouse_poll.ms \in MsT
  BY <1>1 DEF mouse_poll, Types
<1>3. ASSUME NEW m \in MsT  PROVE OnScreen(m) \in MsT
  <2>1. Below(m.x, Width) \in Nat /\ Below(m.y, Height) \in Nat
    BY Constants DEF Below, MsT
  <2>. QED  BY <2>1 DEF OnScreen, MsT
<1>. QED  BY <1>2, <1>3

LEMMA ClickTyped ==
  ASSUME NEW w \in {"NORMAL", "MINIMIZED", "MAXIMIZED", "CLOSED"}, NEW x, NEW y
  PROVE  /\ gui_window_handle_click(w, x, y).win \in {"NORMAL", "MINIMIZED", "MAXIMIZED", "CLOSED"}
         /\ gui_window_handle_click(w, x, y).handled \in BOOLEAN
         /\ gui_window_handle_click(w, x, y).handled
              \/ gui_window_handle_click(w, x, y).win = w
BY DEF gui_window_handle_click, Unhandled
-----------------------------------------------------------------------------
LEMMA AlignInit == Init => AlignInv
<1> SUFFICES ASSUME Init PROVE AlignInv
  OBVIOUS
<1>1. packet \in PacketT
  BY BytesTyped DEF Init, PacketT
<1>2. Types
  <2>1. /\ obuf \in Seq(ByteT) /\ ctrl \in Seq(ByteT) /\ aux \in Seq(ByteT) /\ Len(obuf) <= 1
    BY DEF Init
  <2>2. ms \in MsT /\ keys \in 0..KeyBytes
    BY Constants DEF Init, MsT
  <2>3. status \in 0..255 /\ packet_cycle \in 0..2
    BY DEF Init
  <2>4. /\ pc = "ask" /\ streaming \in BOOLEAN /\ win = "NORMAL" /\ acted \in BOOLEAN
    BY DEF Init
  <2>. QED  BY <1>1, <2>1, <2>2, <2>3, <2>4 DEF Types
<1>3. Stage
  BY DEF Init, Stage, Quiet
<1>. QED  BY <1>2, <1>3 DEF AlignInv

\* The controller moves a byte; from the keyboard only after keys < KeyBytes.
LEMMA OutputStep == ASSUME AlignInv, Output PROVE AlignInv'
<1>0. /\ UNCHANGED <<streaming, pc, status, driver, win, acted>> /\ obuf = <<>>
      /\ Types
  BY DEF Output, AlignInv
<1>1. CASE ctrl # <<>> /\ obuf' = <<Head(ctrl)>> /\ ctrl' = Tail(ctrl) /\ UNCHANGED <<aux, keys>>
  <2>1. Head(ctrl) \in ByteT
    BY <1>1, <1>0 DEF Types
  <2>2. obuf' \in Seq(ByteT) /\ ctrl' \in Seq(ByteT) /\ Len(obuf') = 1
    BY <1>1, <1>0, <2>1 DEF Types
  <2>3. Types'
    BY <1>0, <1>1, <2>2 DEF Types, driver
  <2>4. ASSUME keys = KeyBytes PROVE Stage'
    <3>1. Stage
      BY <2>4 DEF AlignInv
    <3>2. pc = "status" /\ ctrl = <<Byte(CommandByte, 0)>>
      BY <3>1, <1>0, <1>1 DEF Stage, Quiet, OnItsWay, Types
    <3>3. obuf' = <<Byte(CommandByte, 0)>> /\ ctrl' = <<>>
      BY <3>2, <1>1
    <3>. QED  BY <3>1, <3>2, <3>3, <1>0, <1>1 DEF Stage, OnItsWay, driver
  <2>. QED  BY <2>3, <2>4, <1>1 DEF AlignInv
<1>2. CASE aux # <<>> /\ obuf' = <<Head(aux)>> /\ aux' = Tail(aux) /\ UNCHANGED <<ctrl, keys>>
  <2>1. Head(aux) \in ByteT /\ Head(aux) = aux[1] /\ Len(aux) >= 1
    BY <1>2, <1>0 DEF Types
  <2>2. /\ obuf' \in Seq(ByteT) /\ aux' \in Seq(ByteT) /\ Len(obuf') = 1 /\ obuf'[1] = aux[1]
        /\ Len(aux') = Len(aux) - 1 /\ \A j \in 1..Len(aux') : aux'[j] = aux[j + 1]
    BY <1>2, <1>0, <2>1 DEF Types
  <2>3. Types'
    BY <1>0, <1>2, <2>2 DEF Types, driver
  <2>4. ASSUME keys = KeyBytes PROVE Stage'
    <3>1. Stage
      BY <2>4 DEF AlignInv
    <3>2. CASE pc = "default_ack"
      <4>1. aux = <<Ack>>
        BY <3>1, <3>2, <1>2, <1>0 DEF Stage, OnItsWay
      <4>2. obuf' = <<Ack>> /\ aux' = <<>>
        BY <4>1, <1>2
      <4>. QED  BY <3>1, <3>2, <4>2, <1>0, <1>2 DEF Stage, OnItsWay, driver
    <3>3. CASE pc = "stream_ack"
      <4>1. aux = <<Ack>>
        BY <3>1, <3>3, <1>2, <1>0 DEF Stage
      <4>2. obuf' = <<Ack>> /\ aux' = <<>>
        BY <4>1, <1>2
      <4>3. EndOfReport(aux)' /\ Len(aux') = 0
        BY <4>2 DEF EndOfReport
      <4>. QED  BY <3>1, <3>3, <4>2, <4>3, <1>0, <1>2 DEF Stage, driver
    <3>4. CASE pc \in {"poll", "drag"}
      <4>1. /\ ctrl = <<>> /\ EndOfReport(aux) /\ (packet_cycle + 0 + Len(aux)) % 3 = 0
        BY <3>1, <3>4, <1>0 DEF Stage
      <4>2. packet_cycle \in 0..2 /\ Len(aux) \in 1..3
        <5>1. aux \in Seq(ByteT) /\ packet_cycle \in 0..2
          BY <1>0 DEF Types
        <5>2. Len(aux) <= 3
          BY <4>1 DEF EndOfReport
        <5>3. Len(aux) >= 1
          BY <2>1
        <5>4. \A n \in Nat : n <= 3 /\ n >= 1 => n \in 1..3
          OBVIOUS
        <5>5. Len(aux) \in Nat
          BY <5>1
        <5>. QED  BY <5>1, <5>2, <5>3, <5>4, <5>5, Zenon
      <4>3. packet_cycle + Len(aux) = 3
        BY <4>1, <4>2, RestOfReport
      <4>4. obuf'[1].from = packet_cycle + 1
        BY <4>1, <4>2, <4>3, <2>2 DEF EndOfReport
      <4>5. EndOfReport(aux)'
        <5>1. ASSUME NEW j \in 1..Len(aux') PROVE aux'[j].from = 3 - Len(aux') + j
          <6>1. j + 1 \in 1..Len(aux)
            BY <4>2, <2>2
          <6>2. aux[j + 1].from = 3 - Len(aux) + (j + 1)
            BY <4>1, <6>1 DEF EndOfReport
          <6>. QED  BY <4>2, <2>2, <6>2
        <5>2. aux' \in Seq(ByteT) /\ aux \in Seq(ByteT)
          BY <2>2, <1>0 DEF Types
        <5>3. Len(aux') <= 3
          BY <4>2, <2>2, <5>2
        <5>. QED  BY <5>1, <5>3 DEF EndOfReport
      <4>6. (packet_cycle + Len(obuf') + Len(aux')) % 3 = 0
        BY <4>2, <4>3, <2>2
      <4>. QED  BY <3>1, <3>4, <4>1, <4>4, <4>5, <4>6, <1>0, <1>2 DEF Stage, driver
    <3>5. pc \in {"default_ack", "stream_ack", "poll", "drag"}
      BY <3>1, <1>0, <1>2 DEF Stage, Quiet, Types
    <3>. QED  BY <3>2, <3>3, <3>4, <3>5
  <2>. QED  BY <2>3, <2>4, <1>2 DEF AlignInv
<1>3. CASE keys > 0 /\ keys' = keys - 1 /\ obuf' = <<Byte(KeyByte, 0)>> /\ UNCHANGED <<ctrl, aux>>
  <2>1. obuf' \in Seq(ByteT) /\ Len(obuf') = 1
    BY <1>3, Constants
  <2>2. keys' \in 0..KeyBytes /\ keys' # KeyBytes
    BY <1>3, <1>0, Constants DEF Types
  <2>3. Types'
    BY <1>0, <1>3, <2>1, <2>2 DEF Types, driver
  <2>. QED  BY <2>2, <2>3 DEF AlignInv
<1>. QED  BY <1>1, <1>2, <1>3 DEF Output

LEMMA ReportStep == ASSUME AlignInv, Report PROVE AlignInv'
<1>0. /\ UNCHANGED <<obuf, ctrl, keys, streaming, pc, status, driver, win, acted>>
      /\ aux = <<>> /\ streaming /\ Types
  BY DEF Report, AlignInv
<1>1. PICK r \in Reports : aux' = [k \in 1..3 |-> Byte(r[k], k)]
  BY DEF Report
<1>2. \A k \in 1..3 : r[k] \in -128..127
  BY MouseAssumption
<1>3. /\ aux' \in Seq(ByteT) /\ Len(aux') = 3 /\ \A k \in 1..3 : aux'[k].from = k
  <2>1. \A k \in 1..3 : Byte(r[k], k) \in ByteT /\ Byte(r[k], k).from = k
    BY <1>2 DEF Byte, ByteT
  <2>2. aux' \in [1..3 -> ByteT] /\ \A k \in 1..3 : aux'[k].from = k
    BY <1>1, <2>1
  <2>3. \A T : \A q \in [1..3 -> T] : q \in Seq(T) /\ Len(q) = 3
    OBVIOUS
  <2>. QED  BY <2>2, <2>3
<1>4. Types'
  BY <1>0, <1>3 DEF Types, driver
<1>5. ASSUME keys = KeyBytes PROVE Stage'
  <2>1. Stage
    BY <1>5 DEF AlignInv
  <2>2. EndOfReport(aux)'
    BY <1>3 DEF EndOfReport
  <2>3. pc \in {"stream_ack", "poll", "drag"}
    BY <2>1, <1>0 DEF Stage, Quiet, Types
  <2>4. CASE pc = "stream_ack"
    <3>1. obuf = <<Ack>>
      BY <2>1, <2>4, <1>0 DEF Stage
    <3>. QED  BY <3>1, <2>1, <2>2, <2>4, <1>0, <1>3 DEF Stage, driver
  <2>5. CASE pc \in {"poll", "drag"}
    <3>1. (packet_cycle + Len(obuf) + 0) % 3 = 0
      BY <2>1, <2>5, <1>0 DEF Stage
    <3>2. packet_cycle \in 0..2 /\ Len(obuf) \in 0..1
      <4>1. Len(obuf) \in Nat /\ Len(obuf) <= 1 /\ packet_cycle \in 0..2
        BY <1>0 DEF Types
      <4>. QED  BY <4>1
    <3>3. (packet_cycle + Len(obuf) + Len(aux')) % 3 = 0
      BY <3>1, <3>2, <1>3
    <3>. QED  BY <3>3, <2>1, <2>2, <2>5, <1>0 DEF Stage, driver
  <2>. QED  BY <2>3, <2>4, <2>5
<1>. QED  BY <1>0, <1>4, <1>5 DEF AlignInv
-----------------------------------------------------------------------------
\* mouse_init takes the bytes that were sent for it, one by one.
LEMMA InitialisationStep ==
  ASSUME AlignInv, GetCommandByte \/ SetCommandByte \/ MouseWrite \/ MouseRead
  PROVE  AlignInv'
<1>0. Types
  BY DEF AlignInv
<1>1. CASE GetCommandByte
  <2>1. /\ pc = "ask" /\ pc' = "status" /\ ctrl' = Append(ctrl, Byte(CommandByte, 0))
        /\ UNCHANGED <<obuf, aux, keys, streaming, status, driver, win, acted>>
    BY <1>1 DEF GetCommandByte
  <2>2. Types'
    <3>1. ctrl' \in Seq(ByteT)
      BY <2>1, <1>0, Constants DEF Types
    <3>. QED  BY <2>1, <3>1, <1>0 DEF Types, driver
  <2>3. ASSUME keys = KeyBytes PROVE Stage'
    <3>1. Stage /\ Quiet
      BY <2>1, <2>3 DEF AlignInv, Stage
    <3>2. ctrl' = <<Byte(CommandByte, 0)>>
      BY <2>1, <3>1 DEF Quiet
    <3>. QED  BY <2>1, <3>1, <3>2 DEF Stage, Quiet, OnItsWay, driver
  <2>. QED  BY <2>1, <2>2, <2>3 DEF AlignInv
<1>2. CASE SetCommandByte
  <2>1. /\ pc = "status" /\ obuf # <<>> /\ obuf' = <<>> /\ pc' = "default"
        /\ UNCHANGED <<hardware, driver, win, acted>>
        /\ status' = LET v == obuf[1].v % 256 IN IF (v \div 2) % 2 = 1 THEN v ELSE v + 2
    BY <1>2 DEF SetCommandByte
  <2>2. obuf[1].v \in Int
    <3>1. obuf[1] \in ByteT
      BY <2>1, <1>0 DEF Types
    <3>. QED  BY <3>1 DEF ByteT
  <2>3. status' \in 0..255
    <3>1. ASSUME NEW v \in 0..255
          PROVE  (IF (v \div 2) % 2 = 1 THEN v ELSE v + 2) \in 0..255
      OBVIOUS
    <3>2. obuf[1].v % 256 \in 0..255
      BY <2>2
    <3>. QED  BY <2>1, <3>1, <3>2
  <2>4. Types'
    <3>1. obuf' \in Seq(ByteT) /\ Len(obuf') <= 1
      BY <2>1
    <3>2. /\ ctrl' = ctrl /\ aux' = aux /\ keys' = keys /\ streaming' = streaming
          /\ packet' = packet /\ packet_cycle' = packet_cycle /\ ms' = ms
          /\ win' = win /\ acted' = acted /\ pc' = "default"
      BY <2>1 DEF hardware, driver
    <3>3. /\ ctrl \in Seq(ByteT) /\ aux \in Seq(ByteT) /\ packet \in PacketT /\ ms \in MsT
          /\ keys \in 0..KeyBytes /\ streaming \in BOOLEAN /\ packet_cycle \in 0..2
          /\ win \in {"NORMAL", "MINIMIZED", "MAXIMIZED", "CLOSED"} /\ acted \in BOOLEAN
      BY <1>0 DEF Types
    <3>. QED  BY <2>3, <3>1, <3>2, <3>3, Zenon DEF Types
  <2>5. ASSUME keys = KeyBytes PROVE Stage'
    <3>1. Stage /\ obuf = <<Byte(CommandByte, 0)>> /\ ctrl = <<>>
      BY <2>1, <2>5 DEF AlignInv, Stage, OnItsWay
    <3>2. obuf[1].v = CommandByte
      BY <3>1 DEF Byte
    <3>3. status' = CommandByte + 2
      BY <2>1, <3>2, Constants
    <3>. QED  BY <2>1, <3>1, <3>3 DEF Stage, Quiet, hardware, driver
  <2>. QED  BY <2>1, <2>4, <2>5 DEF AlignInv, hardware
<1>3. CASE MouseWrite
  <2>1. /\ pc \in {"default", "stream"} /\ aux' = Append(aux, Ack) /\ streaming' = (pc = "stream")
        /\ pc' = IF pc = "default" THEN "default_ack" ELSE "stream_ack"
        /\ UNCHANGED <<obuf, ctrl, keys, status, driver, win, acted>>
    BY <1>3 DEF MouseWrite
  <2>2. Types'
    <3>1. aux' \in Seq(ByteT)
      BY <2>1, <1>0, Constants DEF Types
    <3>2. streaming' \in BOOLEAN
      BY <2>1
    <3>. QED  BY <2>1, <3>1, <3>2, <1>0 DEF Types, driver
  <2>3. ASSUME keys = KeyBytes PROVE Stage'
    <3>1. Stage /\ Quiet
      BY <2>1, <2>3 DEF AlignInv, Stage
    <3>2. aux' = <<Ack>>
      BY <2>1, <3>1 DEF Quiet
    <3>3. pc = "default" => ~ streaming'
      BY <2>1
    <3>. QED  BY <2>1, <3>1, <3>2, <3>3 DEF Stage, Quiet, OnItsWay, driver
  <2>. QED  BY <2>1, <2>2, <2>3 DEF AlignInv
<1>4. CASE MouseRead
  <2>1. /\ pc \in {"default_ack", "stream_ack"} /\ obuf # <<>> /\ obuf' = <<>>
        /\ pc' = IF pc = "default_ack" THEN "stream" ELSE "poll"
        /\ UNCHANGED <<hardware, status, driver, win, acted>>
    BY <1>4 DEF MouseRead
  <2>2. Types'
    BY <2>1, <1>0 DEF Types, driver, hardware
  <2>3. ASSUME keys = KeyBytes PROVE Stage'
    <3>1. Stage
      BY <2>3 DEF AlignInv
    <3>2. CASE pc = "default_ack"
      BY <3>1, <3>2, <2>1 DEF Stage, Quiet, OnItsWay, driver, hardware
    <3>3. CASE pc = "stream_ack"
      <4>1. /\ EndOfReport(aux) /\ Len(aux) \in {0, 3} /\ packet_cycle = 0 /\ ctrl = <<>>
        BY <3>1, <3>3, <2>1 DEF Stage
      <4>2. (packet_cycle + Len(obuf') + Len(aux)) % 3 = 0
        <5>1. Len(obuf') = 0
          BY <2>1
        <5>2. CASE Len(aux) = 0
          BY <4>1, <5>1, <5>2
        <5>3. CASE Len(aux) = 3
          BY <4>1, <5>1, <5>3
        <5>. QED  BY <4>1, <5>2, <5>3
      <4>3. (packet_cycle + Len(obuf) + Len(aux))' % 3 = 0 /\ EndOfReport(aux)'
        BY <4>1, <4>2, <2>1 DEF hardware, driver, EndOfReport
      <4>. QED  BY <3>1, <3>3, <4>1, <4>3, <2>1 DEF Stage, hardware, driver
    <3>. QED  BY <3>2, <3>3, <2>1
  <2>. QED  BY <2>1, <2>2, <2>3 DEF AlignInv, hardware
<1>. QED  BY <1>1, <1>2, <1>3, <1>4

\* mouse_poll, in either loop of the demo.
LEMMA PollStep ==
  ASSUME AlignInv, pc \in {"poll", "drag"}, pc' \in {"poll", "drag"},
         NEW m, Polled(mouse_poll, m),
         m \in MsT, win' \in {"NORMAL", "MINIMIZED", "MAXIMIZED", "CLOSED"}, acted' \in BOOLEAN
  PROVE  AlignInv'
<1>0. /\ obuf' = <<>> /\ packet' = mouse_poll.packet /\ packet_cycle' = mouse_poll.cycle /\ ms' = m
      /\ UNCHANGED <<hardware, status>> /\ Types
  BY DEF Polled, AlignInv
<1>1. Types'
  BY <1>0, PollTyped DEF Types, hardware
<1>2. ASSUME keys = KeyBytes PROVE Stage'
  <2>1. /\ Stage /\ ctrl = <<>> /\ EndOfReport(aux)
        /\ (packet_cycle + Len(obuf) + Len(aux)) % 3 = 0
        /\ obuf # <<>> => obuf[1].from = packet_cycle + 1
        /\ \A k \in 1..packet_cycle : packet[k].from = k
    BY <1>2 DEF AlignInv, Stage
  <2>2. EndOfReport(aux)' /\ aux' = aux /\ ctrl' = ctrl
    BY <2>1, <1>0 DEF hardware, EndOfReport
  <2>3. /\ \A k \in 1..packet_cycle' : packet'[k].from = k
        /\ (packet_cycle' + 0 + Len(aux)) % 3 = 0
    <3>1. CASE obuf = <<>>
      <4>1. packet' = packet /\ packet_cycle' = packet_cycle
        BY <3>1, <1>0 DEF mouse_poll
      <4>2. Len(obuf) = 0
        BY <3>1
      <4>. QED  BY <4>1, <4>2, <2>1
    <3>2. CASE obuf # <<>>
      <4>1. /\ packet' = [packet EXCEPT ![packet_cycle + 1] = obuf[1]]
            /\ packet_cycle' = (packet_cycle + 1) % 3
        BY <3>2, <1>0 DEF mouse_poll, Taken
      <4>2. packet_cycle \in 0..2 /\ packet \in [1..3 -> ByteT]
        BY <1>0 DEF Types, PacketT
      <4>3. \A k \in 1..packet_cycle + 1 : packet'[k].from = k
        BY <4>1, <4>2, <2>1, <3>2
      <4>4. packet_cycle' \in 0..packet_cycle + 1
        BY <4>1, <4>2
      <4>5. Len(obuf) = 1 /\ Len(aux) \in Nat
        <5>1. obuf \in Seq(ByteT) /\ Len(obuf) <= 1 /\ aux \in Seq(ByteT)
          BY <1>0 DEF Types
        <5>2. Len(obuf) # 0 /\ Len(obuf) \in Nat
          BY <5>1, <3>2
        <5>3. \A n \in Nat : n # 0 /\ n <= 1 => n = 1
          OBVIOUS
        <5>4. Len(aux) \in Nat
          BY <5>1
        <5>. QED  BY <5>1, <5>2, <5>3, <5>4, Zenon
      <4>6. (packet_cycle' + 0 + Len(aux)) % 3 = 0
        <5>1. \A c \in 0..2 : \A n \in Nat :
                (c + 1 + n) % 3 = 0 => (((c + 1) % 3) + 0 + n) % 3 = 0
          OBVIOUS
        <5>. QED  BY <5>1, <4>1, <4>2, <4>5, <2>1
      <4>7. \A k \in 1..packet_cycle' : k \in 1..packet_cycle + 1
        BY <4>2, <4>4
      <4>. QED  BY <4>3, <4>6, <4>7
    <3>. QED  BY <3>1, <3>2
  <2>4. Len(obuf') = 0
    BY <1>0
  <2>. QED  BY <1>0, <2>1, <2>2, <2>3, <2>4 DEF Stage, hardware
<1>. QED  BY <1>0, <1>1, <1>2 DEF AlignInv, hardware

LEMMA AlignStep == AlignInv /\ [Next]_vars => AlignInv'
<1> SUFFICES ASSUME AlignInv, [Next]_vars PROVE AlignInv'
  OBVIOUS
<1>0. Types
  BY DEF AlignInv
<1>1. ASSUME Iteration PROVE AlignInv'
  <2> DEFINE m == OnScreen(mouse_poll.ms)
  <2>1. /\ pc = "poll" /\ Polled(mouse_poll, m) /\ win' = Clicked(m).win
        /\ pc' \in {"poll", "drag"} /\ acted' \in BOOLEAN
    BY <1>1 DEF Iteration, Acted, Pressed
  <2>2. win' \in {"NORMAL", "MINIMIZED", "MAXIMIZED", "CLOSED"}
    BY <2>1, <1>0, ClickTyped DEF Clicked, Types, Unhandled
  <2>3. m \in MsT
    BY <1>0, PollTyped
  <2>. HIDE DEF m
  <2>. QED  BY <2>1, <2>2, <2>3, PollStep
<1>2. ASSUME DragPoll PROVE AlignInv'
  <2> DEFINE m == mouse_poll.ms
  <2>1. /\ pc = "drag" /\ Polled(mouse_poll, m) /\ win' = win /\ pc' = pc /\ acted' \in BOOLEAN
    BY <1>2 DEF DragPoll, Acted, Pressed
  <2>2. m \in MsT /\ win \in {"NORMAL", "MINIMIZED", "MAXIMIZED", "CLOSED"}
    BY <1>0, PollTyped DEF Types
  <2>. HIDE DEF m
  <2>. QED  BY <2>1, <2>2, PollStep
<1>3. ASSUME DragEnd PROVE AlignInv'
  <2>1. /\ pc = "drag" /\ pc' = "poll"
        /\ UNCHANGED <<obuf, hardware, status, driver, win, acted>>
    BY <1>3 DEF DragEnd
  <2>2. Types'
    BY <2>1, <1>0 DEF Types, hardware, driver
  <2>3. Stage => Stage'
    BY <2>1 DEF Stage, EndOfReport, hardware, driver
  <2>. QED  BY <2>1, <2>2, <2>3 DEF AlignInv, hardware
<1>4. ASSUME UNCHANGED vars PROVE AlignInv'
  BY <1>4 DEF AlignInv, Types, Stage, Quiet, OnItsWay, EndOfReport, vars, hardware, driver
<1>. QED
  BY <1>1, <1>2, <1>3, <1>4, OutputStep, ReportStep, InitialisationStep DEF Next, Demo

LEMMA AlignInvHolds == Spec => []AlignInv
BY AlignInit, AlignStep, PTL DEF Spec

\* A byte moves, comes or goes: the count stays divisible by three.
LEMMA CountMoves ==
  ASSUME NEW c \in 0..2, NEW o \in Nat, NEW n \in Nat, NEW a \in Nat, NEW k \in Int,
         NEW w \in 0..1, Count(c, o, n, a, k, w)
  PROVE  /\ Count(c, o + 1, n - 1, a, k, w) /\ Count(c, o + 1, n, a - 1, k, w)
         /\ Count(c, o + 1, n, a, k - 1, w) /\ Count(c, o, n, a + 3, k, w)
         /\ w = 0 => Count(c, o, n + 1, a, k, 1) /\ Count(c, o, n, a + 1, k, 1)
         /\ w = 1 => Count(c, o - 1, n, a, k, 0)
         /\ Count((c + 1) % 3, o - 1, n, a, k, w)
<1>1. KeyBytes \in Int
  BY Constants
<1> DEFINE s == c + o + n + a + k - KeyBytes - w
<1>2. s \in Int /\ s % 3 = 0
  BY <1>1 DEF Count
<1>3. (s + 3) % 3 = 0
  BY <1>2
<1>4. /\ c + (o + 1) + (n - 1) + a + k - KeyBytes - w = s
      /\ c + (o + 1) + n + (a - 1) + k - KeyBytes - w = s
      /\ c + (o + 1) + n + a + (k - 1) - KeyBytes - w = s
      /\ c + o + n + (a + 3) + k - KeyBytes - w = s + 3
      /\ w = 0 => c + o + (n + 1) + a + k - KeyBytes - 1 = s
      /\ w = 0 => c + o + n + (a + 1) + k - KeyBytes - 1 = s
      /\ w = 1 => c + (o - 1) + n + a + k - KeyBytes - 0 = s
  BY <1>1
<1>5. Count((c + 1) % 3, o - 1, n, a, k, w)
  <2>1. CASE c < 2
    <3>1. (c + 1) % 3 = c + 1 /\ (c + 1) + (o - 1) + n + a + k - KeyBytes - w = s
      BY <2>1, <1>1
    <3>. QED  BY <3>1, <1>2 DEF Count
  <2>2. CASE c = 2
    <3>1. (c + 1) % 3 = 0 /\ 0 + (o - 1) + n + a + k - KeyBytes - w = s - 3
      BY <2>2, <1>1
    <3>2. (s - 3) % 3 = 0
      BY <1>2
    <3>. QED  BY <3>1, <3>2 DEF Count
  <2>. QED  BY <2>1, <2>2
<1>. HIDE DEF s
<1>. QED  BY <1>2, <1>3, <1>4, <1>5 DEF Count

LEMMA Lengths ==
  ASSUME Types
  PROVE  /\ packet_cycle \in 0..2 /\ Len(obuf) \in 0..1 /\ Len(ctrl) \in Nat /\ Len(aux) \in Nat
         /\ keys \in Int /\ Owed \in 0..1 /\ (obuf = <<>> => Len(obuf) = 0)
         /\ (obuf # <<>> => Len(obuf) = 1)
<1>1. obuf \in Seq(ByteT) /\ ctrl \in Seq(ByteT) /\ aux \in Seq(ByteT) /\ Len(obuf) <= 1
  BY DEF Types
<1>2. Len(obuf) \in 0..1 /\ (obuf # <<>> => Len(obuf) = 1)
  <2>1. Len(obuf) \in Nat /\ (obuf # <<>> => Len(obuf) # 0)
    BY <1>1
  <2>2. \A n \in Nat : n <= 1 => n \in 0..1 /\ (n # 0 => n = 1)
    OBVIOUS
  <2>. QED  BY <1>1, <2>1, <2>2, Zenon
<1>3. keys \in Int /\ Owed \in 0..1 /\ packet_cycle \in 0..2
  BY Constants DEF Types, Owed
<1>. QED  BY <1>1, <1>2, <1>3

LEMMA ShiftInit == Init => InPlace /\ Balance
<1> SUFFICES ASSUME Init PROVE InPlace /\ Balance
  OBVIOUS
<1>1. InPlace
  BY DEF Init, InPlace
<1>2. Balance
  <2>1. /\ packet_cycle = 0 /\ Len(obuf) = 0 /\ Len(ctrl) = 0 /\ Len(aux) = 0
        /\ keys = KeyBytes /\ Owed = 0
    BY DEF Init, Owed
  <2>. QED  BY <2>1, Constants DEF Balance, Count
<1>. QED  BY <1>1, <1>2

LEMMA ShiftOutput == ASSUME Types, Types', InPlace, Balance, Output PROVE InPlace' /\ Balance'
<1>0. /\ UNCHANGED <<streaming, pc, packet_cycle, Owed>> /\ obuf = <<>> /\ Len(obuf) = 0
      /\ Count(packet_cycle, 0, Len(ctrl), Len(aux), keys, Owed)
  BY DEF Output, driver, Balance, Owed
<1>1. /\ packet_cycle \in 0..2 /\ Len(ctrl) \in Nat /\ Len(aux) \in Nat
      /\ keys \in Int /\ Owed \in 0..1
  BY Lengths
<1>2. CASE ctrl # <<>> /\ obuf' = <<Head(ctrl)>> /\ ctrl' = Tail(ctrl) /\ UNCHANGED <<aux, keys>>
  <2>1. /\ Len(ctrl') = Len(ctrl) - 1 /\ \A j \in 1..Len(ctrl') : ctrl'[j] = ctrl[j + 1] /\ j + 1 \in 1..Len(ctrl)
        /\ Len(obuf') = 1 /\ obuf'[1] = ctrl[1] /\ 1 \in 1..Len(ctrl)
    BY <1>2 DEF Types
  <2>2. InPlace'
    BY <1>0, <1>2, <2>1 DEF InPlace
  <2>3. Count(packet_cycle, 0 + 1, Len(ctrl) - 1, Len(aux), keys, Owed)
    BY <1>0, <1>1, CountMoves
  <2>. QED  BY <2>1, <2>2, <2>3, <1>0, <1>2 DEF Balance
<1>3. CASE aux # <<>> /\ obuf' = <<Head(aux)>> /\ aux' = Tail(aux) /\ UNCHANGED <<ctrl, keys>>
  <2>1. /\ Len(aux') = Len(aux) - 1 /\ \A j \in 1..Len(aux') : aux'[j] = aux[j + 1] /\ j + 1 \in 1..Len(aux)
        /\ Len(obuf') = 1 /\ obuf'[1] = aux[1] /\ 1 \in 1..Len(aux)
    BY <1>3 DEF Types
  <2>2. InPlace'
    <3>1. \A j \in 1..Len(aux') : aux'[j].from \in {0, 3 - Len(aux') + j}
      <4>1. ASSUME NEW j \in 1..Len(aux') PROVE aux'[j].from \in {0, 3 - Len(aux') + j}
        <5>1. aux'[j].from \in {0, 3 - Len(aux) + (j + 1)}
          BY <2>1 DEF InPlace
        <5>2. 3 - Len(aux) + (j + 1) = 3 - Len(aux') + j
          BY <2>1, <1>1
        <5>. QED  BY <5>1, <5>2
      <4>. QED  BY <4>1
    <3>2. obuf'[1].from # 0 => (obuf'[1].from + Len(aux')) % 3 = 0
      <4>1. aux[1].from \in {0, 3 - Len(aux) + 1}
        BY <2>1 DEF InPlace
      <4>2. (3 - Len(aux) + 1) + (Len(aux) - 1) = 3
        BY <1>1
      <4>3. ((3 - Len(aux) + 1) + (Len(aux) - 1)) % 3 = 0
        BY <4>2
      <4>. QED  BY <4>1, <4>3, <2>1
    <3>3. ~ streaming' => /\ \A j \in 1..Len(aux') : aux'[j].from = 0
                          /\ obuf'[1].from = 0
      BY <1>0, <2>1 DEF InPlace
    <3>4. /\ \A j \in 1..Len(ctrl') : ctrl'[j].from = 0
          /\ pc' \notin {"stream_ack", "poll", "drag"} => ~ streaming'
      BY <1>0, <1>3 DEF InPlace
    <3>. QED  BY <3>1, <3>2, <3>3, <3>4 DEF InPlace
  <2>3. Count(packet_cycle, 0 + 1, Len(ctrl), Len(aux) - 1, keys, Owed)
    BY <1>0, <1>1, CountMoves
  <2>. QED  BY <2>1, <2>2, <2>3, <1>0, <1>3 DEF Balance
<1>4. CASE keys' = keys - 1 /\ obuf' = <<Byte(KeyByte, 0)>> /\ UNCHANGED <<ctrl, aux>>
  <2>1. Len(obuf') = 1 /\ obuf'[1].from = 0
    BY <1>4 DEF Byte
  <2>2. InPlace'
    BY <1>0, <1>4, <2>1 DEF InPlace
  <2>3. Count(packet_cycle, 0 + 1, Len(ctrl), Len(aux), keys - 1, Owed)
    BY <1>0, <1>1, CountMoves
  <2>. QED  BY <2>1, <2>2, <2>3, <1>0, <1>4 DEF Balance
<1>. QED  BY <1>2, <1>3, <1>4 DEF Output

LEMMA ShiftReport == ASSUME Types, Types', InPlace, Balance, Report PROVE InPlace' /\ Balance'
<1>0. /\ UNCHANGED <<obuf, ctrl, keys, streaming, pc, packet_cycle, Owed>>
      /\ aux = <<>> /\ Len(aux) = 0 /\ streaming
  BY DEF Report, driver, Owed
<1>1. PICK r \in Reports : aux' = [k \in 1..3 |-> Byte(r[k], k)]
  BY DEF Report
<1>2. Len(aux') = 3 /\ \A j \in 1..3 : aux'[j].from = j
  <2>1. \A j \in 1..3 : aux'[j].from = j
    BY <1>1 DEF Byte
  <2>2. aux' \in Seq(ByteT) /\ DOMAIN aux' = 1..3
    BY <1>1 DEF Types
  <2>3. Len(aux') = 3
    BY <2>2
  <2>. QED  BY <2>1, <2>3
<1>3. InPlace'
  <2>1. \A j \in 1..Len(aux') : aux'[j].from \in {0, 3 - Len(aux') + j}
    BY <1>2
  <2>2. obuf' # <<>> /\ obuf'[1].from # 0 => (obuf'[1].from + Len(aux')) % 3 = 0
    <3>1. ASSUME obuf # <<>>, obuf[1].from # 0 PROVE (obuf[1].from + 3) % 3 = 0
      <4>1. (obuf[1].from + 0) % 3 = 0
        BY <3>1, <1>0 DEF InPlace
      <4>2. obuf[1].from \in Int
        <5>1. obuf[1] \in ByteT
          BY <3>1 DEF Types
        <5>. QED  BY <5>1 DEF ByteT
      <4>. QED  BY <4>1, <4>2
    <3>. QED  BY <3>1, <1>0, <1>2
  <2>. QED  BY <2>1, <2>2, <1>0 DEF InPlace
<1>4. Balance'
  <2>1. /\ packet_cycle \in 0..2 /\ Len(ctrl) \in Nat /\ Len(obuf) \in Nat
        /\ keys \in Int /\ Owed \in 0..1
    BY Lengths
  <2>2. Count(packet_cycle, Len(obuf), Len(ctrl), 0, keys, Owed)
    BY <1>0 DEF Balance
  <2>3. Count(packet_cycle, Len(obuf), Len(ctrl), 0 + 3, keys, Owed)
    BY <2>1, <2>2, CountMoves
  <2>. QED  BY <2>3, <1>0, <1>2 DEF Balance
<1>. QED  BY <1>3, <1>4

LEMMA ShiftInitialisation ==
  ASSUME Types, Types', InPlace, Balance,
         GetCommandByte \/ SetCommandByte \/ MouseWrite \/ MouseRead
  PROVE  InPlace' /\ Balance'
<1>0. /\ packet_cycle \in 0..2 /\ Len(ctrl) \in Nat /\ Len(aux) \in Nat
      /\ Len(obuf) \in Nat /\ keys \in Int /\ Owed \in 0..1
      /\ Count(packet_cycle, Len(obuf), Len(ctrl), Len(aux), keys, Owed)
  BY Lengths DEF Balance
<1>1. CASE GetCommandByte
  <2>1. /\ UNCHANGED <<obuf, aux, keys, streaming, packet_cycle>> /\ Owed = 0 /\ Owed' = 1
        /\ pc = "ask" /\ pc' = "status"
        /\ ctrl' = Append(ctrl, Byte(CommandByte, 0))
    BY <1>1 DEF GetCommandByte, Owed, driver
  <2>2. Len(ctrl') = Len(ctrl) + 1 /\ \A j \in 1..Len(ctrl') : ctrl'[j].from = 0
    <3>1. /\ Len(ctrl') = Len(ctrl) + 1 /\ ctrl'[Len(ctrl) + 1] = Byte(CommandByte, 0)
          /\ \A j \in 1..Len(ctrl) : ctrl'[j] = ctrl[j]
      BY <2>1, Constants DEF Types
    <3>2. \A j \in 1..Len(ctrl') : j \in 1..Len(ctrl) \/ j = Len(ctrl) + 1
      BY <3>1, <1>0
    <3>. QED  BY <3>1, <3>2 DEF InPlace, Byte
  <2>3. InPlace'
    BY <2>1, <2>2 DEF InPlace
  <2>4. Count(packet_cycle, Len(obuf), Len(ctrl) + 1, Len(aux), keys, 1)
    BY <1>0, <2>1, CountMoves
  <2>. QED  BY <2>1, <2>2, <2>3, <2>4 DEF Balance
<1>2. CASE SetCommandByte \/ MouseRead
  <2>1. /\ UNCHANGED <<ctrl, aux, keys, streaming, packet_cycle>> /\ Owed = 1 /\ Owed' = 0
        /\ obuf # <<>> /\ obuf' = <<>>
    BY <1>2 DEF SetCommandByte, MouseRead, Owed, driver, hardware
  <2>2. InPlace'
    <3>1. pc' \notin {"stream_ack", "poll", "drag"} => ~ streaming
      BY <1>2 DEF SetCommandByte, MouseRead, InPlace
    <3>. QED  BY <3>1, <2>1 DEF InPlace
  <2>3. Len(obuf) = 1 /\ Len(obuf') = 0
    BY <2>1, Lengths
  <2>4. Count(packet_cycle, Len(obuf) - 1, Len(ctrl), Len(aux), keys, 0)
    BY <1>0, <2>1, CountMoves
  <2>. QED  BY <2>1, <2>2, <2>3, <2>4 DEF Balance
<1>3. CASE MouseWrite
  <2>1. /\ UNCHANGED <<obuf, ctrl, keys, packet_cycle>> /\ Owed = 0 /\ Owed' = 1
        /\ aux' = Append(aux, Ack) /\ ~ streaming
        /\ streaming' = (pc = "stream")
        /\ pc' = IF pc = "default" THEN "default_ack" ELSE "stream_ack"
        /\ pc \in {"default", "stream"}
    BY <1>3 DEF MouseWrite, Owed, driver, InPlace
  <2>2. Len(aux') = Len(aux) + 1 /\ \A j \in 1..Len(aux') : aux'[j].from = 0
    <3>1. /\ Len(aux') = Len(aux) + 1 /\ aux'[Len(aux) + 1] = Ack
          /\ \A j \in 1..Len(aux) : aux'[j] = aux[j]
      BY <2>1, Constants DEF Types
    <3>2. \A j \in 1..Len(aux') : j \in 1..Len(aux) \/ j = Len(aux) + 1
      BY <3>1, <1>0
    <3>. QED  BY <3>1, <3>2, <2>1 DEF InPlace, Ack, Byte
  <2>3. InPlace'
    <3>1. obuf # <<>> => obuf[1].from = 0
      BY <2>1 DEF InPlace
    <3>2. pc' \notin {"stream_ack", "poll", "drag"} => ~ streaming'
      BY <2>1
    <3>. QED  BY <3>1, <3>2, <2>1, <2>2 DEF InPlace
  <2>4. Count(packet_cycle, Len(obuf), Len(ctrl), Len(aux) + 1, keys, 1)
    BY <1>0, <2>1, CountMoves
  <2>. QED  BY <2>1, <2>2, <2>3, <2>4 DEF Balance
<1>. QED  BY <1>1, <1>2, <1>3

LEMMA ShiftPoll ==
  ASSUME Types, Types', InPlace, Balance, pc \in {"poll", "drag"}, pc' \in {"poll", "drag"},
         NEW m, Polled(mouse_poll, m)
  PROVE  InPlace' /\ Balance'
<1>1. /\ obuf' = <<>> /\ UNCHANGED <<ctrl, aux, keys, streaming>> /\ Owed = 0 /\ Owed' = 0
      /\ packet_cycle' = mouse_poll.cycle
  BY DEF Polled, hardware, Owed
<1>2. InPlace'
  BY <1>1 DEF InPlace
<1>3. Balance'
  <2>1. Len(obuf') = 0
    BY <1>1
  <2>2. Balance => Count(packet_cycle, Len(obuf), Len(ctrl), Len(aux), keys, 0)
    BY <1>1 DEF Balance
  <2>3. CASE obuf = <<>>
    <3>1. Len(obuf) = 0 /\ packet_cycle' = packet_cycle
      BY <2>3, <1>1, Lengths DEF mouse_poll
    <3>. QED  BY <3>1, <2>1, <2>2, <1>1 DEF Balance
  <2>4. CASE obuf # <<>>
    <3>1. /\ packet_cycle' = (packet_cycle + 1) % 3
          /\ packet_cycle \in 0..2 /\ Len(obuf) = 1 /\ Len(obuf) \in Nat /\ Len(ctrl) \in Nat
          /\ Len(aux) \in Nat /\ keys \in Int
      BY <2>4, <1>1, Lengths DEF mouse_poll, Taken
    <3>2. Count((packet_cycle + 1) % 3, Len(obuf) - 1, Len(ctrl), Len(aux), keys, 0)
      <4>1. 0 \in 0..1 /\ Count(packet_cycle, Len(obuf), Len(ctrl), Len(aux), keys, 0)
        BY <2>2
      <4>. QED  BY <3>1, <4>1, CountMoves
    <3>. QED  BY <3>1, <3>2, <2>1, <1>1 DEF Balance
  <2>. QED  BY <2>3, <2>4
<1>. QED  BY <1>2, <1>3

LEMMA ShiftStep == Types /\ Types' /\ InPlace /\ Balance /\ [Next]_vars => InPlace' /\ Balance'
<1> SUFFICES ASSUME Types, Types', InPlace, Balance, [Next]_vars PROVE InPlace' /\ Balance'
  OBVIOUS
<1>1. CASE Iteration
  <2>1. pc = "poll" /\ pc' \in {"poll", "drag"} /\ Polled(mouse_poll, OnScreen(mouse_poll.ms))
    BY <1>1 DEF Iteration
  <2>. QED  BY <2>1, ShiftPoll
<1>2. CASE DragPoll
  <2>1. pc = "drag" /\ pc' = "drag" /\ Polled(mouse_poll, mouse_poll.ms)
    BY <1>2 DEF DragPoll
  <2>. QED  BY <2>1, ShiftPoll
<1>3. CASE DragEnd \/ UNCHANGED vars
  <2>1. /\ UNCHANGED <<obuf, ctrl, aux, keys, streaming, packet_cycle>> /\ Owed' = Owed
        /\ (pc' \notin {"stream_ack", "poll", "drag"} => pc' = pc)
    BY <1>3 DEF DragEnd, vars, hardware, driver, Owed
  <2>. QED  BY <2>1 DEF InPlace, Balance
<1>. QED
  BY <1>1, <1>2, <1>3, ShiftOutput, ShiftReport, ShiftInitialisation DEF Next, Demo

LEMMA ShiftHolds == Spec => [](InPlace /\ Balance)
<1>1. AlignInv => Types
  BY DEF AlignInv
<1>. QED  BY <1>1, AlignInvHolds, ShiftInit, ShiftStep, PTL DEF Spec
-----------------------------------------------------------------------------
LEMMA ActedInvHolds == Spec => []ActedInv
<1>1. Init => ActedInv
  BY DEF Init, ActedInv
<1>2. ActedInv /\ [Next]_vars => ActedInv'
  <2> SUFFICES ASSUME ActedInv, [Next]_vars, acted'
               PROVE  pc' = "drag" /\ Pressed(ms')
    BY DEF ActedInv, Pressed
  <2>1. ASSUME Iteration PROVE pc' = "drag" /\ Pressed(ms')
    <3> DEFINE m == OnScreen(mouse_poll.ms)
    <3>1. /\ pc = "poll" /\ win' = Clicked(m).win
          /\ pc' = IF Clicked(m).handled THEN "drag" ELSE "poll"
          /\ Pressed(ms') /\ (acted \/ win' # win)
      BY <2>1 DEF Iteration, Acted
    <3>2. ~ acted
      BY <3>1 DEF ActedInv
    <3>3. Clicked(m).win # win => Clicked(m).handled
      BY DEF Clicked, gui_window_handle_click, Unhandled
    <3>. HIDE DEF m
    <3>. QED  BY <3>1, <3>2, <3>3
  <2>2. ASSUME DragPoll PROVE pc' = "drag" /\ Pressed(ms')
    BY <2>2 DEF DragPoll, Acted
  <2>3. ASSUME DragEnd PROVE FALSE
    BY <2>3 DEF DragEnd, ActedInv
  <2>4. ASSUME \/ Output \/ Report \/ GetCommandByte \/ SetCommandByte
               \/ MouseWrite \/ MouseRead \/ UNCHANGED vars
        PROVE  pc' = "drag" /\ Pressed(ms')
    <3>1. acted' = acted /\ ms' = ms
      BY <2>4 DEF Output, Report, GetCommandByte, SetCommandByte, MouseWrite, MouseRead, vars, driver
    <3>2. acted /\ pc = "drag" /\ Pressed(ms)
      BY <3>1 DEF ActedInv
    <3>3. pc' = pc
      BY <2>4, <3>2
      DEF Output, Report, GetCommandByte, SetCommandByte, MouseWrite, MouseRead, vars
    <3>. QED  BY <3>1, <3>2, <3>3
  <2>. QED  BY <2>1, <2>2, <2>3, <2>4 DEF Next, Demo
<1>. QED  BY <1>1, <1>2, PTL DEF Spec
-----------------------------------------------------------------------------
\* mouse.c: before the first key mouse_init writes back the command byte it
\* asked for and every byte of a report is taken in its place; from then on the
\* loops of the demo are ahead of the mouse by as many bytes, modulo three, as
\* the keyboard has sent, less the reply it left in the controller, however the
\* polls, the controller, the mouse and the keyboard interleave.
THEOREM MouseAligned == Spec => []PacketAligned
<1>1. AlignInv /\ InPlace /\ Balance => PacketAligned
  <2> SUFFICES ASSUME AlignInv, InPlace, Balance PROVE PacketAligned
    OBVIOUS
  <2>0. Types
    BY DEF AlignInv
  <2>1. TypeOK
    <3>1. /\ obuf \in Seq(ByteT) /\ ctrl \in Seq(ByteT) /\ aux \in Seq(ByteT)
          /\ ms \in MsT
      BY <2>0 DEF Types
    <3>2. ms.x \in Nat /\ ms.y \in Nat /\ ms.buttons \in 0..7
      BY <3>1 DEF MsT
    <3>3. \A q \in {obuf, ctrl, aux} : q \in Seq([v : -128..127, from : 0..3])
      BY <3>1 DEF ByteT
    <3>. QED  BY <3>2, <3>3, <2>0 DEF TypeOK, Types
  <2>2. ASSUME keys = KeyBytes
        PROVE  /\ pc \notin {"ask", "status"} => status = CommandByte + 2
               /\ \A k \in 1..packet_cycle : packet[k].from = k
    BY <2>2 DEF AlignInv, Stage
  <2>3. ASSUME pc \in {"poll", "drag"}, obuf # <<>>, obuf[1].from # 0
        PROVE  packet_cycle = (obuf[1].from - 1 + Sent - Len(ctrl)) % 3
    <3>1. /\ packet_cycle \in 0..2 /\ Len(obuf) = 1 /\ Len(ctrl) \in Nat /\ Len(aux) \in Nat
          /\ keys \in Int /\ KeyBytes \in Int /\ Owed = 0
      BY <2>0, <2>3, Lengths, Constants DEF Owed
    <3>2. obuf[1].from \in 0..3
      <4>1. obuf[1] \in ByteT
        BY <2>0, <2>3 DEF Types
      <4>. QED  BY <4>1 DEF ByteT
    <3>3. (obuf[1].from + Len(aux)) % 3 = 0
      BY <2>3 DEF InPlace
    <3>4. (packet_cycle + 1 + Len(ctrl) + Len(aux) + keys - KeyBytes - 0) % 3 = 0
      BY <3>1 DEF Balance, Count
    <3>5. ASSUME NEW c \in 0..2, NEW f \in 0..3, NEW n \in Nat, NEW a \in Nat,
                 NEW k \in Int, NEW kb \in Int,
                 (f + a) % 3 = 0, (c + 1 + n + a + k - kb - 0) % 3 = 0
          PROVE  c = (f - 1 + (kb - k) - n) % 3
      <4> DEFINE d == f - 1 + (kb - k) - n
      <4>1. c - d = (c + 1 + n + a + k - kb - 0) - (f + a)
        OBVIOUS
      <4>2. (c - d) % 3 = 0
        BY <4>1, <3>5
      <4>3. d \in Int
        OBVIOUS
      <4>. HIDE DEF d
      <4>4. c = d % 3
        BY <4>2, <4>3
      <4>. QED  BY <4>4 DEF d
    <3>. QED  BY <3>1, <3>2, <3>3, <3>4, <3>5 DEF Sent
  <2>. QED  BY <2>1, <2>2, <2>3 DEF PacketAligned
<1>. QED  BY <1>1, AlignInvHolds, ShiftHolds, PTL

\* gui.c:182-187: while the button stays down the window changes at most once,
\* on every screen and however often the mouse is polled.
THEOREM OneChange == Spec => OneChangePerPress
<1>1. ActedInv /\ [Next]_vars => [win' # win => ~ acted]_vars
  <2> SUFFICES ASSUME ActedInv, Next, win' # win PROVE ~ acted
    OBVIOUS
  <2>1. Iteration
    BY DEF Next, Demo, Output, Report, GetCommandByte, SetCommandByte, MouseWrite, MouseRead,
           DragPoll, DragEnd
  <2>. QED  BY <2>1 DEF Iteration, ActedInv
<1>. QED  BY <1>1, ActedInvHolds, PTL DEF Spec, OneChangePerPress

\* A click in the title bar, seen from the window's left edge.
LEMMA TitleBarClick ==
  ASSUME NEW w, w # "CLOSED", w # "MAXIMIZED", NEW x, NEW y \in Int, NEW rel \in Int,
         x - WinX = rel, NEW ww \in Int, WinW = ww, NEW b \in Nat \ {0}, b = Box,
         ~ (y < WinX), ~ (y >= WinX + TitleH),
         rel >= 0, rel >= ww - 3 * b, rel < ww
  PROVE  gui_window_handle_click(w, x, y) =
           [handled |-> TRUE,
            win |-> IF rel < ww - 2 * b THEN "MINIMIZED"
                    ELSE IF rel < ww - b THEN "MAXIMIZED" ELSE "CLOSED"]
<1> DEFINE W == CASE rel < ww - 2 * b -> "MINIMIZED"
                  [] rel >= ww - 2 * b /\ rel < ww - b -> "MAXIMIZED"
                  [] OTHER -> "CLOSED"
<1>1. W = IF rel < ww - 2 * b THEN "MINIMIZED"
          ELSE IF rel < ww - b THEN "MAXIMIZED" ELSE "CLOSED"
  OBVIOUS
<1>2. ~ (rel < 0) /\ ~ (rel >= ww) /\ ~ (rel < ww - 3 * b)
  OBVIOUS
<1>3. gui_window_handle_click(w, x, y) = [handled |-> TRUE, win |-> W]
  BY <1>2, Zenon DEF gui_window_handle_click
<1>. HIDE DEF W
<1>. QED  BY <1>1, <1>3

\* gui.c:130-132: on every screen that is wide enough for the three boxes, a
\* click into any pixel of a box does what it says, and a click that does
\* anything is less than Box columns right of the corner of the box it is for.
THEOREM BoxesAreWhereDrawn ==
  ASSUME 3 * Box <= WinW
  PROVE  BoxesWork
<1> SUFFICES ASSUME win \in {"NORMAL", "MINIMIZED"} PROVE BoxesWork
  BY DEF BoxesWork
<1>1. /\ WinX \in Nat /\ Box \in Nat \ {0} /\ TitleH \in Nat \ {0} /\ WinW \in Nat
      /\ Drawn \in 0..Box /\ TitleH \div 10 \in Nat /\ (TitleH \div 10) + Drawn <= TitleH
  BY MouseAssumption DEF WinW
<1>2. ASSUME NEW k \in 1..3, NEW i \in 0..Drawn - 1, NEW j \in 0..Drawn - 1
      PROVE  gui_window_handle_click(win, BoxAt(win, k).x + i, BoxAt(win, k).y + j)
               = [handled |-> TRUE, win |-> Effect[k]]
  <2> DEFINE x == BoxAt(win, k).x + i
             y == BoxAt(win, k).y + j
  <2>1. x = WinX + WinW - k * Box + i /\ y = WinX + (TitleH \div 10) + j
    BY DEF BoxAt
  <2>2. y \in Int /\ ~ (y < WinX) /\ ~ (y >= WinX + TitleH)
    BY <1>1, <2>1
  <2>3. CASE k = 1
    <3>1. x - WinX = WinW - Box + i
      BY <1>1, <2>1, <2>3
    <3>2. WinW - Box + i >= WinW - Box /\ WinW - Box + i < WinW
      BY <1>1
    <3>. HIDE DEF x, y
    <3>3. gui_window_handle_click(win, x, y) = [handled |-> TRUE, win |-> "CLOSED"]
      BY <1>1, <2>2, <3>1, <3>2, TitleBarClick
    <3>. QED  BY <3>3, <2>3 DEF x, y, Effect
  <2>4. CASE k = 2
    <3>1. x - WinX = WinW - 2 * Box + i
      BY <1>1, <2>1, <2>4
    <3>2. WinW - 2 * Box + i >= WinW - 2 * Box /\ WinW - 2 * Box + i < WinW - Box
      BY <1>1
    <3>. HIDE DEF x, y
    <3>3. gui_window_handle_click(win, x, y) = [handled |-> TRUE, win |-> "MAXIMIZED"]
      BY <1>1, <2>2, <3>1, <3>2, TitleBarClick
    <3>. QED  BY <3>3, <2>4 DEF x, y, Effect
  <2>5. CASE k = 3
    <3>1. x - WinX = WinW - 3 * Box + i
      BY <1>1, <2>1, <2>5
    <3>2. WinW - 3 * Box + i >= WinW - 3 * Box /\ WinW - 3 * Box + i < WinW - 2 * Box
      BY <1>1
    <3>. HIDE DEF x, y
    <3>3. gui_window_handle_click(win, x, y) = [handled |-> TRUE, win |-> "MINIMIZED"]
      BY <1>1, <2>2, <3>1, <3>2, TitleBarClick
    <3>. QED  BY <3>3, <2>5 DEF x, y, Effect
  <2>. QED  BY <2>3, <2>4, <2>5
<1>3. ASSUME NEW x \in 0..Width - 1, NEW y \in 0..Height - 1,
             gui_window_handle_click(win, x, y).handled
      PROVE  /\ y \in WinX..WinX + TitleH - 1
             /\ \E k \in 1..3 : /\ x \in BoxAt(win, k).x..BoxAt(win, k).x + Box - 1
                               /\ gui_window_handle_click(win, x, y).win = Effect[k]
  <2> DEFINE rel == x - WinX
  <2>1. x \in Int /\ y \in Int /\ rel \in Int
    BY <1>1, MouseAssumption
  <2>2. /\ ~ (rel < 0) /\ ~ (rel >= WinW) /\ ~ (y < WinX) /\ ~ (y >= WinX + TitleH)
        /\ ~ (rel < WinW - 3 * Box)
    BY <1>3 DEF gui_window_handle_click, Unhandled
  <2>3. y \in WinX..WinX + TitleH - 1 /\ rel >= 0 /\ rel < WinW /\ rel >= WinW - 3 * Box
    BY <1>1, <2>1, <2>2
  <2>4. gui_window_handle_click(win, x, y) =
          [handled |-> TRUE,
           win |-> IF rel < WinW - 2 * Box THEN "MINIMIZED"
                   ELSE IF rel < WinW - Box THEN "MAXIMIZED" ELSE "CLOSED"]
    BY <1>1, <2>1, <2>2, <2>3, TitleBarClick
  <2>5. \A k \in 1..3 : BoxAt(win, k).x = WinX + WinW - k * Box
    BY DEF BoxAt
  <2>6. CASE rel < WinW - 2 * Box
    <3>1. x \in WinX + WinW - 3 * Box..WinX + WinW - 3 * Box + Box - 1
      BY <1>1, <2>1, <2>3, <2>6
    <3>. QED  BY <3>1, <2>3, <2>4, <2>5, <2>6 DEF Effect
  <2>7. CASE ~ (rel < WinW - 2 * Box) /\ rel < WinW - Box
    <3>1. x \in WinX + WinW - 2 * Box..WinX + WinW - 2 * Box + Box - 1
      BY <1>1, <2>1, <2>3, <2>7
    <3>. QED  BY <3>1, <2>3, <2>4, <2>5, <2>7 DEF Effect
  <2>8. CASE ~ (rel < WinW - 2 * Box) /\ ~ (rel < WinW - Box)
    <3>1. x \in WinX + WinW - 1 * Box..WinX + WinW - 1 * Box + Box - 1
      BY <1>1, <2>1, <2>3, <2>8
    <3>. QED  BY <3>1, <2>3, <2>4, <2>5, <2>8 DEF Effect
  <2>. QED  BY <2>6, <2>7, <2>8
<1>. QED  BY <1>2, <1>3 DEF BoxesWork
=============================================================================

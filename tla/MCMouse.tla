------------------------------ MODULE MCMouse ------------------------------
(* Instances of Mouse: a box of the title bar is a few pixels, so that all *)
(* of the window's states are a few reports away.                          *)
EXTENDS Mouse

\* Bit 3 of the first byte is always set, bit 0 is the left button.
MCReports ==
  {<<8 + b, m[1], m[2]>> : b \in {0, 1}, m \in {<<0, 0>>, <<1, 0>>, <<-1, 0>>, <<0, -1>>}}
MinusHundred == -100   \* the release of the Enter key, 9C
=============================================================================

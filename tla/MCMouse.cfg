CONSTANTS
  Reports <- MCReports
  KeyByte <- MinusHundred
  KeyBytes = 3
  CommandByte = 69
  Width = 18
  Height = 6
  WinX = 2
  Box = 3
  TitleH = 3
  Drawn = 2
  Desk = 8
SPECIFICATION Spec
INVARIANTS PacketAligned BoxesWork
PROPERTY OneChangePerPress

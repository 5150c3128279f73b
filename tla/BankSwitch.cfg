SPECIFICATION Spec
CONSTANTS
  Mappers = {"mbc3"}
  NumRam <- MCNumRam
  NumRom <- MCNumRom
  Battery = {"mbc3"}
  Values = {0, 1}
  Bytes <- MCBytes
PROPERTIES BanksExist

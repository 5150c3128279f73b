SPECIFICATION Spec
CONSTANTS
  Mappers = {"mbc1", "mbc3", "mbc5"}
  NumRam <- MCNumRam
  NumRom <- MCNumRom
  Battery = {"mbc1", "mbc3"}
  Values = {0, 1}
  Bytes <- MCBytes
INVARIANTS TypeOK RomBankFollowsWrites RamHoldsStores

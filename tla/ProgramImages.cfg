SPECIFICATION ImagesSpec
CONSTANTS
  BASIC_START = 3
  MAIN_END = 40
  TOP = 64
  BANK_WINDOW = 4
  VECTORS_SIZE = 1
  JT_SIZE = 1
  EF_MAX_BANKS = 2
  PAGE = 4
  SCRATCH = 1
  ROML = 32
  ROMH = 40
  FREE = 48
  IO = 52
  KERNAL = 56
  LAUNCHER_BYTES = 1
  AreaJobs <- MCAreaJobs
  WrapJobs <- MCWrapJobs
  BankJobs <- MCBankJobs
INVARIANTS AreasLand WrapBoots BanksLand
CHECK_DEADLOCK FALSE

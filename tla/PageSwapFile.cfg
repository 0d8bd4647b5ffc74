SPECIFICATION Spec
CONSTANTS
  Base = 1
  NPages = 3
  MaxPages = 2
  FilePages = 1
  MinGrow = 2
  HashSize = 2
  RAM = 2
  Overcommit = 1
  Paths <- DosAndBios
  Errors <- ReadErrors
  Handles <- TwoAndOne
  Moves = FALSE
  MaxErrors = 1
INVARIANTS TypeOK MemoryKept SlotsPartition FreshSlotsFree

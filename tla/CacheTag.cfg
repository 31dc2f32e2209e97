CONSTANTS
  LINES = 8
  L1_LINE = 3
  L1_SETS = 2
  L1_WAYS = 2
  PAGE = 2
  Used = {0, 4, 5, 7}
  Code = {1, 3}
  Val = {"01", "03", "07", "zero", "one", "magic", "junk"}
  __data_load_start = 0
  __data_start = 12
  __data_end = 14
  _bss_start = 14
  _bss_end = 16
  Image = {"01", "03", "07"}
  MaxLoads = 1
  trap_skip_insn = 14
  probe_line = 15
  icache_target = 3
  Stack = {7}
SPECIFICATION FairSpec
PROPERTY MemorySpec
INVARIANT DumpTells
PROPERTY KeyAnswered

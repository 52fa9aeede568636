CONSTANTS
  VM_USERLO_PI = 4
  VM_USERHI_PI = 14
  Norm = {4, 5, 6, 7, 8}
  NUM_IDS = 5
  WORD = 64
  SUPER_LEN = 2
  Lens = {0, 1, 2, 3}
SPECIFICATION KernelSpec
INVARIANTS UsageWithinQuota ContainerTree UsageIsAccounted NoDoubleGrant
PROPERTY SplitNeverReuses

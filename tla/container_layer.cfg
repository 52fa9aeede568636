\* A reserved page lies between the normal pages and another above them, so
\* that a request for three pages can exceed the room above the last page.
CONSTANTS
  VM_USERLO_PI = 2
  VM_USERHI_PI = 7
  Norm = {2, 3, 5}
  NUM_IDS = 3
  WORD = 8
  SUPER_LEN = 2
  Lens = {0, 1, 2, 3}
SPECIFICATION Spec
INVARIANTS UsageAccountedWithFrees NoDoubleGrantWithFrees
PROPERTIES ImplementsLayer CallsReturn

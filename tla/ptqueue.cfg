\* Four threads in five queues: a queue can have a first, a last and two inner
\* members while another one is in use.
SPECIFICATION Spec
CONSTANT NUM_IDS = 4
INVARIANT LinksSpellQueue
PROPERTY ImplementsQueues

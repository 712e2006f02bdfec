\* Two threads on each backend, two buffered keys and one direct one.
SPECIFICATION Spec
CONSTANTS
  Threads = {t1, t2}
  Buffered = {x, y}
  Direct = {z}
  Kinds = {"rocksdb", "parity", "mdbx"}
  MaxWrites = 3
  Unbuffered = Unbuffered
  Lost = Lost
  Failed = Failed
  NoThread = NoThread
INVARIANTS
  ReadsFresh
  Durable
  PrefixDurable
PROPERTY
  CallsReturn

CONSTANTS
  d1 = d1
  c1 = c1
  c2 = c2
  None = None
  DictString = DictString

SPECIFICATION Spec

INVARIANT DictionaryOutlivesUse

\* The program ends with its contexts.
CHECK_DEADLOCK FALSE

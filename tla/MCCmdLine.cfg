\* parse_cmdline and the io_base lookup after it: the stored values fit
\* def_val_str, the parse ends, and io_base is the option's hexadecimal
\* value with unsigned long at 20 bits.
SPECIFICATION Spec
CONSTANTS
  Lines <- MCLines
  Names <- MCNames
  Defaults <- MCDefaults
  MaxValueLen = 7
  Spaces <- MCSpaces
  ULongBits = 20
  IoBaseName <- MCKey
INVARIANTS
  ValueFits
  IoBaseIsOptionValue
PROPERTY ParseEnds
\* parse_cmdline returns; the finished states have no successor.
CHECK_DEADLOCK FALSE

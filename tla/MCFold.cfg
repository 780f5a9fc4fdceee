SPECIFICATION Spec
CONSTANTS
  Name <- MCName
  Stream <- MCStream
INVARIANTS ViewExact IndexExact PrefixView CacheFresh
PROPERTIES Implements

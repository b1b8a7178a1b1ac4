SPECIFICATION Spec
CONSTANTS
  BlockSize <- TwoAndThree
  MaxSize = 7
INVARIANTS
  TypeOK
PROPERTIES
  StreamSpec

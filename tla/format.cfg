SPECIFICATION Spec
CONSTANTS
  FormatStrings <- AllStrings
  Args <- TypedArgs
  Names <- NamedB
  IntBits = 8
  Literal = {":", "0", "1", "a"}
  Refs <- AnyRefs
  Fills = {"<", "+", "#", "0", "1", ".", "s", "L"}
  Signs = {"+"}
  TypeChars = {"s"}
  Alphabet = {"{", "}", ":", "0", "1", "a"}
  MaxLen = 6
  SpecAlphabets = {{"<", "+", "0", "1"}, {"0", "#", ".", "L", "s"}, {"0", "1", ".", "{", "}"},
                   {"1", "2", "7", "."}, {"1", "2", "8", "."},
                   {"2", ".", "{", "}"}, {"3", ".", "{", "}"}, {"8", ".", "{", "}"}}
  SpecsLen = 4
INVARIANT
  ReadAsWritten
PROPERTY
  ParsingEnds
CHECK_DEADLOCK FALSE

\* Every call on short arguments; 200 is negative as a char.  Lists of up to three
\* contents in five nodes, and a malloc that may fail each time.
SPECIFICATION LibftSpec
CONSTANTS
  Nodes = {1, 2, 3, 4, 5}
  Contents = 3
  Width = 6
  CharWidth = 4
  StringBytes = {97, 98, 200}
  MaxString = 4
  TextBytes = {32, 43, 45, 48, 49, 57, 120}
  MaxDigits = 5
  Size = 4
  Byte = {0, 1, 200}
  Escapes = {0, 1, 10, 31, 32, 65, 92, 126, 127, 128, 159, 255}
  Formats <- FewFormats
  Null = Null
INVARIANTS SplitWords SplitAllOrNothing CutAndJoin StringsRight NumbersRight
INVARIANTS NoShortBlock MemoryRight OutputRight ListsRight

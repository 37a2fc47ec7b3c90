CONSTANT MaxKeys = 1
SPECIFICATION SectionsSpec
INVARIANT TestsParse
CHECK_DEADLOCK FALSE

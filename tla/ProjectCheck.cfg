SPECIFICATION Spec
CONSTANTS
  Names = {1, 2, 3, 4}
  Files = {"f1", "f2", "f3"}
  KeysOf <- ThreeKeys
  DepNames = {4}
  ImportLists <- MCImports
  DepImports <- NoImports
  Commands = {"check", "build"}
INVARIANT CyclesAreReal
INVARIANT NoReportMeansOrdered
INVARIANT AcceptedIsChecked
INVARIANT RejectedHasFault

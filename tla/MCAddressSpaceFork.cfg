SPECIFICATION ASpec
CONSTANTS
  p1 = p1
  p2 = p2
  p3 = p3
  Proc = {p1, p2, p3}
  Table = {"t1", "t2", "t3", "t4"}
  Frame = {"f1", "f2", "f3", "f4"}
  Value = {0, 1}
  Zero = 0
  Absent = Absent
  MaxHeap = 1
SYMMETRY ProcSymmetry
PROPERTIES Private

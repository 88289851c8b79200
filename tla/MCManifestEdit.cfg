CONSTANTS
  Leaves <- LeafNames
  FieldOf <- Under
  Choices <- Offered
  First <- Served
  Absent = Absent
  Blank = Blank
  Typed = {Absent, Blank, 1}
  Metadata = "metadata"
  Declared <- DeclaredFields
  ClusterOwned = {"status"}
  Contested = {"replicas"}
  Loads = {l1, l2}
  MaxVersion = 2
  None = None
SYMMETRY Interchangeable
SPECIFICATION Spec
PROPERTIES
  NothingOverwritten
  AppliesTheDocument
CHECK_DEADLOCK FALSE

SPECIFICATION Spec
CONSTANTS
  Size = 4
  Modulus = 16
  Samples = {z, a}
  Zero = z
  MaxXfer = 5
PROPERTY IsFifo

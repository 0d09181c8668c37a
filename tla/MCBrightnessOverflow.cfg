\* A step as large as an int.
CONSTANTS
    Max = 2
    IntMax = 3
    PowersaveValue = 1
    Stored = {}
    Foreign = {}
    Frame <- LargestStep
    QueueMax = 1
    None = None
SPECIFICATION Spec
PROPERTY ModifyClamps

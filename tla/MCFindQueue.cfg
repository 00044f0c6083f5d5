\* A ring of four slots and batches up to twice as long.
SPECIFICATION Spec
CONSTANTS
    Size = 4
    MaxArgs = 6
    MaxVisits = 2
INVARIANTS
    BatchComplete
PROPERTIES
    ImplementsLookupQueue

SPECIFICATION Spec
CONSTANTS
    Device = {d1, d2}
    MaxFound = 2
INVARIANT AddressOfDevice

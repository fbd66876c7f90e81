SPECIFICATION Spec
CONSTANTS
  Fill = 76
  Machines <- MCMachines
  PinCycles <- MCPinCycles
PROPERTIES
  ImplementsIsa
  NmiServed

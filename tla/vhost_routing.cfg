SPECIFICATION Spec
CONSTANTS
  a = a
  b = b
  c = c
  dA = dA
  dB = dB
  dW = dW
  Sites = {a, b, c}
  Domains = {dA, dB, dW}
  Wildcards = {dW}
  Covers <- CoversD
  Capacity <- Arrays2
  Inputs <- Configs
  InitialSites <- Starts
  Environments <- Environments4
  Nil = Nil
CHECK_DEADLOCK FALSE
INVARIANTS
  TypeOK
  DisabledSiteNotServed
  EnabledSiteServed
  DefaultHostPicked
  StartAddsInTurn

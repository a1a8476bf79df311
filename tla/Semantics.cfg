\* A compiled policy and a parsed packet are the end of their part: no deadlock check.
CHECK_DEADLOCK FALSE
SPECIFICATION MCSpec
CONSTANTS
  Width = 4
  MaxIPBlockExpansion = 4
  Input <- MCInput
  Policies <- MCPolicies
  Bad = Bad
  BadPort = BadPort
  Absent = Absent
  MaxPolicySubjects = 3
  MaxPolicyRules = 22
  a = a
  b = b
  n = n
  NoSubject = NoSubject
  Endpoints = {a, b}
  NodeIPs = {n}
  PolicySets <- MCPolicySets
  Traffic <- MCPackets
  MaxEpoch = 3
  Skbs <- MCSkbs
  BlockInputs <- MCBlockInputs
  MaxExcepts = 2
  PortBits = 2
  ProtoBits = 2
  GapBits = 1
  AddressBits = 2
  Fixed = 4
  RuleCgroups = {1, 2}
  Protocols = {1, 3}
  RuleSets <- SmallSets
  MaxRules = 3
INVARIANTS CompilerCorrect BlocksExact ParserExact VerdictsExact KeysExact

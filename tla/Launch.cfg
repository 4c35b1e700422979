SPECIFICATION LaunchSpec
CONSTANTS
  Processes = {p1, p2}
  NumPolicies = 2
  Absent = Absent
  Earlier = Earlier
  NumImages = 2
  Subnets = {s1, s2, s3}
  Unsuited = {s1}
  WithIPv6 = {s1, s2}
  NoSubnet = NoSubnet
  MaxPolls = 2
INVARIANTS
  LaunchTypeOK
  EmptyProfileExplained
  PartialRoleExplained
  ClusterIsConnected
  MachinesAccounted
PROPERTY
  OnlyMakersComplete

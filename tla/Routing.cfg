SPECIFICATION Spec
INVARIANTS
  Minimal
  CreditsReturn
  Served
PROPERTY ChannelOrder

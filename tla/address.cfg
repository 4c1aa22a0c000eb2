CONSTANTS
  V4Addresses <- SomeV4
  V6Addresses <- SomeV6
  NewAddresses <- SomeNew
  Ports = {0, 12346}
  Numbers = {0, 65535, 65536}
SPECIFICATION AddressSpec
INVARIANTS
  EndpointReadsBack
  CanonicalV6Text
  SockaddrInNetworkOrder
  NoPortIsCut
  BareV6Text

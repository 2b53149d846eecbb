SPECIFICATION Spec
CONSTANTS
  BADSEM = BADSEM
  NULL = NULL
  Parts = {"udp", "udpclose", "udpbind", "raw", "rawbind", "arp", "arptab", "arpsend",
    "route", "routes", "ip", "ipodd", "ipstray", "ping", "pingfail",
    "tcpopen", "tcpdata", "tcproom", "tcpclose", "timer", "timerbuild"}
CHECK_DEADLOCK FALSE
INVARIANTS Types SocketsSound AddressesSound RoutesSound 
  StreamsIntact ConnectionsTimely
PROPERTIES SocketsAreChannels

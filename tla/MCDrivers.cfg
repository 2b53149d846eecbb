SPECIFICATION Spec
CONSTANTS
  BADSEM = BADSEM
  NONE = NONE
  NULL = NULL
  Parts = {"uart1", "uart2", "uart3", "loop1", "loop2", "eth1", "eth2", "eth3", "eth4",
           "nic1", "nic2", "lan1", "lan2", "flash1", "flash2", "flash3", "flash4", "flash5",
           "tty1", "tty2"}
CHECK_DEADLOCK FALSE
INVARIANTS Types UartSound LoopbackSound EthLoopSound EthernetSound  TerminalSound
PROPERTIES FirstInFirstOut

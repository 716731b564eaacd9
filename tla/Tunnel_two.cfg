\* Two inward tunnels share the emulator's table; the daemonized one is signalled.
SPECIFICATION FairSpec
CONSTANTS
  p1 = p1
  p2 = p2
  Host = Host
  Nobody = Nobody
  Procs <- MCTwo
  Inward <- MCTwo
  Daemons <- MCOne
  Fds <- MCFds
  Signals <- MCSignals
INVARIANTS
  TypeOK
  UsesOwnDescriptors
  LeaksOnlyUnstored
PROPERTIES
  SignalledTerminates

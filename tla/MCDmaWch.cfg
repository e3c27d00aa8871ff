\* Two channels with the same index in the two flag registers.
CONSTANTS
  MaxBlock = 4
  Channels = {0, 8}
  Requests <- MCRequests
  Reloads <- MCReloads
SPECIFICATION FairSpec
INVARIANTS TypeOK EnabledOnlyWhileRunning NoStaleFlag NoLostEvent
           TerminalFlagPends FreeChannelIsQuiet StatusWithinBlock
PROPERTIES ReprogrammedOnlyWhenOff EventsAreGenuine TerminalIsServiced

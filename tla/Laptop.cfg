\* Both daemons, one kill of the mixer daemon, restarts of the other at will.
SPECIFICATION LaptopSpec
CONSTANTS
  MaxKills = 1
  UenvFiles <- MCUenvFiles
  MaxEvents = 1
INVARIANTS
  LedShowsLock
PROPERTIES
  SoundComesBack
  MixerFollowsJack

SPECIFICATION FairSpec
CONSTANTS
  remote = remote
  local = local
  Store <- MCStore
  Remote <- MCRemote
  WaitsForInterrupter = TRUE
INVARIANTS TypeOK OnlyTheAimedFails NoUseAfterFree
PROPERTIES StoreInterruptEnds RequestEnds

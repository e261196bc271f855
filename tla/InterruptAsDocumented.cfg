SPECIFICATION Spec
CONSTANTS
  remote = remote
  local = local
  Store <- MCStore
  Remote <- MCRemote
  WaitsForInterrupter = FALSE
INVARIANT NoUseAfterFree

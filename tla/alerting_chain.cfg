SPECIFICATION FairSpec
CONSTANTS
  router = router
  device = device
  trap = trap
  deviceRule = deviceRule
  warnRule = warnRule
  NoCheck = NoCheck
  Checks = {router, device, trap}
  Rules = {deviceRule, warnRule}
  CheckOf <- ChainCheckOf
  TriggerOn <- ChainTriggerOn
  ConsecutiveFailures <- ChainConsecutive
  MaxFailures = 1
  Reminding = {deviceRule}
  Escalating = {deviceRule}
  Switchable = {}
  DependsOn <- ChainDependsOn
  RecoverWith <- ChainRecoverWith
  TimeoutsBeforeDown <- ChainTimeouts
  Reports <- ChainReports
  Maintained = {device}
  FlapWindow = 2
  FlapStart = 1
  FlapStop = 0
PROPERTIES
  HeldBack
  FollowersRecover
  IncidentsFollow
  EscalatesInTheEnd

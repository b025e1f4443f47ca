SPECIFICATION Spec
CONSTANTS
  router = router
  device = device
  trap = trap
  deviceRule = deviceRule
  warnRule = warnRule
  NoCheck = NoCheck
  Checks = {device}
  Rules = {deviceRule, warnRule}
  CheckOf <- NoiseCheckOf
  TriggerOn <- NoiseTriggerOn
  ConsecutiveFailures <- NoiseConsecutive
  MaxFailures = 2
  Reminding = {deviceRule}
  Escalating = {deviceRule}
  Switchable = {warnRule}
  DependsOn <- NoiseDependsOn
  RecoverWith <- NoiseRecoverWith
  TimeoutsBeforeDown <- NoiseTimeouts
  Reports <- NoiseReports
  Maintained = {device}
  FlapWindow = 4
  FlapStart = 3
  FlapStop = 1
INVARIANTS
  OpenIsFailing

  

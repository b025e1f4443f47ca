----------------------------- MODULE MCAlerting -----------------------------
(***************************************************************************)
(* Instances of Alerting.tla for TLC.                                      *)
(*                                                                         *)
(* Chain: a device behind a router, and a trap check; they recover         *)
(* together in a cycle, trap with device, device with router, router with  *)
(* trap.  Flapping is any change among the last two results.               *)
(*                                                                         *)
(* Noise: one check with two rules that times out and flaps.  The flap     *)
(* window is 4 results (21 in the code), flapping from 3 changes (7) until *)
(* 1 or fewer (3).                                                         *)
(***************************************************************************)
EXTENDS Alerting

CONSTANTS router, device, trap, deviceRule, warnRule

\* Chain
ChainChecks == {router, device, trap}
ChainCheckOf == [r \in {deviceRule, warnRule} |-> IF r = deviceRule THEN device ELSE trap]
ChainTriggerOn == [r \in {deviceRule, warnRule} |-> IF r = deviceRule THEN "down" ELSE "warn"]
ChainConsecutive == [r \in {deviceRule, warnRule} |-> 1]
ChainDependsOn == [c \in ChainChecks |-> IF c = device THEN {router} ELSE {}]
ChainRecoverWith == [c \in ChainChecks |->
                       IF c = router THEN trap ELSE IF c = device THEN router ELSE device]
ChainReports == [c \in ChainChecks |->
                   IF c = trap THEN {"up", "warn"}
                   ELSE IF c = device THEN {"up", "down", "unknown"} ELSE {"up", "down"}]
ChainTimeouts == [c \in ChainChecks |-> 1]

\* Noise
NoiseCheckOf == [r \in {deviceRule, warnRule} |-> device]
NoiseTriggerOn == [r \in {deviceRule, warnRule} |-> IF r = deviceRule THEN "down" ELSE "warn"]
NoiseConsecutive == [r \in {deviceRule, warnRule} |-> IF r = deviceRule THEN 2 ELSE 1]
NoiseDependsOn == [c \in {device} |-> {}]
NoiseRecoverWith == [c \in {device} |-> NoCheck]
NoiseReports == [c \in {device} |-> Report]
NoiseTimeouts == [c \in {device} |-> 3]
=============================================================================

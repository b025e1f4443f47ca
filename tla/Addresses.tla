------------------------------ MODULE Addresses ------------------------------
(* The addresses a network card has been seen at (services/addresses.ts):    *)
(* what a report of the card's addresses records, and what an ip_change      *)
(* check says of them.  Time counts reports; two addresses of one report are *)
(* recorded one after the other.                                             *)
EXTENDS Integers, Sequences, FiniteSets
CONSTANTS Ips,           \* the IPv4 addresses the card may have
          HoldReports,   \* holdMinutes, in reports
          MaxReports     \* bound on the reports

VARIABLES seen,    \* address -> when it was first and last seen
          reports, \* reports stored
          card     \* the addresses the card had in the last one (history)
avars == <<seen, reports, card>>

(* Two sightings are further apart the later they are in their report. *)
Instant(r, i) == r * 10 + i
recordSighting(s, ip, t) == [x \in DOMAIN s \cup {ip} |->
  IF x # ip THEN s[x] ELSE [first |-> IF ip \in DOMAIN s THEN s[ip].first ELSE t, last |-> t]]
recordFromSnapshot(addrs) ==
  LET after[i \in 0..Len(addrs)] == IF i = 0 THEN seen ELSE recordSighting(after[i - 1], addrs[i], Instant(reports + 1, i)) IN
  /\ reports < MaxReports /\ reports' = reports + 1 /\ seen' = after[Len(addrs)]
  /\ card' = {addrs[i] : i \in DOMAIN addrs}

(* The addresses seen, the one seen last first. *)
Latest(S) == CHOOSE x \in S : \A y \in S : seen[y].last <= seen[x].last
Age(t) == (Instant(reports, 9) - t) \div 10
probeIpChange ==
  IF seen = <<>> THEN "warn"
  ELSE LET latest == Latest(DOMAIN seen)
           others == DOMAIN seen \ {latest} IN
       IF /\ others # {}
          /\ Age(seen[latest].first) < HoldReports
          /\ seen[latest].first > seen[Latest(others)].first
       THEN "warn" ELSE "up"

Init == seen = <<>> /\ reports = 0 /\ card = {}
Next == \E addrs \in {<<a>> : a \in Ips} \cup {<<a, b>> : a, b \in Ips} : recordFromSnapshot(addrs)
Spec == Init /\ [][Next]_avars

-----------------------------------------------------------------------------
(* "Warn (or down) for holdMinutes after a MAC shows up at a new address"    *)
(* (addresses.ts:76).                                                        *)
New == {x \in DOMAIN seen : Age(seen[x].first) < HoldReports /\ \E y \in DOMAIN seen : seen[y].first \div 10 < seen[x].first \div 10}
NewAddressWarns == New # {} => probeIpChange = "warn"
=============================================================================

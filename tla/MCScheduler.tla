---------------------------- MODULE MCScheduler -----------------------------
\* An instance of Scheduler.tla for TLC, in two settings: two ticks and nobody pressing
\* Run now (without the collector's check), and one tick with a person who does (without
\* the light check).
EXTENDS Scheduler, TLC

CONSTANTS t1, t2, r1, r2, r3

VARIABLE manual \* the setting: are checks run by hand?

\* Three checks, two of a heavy type that may run once at a time, and one in a site
\* with a collector.
MCChecks == {"ping", "page1", "page2", "remote"}
MCTypes == {"ping", "browser"}
MCTypeOf == [c \in MCChecks |-> IF c \in {"page1", "page2"} THEN "browser" ELSE "ping"]
MCTypeLimit == [t \in {"browser"} |-> 1]

Setting ==
  IF manual THEN "ping" \notin overdue /\ tickStep[t2] = "idle"
            ELSE /\ "remote" \notin overdue /\ ~silent
                 /\ \A i \in RunIds : run[i].by \in {"none", "tick"}

MCInit == Init /\ manual \in BOOLEAN /\ Setting
MCNext == Next /\ UNCHANGED manual /\ Setting'

MCFairSpec ==
  /\ MCInit /\ [][MCNext]_<<vars, manual>>
  /\ RunFairness /\ TickFairness(t1) /\ (~manual => TickFairness(t2))

\* Without Run now, ticks that overlap never run a check twice (runDueChecks).
OneRunUnlessAsked == ~manual => OneRunPerCheck
=============================================================================

------------------------------ MODULE MCRelay ------------------------------
EXTENDS Relay
CONSTANTS chat, public, daily, again, weekly

OneTask   == [r \in Scheduled |-> IF r = weekly THEN "weekly" ELSE "daily"]
OneSetup  == [r \in Runs |-> 1]
AllOfDaily == {daily} \X Authorities
TwoSetups == [r \in Runs |-> IF r = public THEN 1 ELSE 2]

\* The relay while nobody pauses its schedules or updates it, and one authority at
\* most is withdrawn: the binding next to stops and cancellations, the owner or the
\* schedule while there are none.
Unstopped == stopped = {} /\ cancelMark = {} /\ stopQ = {} /\ pend = None
Narrow ==
  /\ Cardinality(withdrawn) <= 1
  /\ withdrawn \subseteq Runs \X {"binding"} \/ Unstopped
StopsNext == Next /\ UNCHANGED <<enabled, update>> /\ Narrow'
StopsSpec == Init /\ [][StopsNext]_vars /\ Fairness
=============================================================================

----------------------------- MODULE TimelyScheduler -----------------------------
(***************************************************************************)
(* The deployment for which the run lock of SchedulerLock prevents         *)
(* overlap: acquire, the heartbeat thread's wake-up and its UPDATE each    *)
(* come at most Lag after they are due, and at most MaxMisses heartbeats   *)
(* in a row raise. The code waits HeartbeatInterval = ttl // 3, at most a  *)
(* minute, between two heartbeats; TimingAssumption is what ttl must then  *)
(* leave room for.                                                         *)
(***************************************************************************)
EXTENDS SchedulerLock

CONSTANT Lag    \* how late a due step may be

\* The longest time from one heartbeat's clock reading to the next one's
\* commit: the wait, a late wake-up and a late UPDATE.
BeatCycle == HeartbeatInterval + 2 * Lag

ASSUME TimingAssumption ==
    /\ Lag \in Nat
    /\ Lag + (MaxMisses + 1) * BeatCycle < Ttl

\* The clock does not move past the moment by which a step of r is due.
OnTime(r) ==
    /\ phase[r] = "checked" => now < checkedAt[r] + Lag
    /\ phase[r] = "running" /\ beat[r] # "none" => now < beatTime[r] + Lag

TimelyTick == Tick /\ \A r \in Run : OnTime(r)

TimelyNext == CallStep \/ TimelyTick \/ Quiescent

TimelySpec == Init /\ [][TimelyNext]_vars
==================================================================================

---------------------------- MODULE QueueMonitor ----------------------------
(***************************************************************************)
(* The queue depths of /api/live: one reused broker connection, confined   *)
(* to one thread, which is dropped when a read fails and made again at the *)
(* next poll, or half a minute after a connect that failed.                *)
(***************************************************************************)
EXTENDS Integers

CONSTANTS
    Backoff,    \* _RECONNECT_BACKOFF_S, in ticks of the clock
    MaxDrops    \* bound: connections lost while the broker is up

ASSUME MonitorAssumption == Backoff \in Nat /\ MaxDrops \in Nat

VARIABLES
    broker,    \* "up", "down"
    conn,      \* the client: "none", "live", "dead" (open, as far as pika
               \* knows), "closed" (pika has noticed)
    wait,      \* ticks until _retry_after
    shown,     \* what the last poll answered: "nothing", "n/a", "depths"
    quiet,     \* ticks since a connect failed, up to Backoff
    drops      \* connections lost so far

monitorvars == <<broker, conn, wait, shown, quiet, drops>>

MonitorInit ==
    /\ broker = "up" /\ conn = "none" /\ wait = 0
    /\ shown = "nothing" /\ quiet = Backoff /\ drops = 0

-----------------------------------------------------------------------------
Connected == conn \in {"live", "dead"}       \* is_connected

(* Mutant: a failed connect is tried again at the next poll. *)
Resting_Never == FALSE

Resting == conn = "none" /\ wait > 0

PollRests ==
    /\ Resting
    /\ shown' = "n/a"
    /\ UNCHANGED <<broker, conn, wait, quiet, drops>>

(* _ensure_client makes a new client unless the old one is connected. *)
PollCannotConnect ==
    /\ ~Resting /\ ~Connected /\ broker = "down"
    /\ conn' = "none" /\ wait' = Backoff /\ quiet' = 0
    /\ shown' = "n/a"
    /\ UNCHANGED <<broker, drops>>

(* Mutant: a client whose read failed is kept. *)
AfterFailedRead_Kept == conn

AfterFailedRead == "none"

PollCannotRead ==
    /\ conn = "dead"
    /\ conn' = AfterFailedRead
    /\ shown' = "n/a"
    /\ UNCHANGED <<broker, wait, quiet, drops>>

PollReads ==
    /\ ~Resting /\ broker = "up" /\ conn # "dead"
    /\ conn' = "live"
    /\ shown' = "depths"
    /\ UNCHANGED <<broker, wait, quiet, drops>>

Poll == PollRests \/ PollCannotConnect \/ PollCannotRead \/ PollReads

-----------------------------------------------------------------------------
BrokerStops ==
    /\ broker = "up"
    /\ broker' = "down"
    /\ conn' \in IF conn = "live" THEN {"dead", "closed"} ELSE {conn}
    /\ UNCHANGED <<wait, shown, quiet, drops>>

BrokerStarts ==
    /\ broker = "down"
    /\ broker' = "up"
    /\ UNCHANGED <<conn, wait, shown, quiet, drops>>

(* An idle connection is dropped by the broker or the network. *)
ConnectionDrops ==
    /\ conn = "live" /\ drops < MaxDrops
    /\ conn' \in {"dead", "closed"}
    /\ drops' = drops + 1
    /\ UNCHANGED <<broker, wait, shown, quiet>>

Tick ==
    /\ wait' = IF wait = 0 THEN 0 ELSE wait - 1
    /\ quiet' = IF quiet = Backoff THEN Backoff ELSE quiet + 1
    /\ UNCHANGED <<broker, conn, shown, drops>>

MonitorNext == Poll \/ BrokerStops \/ BrokerStarts \/ ConnectionDrops \/ Tick

MonitorSpec == MonitorInit /\ [][MonitorNext]_monitorvars

-----------------------------------------------------------------------------
MonitorTypeOK ==
    /\ broker \in {"up", "down"}
    /\ conn \in {"none", "live", "dead", "closed"}
    /\ wait \in 0..Backoff /\ quiet \in 0..Backoff
    /\ shown \in {"nothing", "n/a", "depths"}
    /\ drops \in 0..MaxDrops

(* However often it is polled, the monitor does not connect again to a     *)
(* broker that refused it less than Backoff ago.                           *)
NeverHammers == [][quiet' < quiet => quiet = Backoff]_monitorvars

(* Once the broker is up for good the dashboard shows depths for good: no  *)
(* failed connection is kept, and the wait runs out.                       *)
MonitorRecovers == <>[](broker = "up") => <>[](shown = "depths")
=============================================================================

--------------------------- MODULE ServicesProofs ---------------------------
(***************************************************************************)
(* Safety of five components that share no state: the queue monitor, the   *)
(* tiers of the work queues, the download of an input, the metrics table   *)
(* and the clients of S3; for every value of their constants.  The last    *)
(* section carries their theorems over to the five side by side.           *)
(***************************************************************************)
EXTENDS MCServices, FiniteSetTheorems, TLAPS

-----------------------------------------------------------------------------
(* The queue monitor.  What is left of the wait and what has passed of it  *)
(* make up the back-off, and no wait is left while there is a client.      *)

MonitorInv ==
    /\ MonitorTypeOK
    /\ wait + quiet = Backoff
    /\ conn # "none" => wait = 0

LEMMA MonitorStart == MonitorInit => MonitorInv
BY MonitorAssumption DEF MonitorInit, MonitorInv, MonitorTypeOK

LEMMA MonitorStep == MonitorInv /\ [MonitorNext]_monitorvars => MonitorInv'
<1> SUFFICES ASSUME MonitorInv, [MonitorNext]_monitorvars
             PROVE  MonitorInv'
    OBVIOUS
<1> USE MonitorAssumption DEF MonitorInv, MonitorTypeOK
<1>1. CASE PollRests \/ PollCannotConnect \/ PollCannotRead \/ PollReads
    BY <1>1 DEF PollRests, PollCannotConnect, PollCannotRead, PollReads, Resting,
        Connected, AfterFailedRead
<1>2. CASE BrokerStops \/ BrokerStarts \/ ConnectionDrops
    BY <1>2 DEF BrokerStops, BrokerStarts, ConnectionDrops
<1>3. CASE Tick
    BY <1>3 DEF Tick
<1>4. CASE UNCHANGED monitorvars
    BY <1>4 DEF monitorvars
<1> QED
    BY <1>1, <1>2, <1>3, <1>4 DEF MonitorNext, Poll

LEMMA OnlyRefusalsRestart ==
    ASSUME MonitorInv, [MonitorNext]_monitorvars, quiet' < quiet
    PROVE  quiet = Backoff
<1> USE MonitorAssumption DEF MonitorInv, MonitorTypeOK
<1>1. CASE PollCannotConnect
    BY <1>1 DEF PollCannotConnect, Resting, Connected
<1>2. CASE Tick
    <2>1. quiet' = IF quiet = Backoff THEN Backoff ELSE quiet + 1
        BY <1>2 DEF Tick
    <2> QED
        BY <2>1
<1>3. CASE UNCHANGED quiet
    BY <1>3
<1> QED
    BY <1>1, <1>2, <1>3 DEF MonitorNext, Poll, PollRests, PollCannotRead,
        PollReads, BrokerStops, BrokerStarts, ConnectionDrops, monitorvars

(* A broker that refused a connection is left alone for the whole back-off *)
(* however often the dashboard polls.                                      *)
THEOREM MonitorIsPatient == MonitorSpec => NeverHammers
<1>1. MonitorInv /\ [MonitorNext]_monitorvars
        => [quiet' < quiet => quiet = Backoff]_monitorvars
    BY OnlyRefusalsRestart
<1> QED
    BY MonitorStart, MonitorStep, <1>1, PTL DEF MonitorSpec, NeverHammers

-----------------------------------------------------------------------------
(* The tiers.  A message that was passed over once waits in the light      *)
(* queue that its worker tries next.                                       *)

TiersInv ==
    /\ TiersTypeOK
    /\ \A w \in Consumers, p \in ToSet(Light) :
          bypassed[w][p] = 0 \/ (bypassed[w][p] = 1 /\ p = Light[rr[w]])

LEMMA LightIs == Light[1] = "radar" /\ Light[2] = "wrf" /\ ToSet(Light) = {"radar", "wrf"}
BY DEF Light, ToSet

(* The queues of a poll are its own, each once. *)
LEMMA OrderIs ==
    ASSUME NEW w, rr[w] \in 1..2
    PROVE  /\ w \in NormalWorkers =>
                Order(w) = <<"normal", Light[rr[w]], Light[Other(rr[w])]>>
           /\ w \notin NormalWorkers => Order(w) = <<Light[rr[w]], Light[Other(rr[w])]>>
BY DEF Order

(* What a poll finds is the first of its queues that has a message. *)
LEMMA FoundIsFirst ==
    ASSUME NEW w, rr[w] \in 1..2, Found(w) # 0
    PROVE  /\ Found(w) \in 1 .. Len(Order(w))
           /\ Readable(Order(w)[Found(w)])
<1> DEFINE Hits == {i \in 1 .. Len(Order(w)) : Readable(Order(w)[i])}
<1>1. Found(w) = IF Hits # {} THEN Min(Hits) ELSE 0
    BY DEF Found, SelectInSeq
<1>2. Len(Order(w)) \in 2..3
    BY OrderIs
<1>3. Hits # {} /\ Hits \subseteq 1..3
    BY <1>1, <1>2
<1>4. \E i \in Hits : \A k \in Hits : i =< k
    <2> HIDE DEF Hits
    <2>1. CASE 1 \in Hits
        BY <2>1, <1>3
    <2>2. CASE 1 \notin Hits /\ 2 \in Hits
        BY <2>2, <1>3
    <2>3. CASE Hits = {3}
        BY <2>3
    <2>4. Hits = {3} \/ 1 \in Hits \/ 2 \in Hits
        <3> SUFFICES ASSUME 1 \notin Hits, 2 \notin Hits PROVE Hits = {3}
            OBVIOUS
        <3>1. \A i \in Hits : i = 3
            BY <1>3
        <3> QED
            BY <3>1, <1>3
    <2> QED
        BY <2>1, <2>2, <2>3, <2>4
<1>5. Min(Hits) \in Hits
    <2> HIDE DEF Hits
    <2> QED
        BY <1>4 DEF Min
<1> QED
    BY <1>1, <1>3, <1>5

(* A poll that serves a light queue turns to the other one; it passes that *)
(* one over only when it was not its turn.                                 *)
LEMMA TurnPasses ==
    ASSUME NEW w, rr[w] \in 1..2, Found(w) # 0
    PROVE  LET q == Order(w)[Found(w)] IN
           /\ q \in Queues /\ Turn(w, q) \in 1..2
           /\ q = "normal" => Turn(w, q) = rr[w]
           /\ \A p \in ToSet(Light) : p # q /\ q # "normal" =>
                p = Light[Turn(w, q)] /\ (p \in Tried(w) \/ p # Light[rr[w]])
<1> DEFINE q == Order(w)[Found(w)]
<1>1. q \in Queues
    BY FoundIsFirst, OrderIs, LightIs DEF Queues, Other
<1>2. Turn(w, q) \in 1..2 /\ (q = "normal" => Turn(w, q) = rr[w])
    BY <1>1 DEF Turn, Queues
<1>3. ASSUME NEW p \in ToSet(Light), p # q, q # "normal"
      PROVE  p = Light[Turn(w, q)]
    BY <1>1, <1>3, LightIs DEF Turn, Queues
<1>4. ASSUME NEW p \in ToSet(Light), p # q, q # "normal", p = Light[rr[w]]
      PROVE  p \in Tried(w)
    <2>1. PICK i \in 1 .. Found(w) : Order(w)[i] = p
        BY <1>4, FoundIsFirst, OrderIs, LightIs DEF Other
    <2> QED
        BY <2>1 DEF Tried
<1> QED
    BY <1>1, <1>2, <1>3, <1>4

LEMMA TiersStart == TiersInit => TiersInv
BY LightIs DEF TiersInit, TiersInv, TiersTypeOK, Queues

LEMMA DrainedType ==
    ASSUME TiersTypeOK, NEW w \in Consumers
    PROVE  Drained(w) \in [Queues -> Seq(Units \cup {Junk})]
<1> SUFFICES ASSUME NEW q \in Queues, queue[q] # <<>>
             PROVE  Tail(queue[q]) \in Seq(Units \cup {Junk})
    BY DEF Drained, TiersTypeOK
<1> QED
    BY DEF TiersTypeOK

LEMMA TiersStep == TiersInv /\ [TiersNext]_tiervars => TiersInv'
<1> SUFFICES ASSUME TiersInv, [TiersNext]_tiervars
             PROVE  TiersInv'
    OBVIOUS
<1> USE DEF TiersInv, TiersTypeOK
<1> DEFINE Waits(r, b) ==
        \A w \in Consumers, p \in ToSet(Light) :
            b[w][p] = 0 \/ (b[w][p] = 1 /\ p = Light[r[w]])
<1>1. ASSUME NEW u \in Units, Publish(u)
      PROVE  TiersInv'
    BY <1>1 DEF Publish, Route, Queues
<1>2. ASSUME NEW q \in Queues, PublishJunk(q)
      PROVE  TiersInv'
    BY <1>2 DEF PublishJunk
<1>3. ASSUME NEW w \in Consumers, PollOne(w)
      PROVE  TiersInv'
    <2> DEFINE q == Order(w)[Found(w)]
    <2>1. /\ q \in Queues /\ Readable(q) /\ Turn(w, q) \in 1..2
          /\ q = "normal" => Turn(w, q) = rr[w]
          /\ \A p \in ToSet(Light) : p # q /\ q # "normal" =>
                p = Light[Turn(w, q)] /\ (p \in Tried(w) \/ p # Light[rr[w]])
        BY <1>3, TurnPasses, FoundIsFirst DEF PollOne
    <2>2. /\ held' = [held EXCEPT ![w] = <<Head(queue[q]), q>>]
          /\ rr' = [rr EXCEPT ![w] = Turn(w, q)]
          /\ bypassed' = [bypassed EXCEPT ![w] = [p \in ToSet(Light) |-> Bypass(w, q, p)]]
          /\ queue' = Drained(w)
        BY <1>3 DEF PollOne
    <2> HIDE DEF q
    <2>3. Head(queue[q]) \in Units
        BY <2>1 DEF Readable
    <2>4. ASSUME NEW p \in ToSet(Light)
          PROVE  Bypass(w, q, p) = 0 \/ (Bypass(w, q, p) = 1 /\ p = Light[Turn(w, q)])
        <3>1. bypassed[w][p] = 0 \/ (bypassed[w][p] = 1 /\ p = Light[rr[w]])
            OBVIOUS
        <3> HIDE DEF TiersInv, TiersTypeOK
        <3> QED
            BY <2>1, <3>1 DEF Bypass
    <2>5. [p \in ToSet(Light) |-> Bypass(w, q, p)] \in [ToSet(Light) -> Nat]
        BY <2>4
    <2>6. TiersTypeOK'
        BY <2>1, <2>2, <2>3, <2>5, DrainedType
    <2>7. Waits(rr', bypassed')
        BY <2>2, <2>4
    <2> QED
        BY <2>6, <2>7
<1>4. ASSUME NEW w \in Consumers, PollNothing(w)
      PROVE  TiersInv'
    BY <1>4, DrainedType DEF PollNothing
<1>5. ASSUME NEW w \in Consumers, Ack(w) \/ Retry(w)
      PROVE  TiersInv'
    <2>1. held' = [held EXCEPT ![w] = <<>>] /\ UNCHANGED <<rr, bypassed>>
        BY <1>5 DEF Ack, Retry
    <2>2. queue' \in [Queues -> Seq(Units \cup {Junk})]
        <3>1. held[w][1] \in Units \cup {Junk} /\ held[w][2] \in Queues
            BY <1>5 DEF Ack, Retry
        <3>2. CASE Ack(w)
            BY <3>2 DEF Ack
        <3>3. CASE Retry(w)
            <4>1. Append(queue[held[w][2]], held[w][1]) \in Seq(Units \cup {Junk})
                BY <3>1
            <4> QED
                BY <3>1, <3>3, <4>1 DEF Retry, RetryQueue
        <3> QED
            BY <1>5, <3>2, <3>3
    <2> QED
        BY <2>1, <2>2
<1>6. ASSUME NEW w \in Consumers, Requeue(w)
      PROVE  TiersInv'
    <2>1. /\ queue' \in [Queues -> Seq(Units \cup {Junk})]
          /\ held' = [held EXCEPT ![w] = <<>>]
        <3>1. held[w][1] \in Units \cup {Junk} /\ held[w][2] \in Queues
            BY <1>6 DEF Requeue
        <3>2. <<held[w][1]>> \o queue[held[w][2]] \in Seq(Units \cup {Junk})
            BY <3>1
        <3> QED
            BY <1>6, <3>1, <3>2 DEF Requeue
    <2>2. \/ UNCHANGED <<rr, bypassed>>
          \/ /\ rr' = [rr EXCEPT ![w] = 1]
             /\ bypassed' = [bypassed EXCEPT ![w] = [p \in ToSet(Light) |-> 0]]
        BY <1>6 DEF Requeue
    <2>3. /\ rr' \in [Consumers -> 1..2]
          /\ bypassed' \in [Consumers -> [ToSet(Light) -> Nat]]
        <3>1. [p \in ToSet(Light) |-> 0] \in [ToSet(Light) -> Nat]
            OBVIOUS
        <3>2. rr' \in [Consumers -> 1..2]
            <4>1. CASE rr' = [rr EXCEPT ![w] = 1]
                BY <4>1
            <4> QED
                BY <2>2, <4>1
        <3>3. CASE UNCHANGED bypassed
            BY <3>2, <3>3
        <3>4. CASE bypassed' = [bypassed EXCEPT ![w] = [p \in ToSet(Light) |-> 0]]
            <4> HIDE DEF TiersInv
            <4> DEFINE zero == [p \in ToSet(Light) |-> 0]
            <4> HIDE DEF zero
            <4>1. zero \in [ToSet(Light) -> Nat] /\ bypassed' = [bypassed EXCEPT ![w] = zero]
                BY <3>1, <3>4 DEF zero
            <4>2. bypassed \in [Consumers -> [ToSet(Light) -> Nat]]
                BY DEF TiersInv
            <4> QED
                BY <3>2, <4>1, <4>2
        <3> QED
            BY <2>2, <3>2, <3>3, <3>4
    <2>4. Waits(rr', bypassed')
        BY <2>2
    <2>5. held' \in [Consumers -> {<<>>} \cup (Units \X Queues)]
        BY <2>1
    <2> QED
        BY <2>1, <2>3, <2>4, <2>5
<1>7. CASE UNCHANGED tiervars
    BY <1>7 DEF tiervars
<1> QED
    BY <1>1, <1>2, <1>3, <1>4, <1>5, <1>6, <1>7 DEF TiersNext

(* While a message it could have had waits in one light queue, a worker    *)
(* serves the other at most once, however the queues fill and empty.       *)
THEOREM LightQueuesTakeTurns == TiersSpec => []LightQueuesAlternate
<1>1. TiersInv => LightQueuesAlternate
    BY DEF TiersInv, LightQueuesAlternate
<1> QED
    BY TiersStart, TiersStep, <1>1, PTL DEF TiersSpec

-----------------------------------------------------------------------------
(* The download.  A target is complete before it is checked: a bucket's,   *)
(* because every request of the gather has written its object to the end;  *)
(* a folder's, because the files are copied in order.                      *)

DownloadTypes ==
    /\ origin \in Origins
    /\ source \in [1 .. Parts -> Contents \cup {"none"}]
    /\ target \in [1 .. Parts -> Contents \cup {"none"}]
    /\ at \in {"new", "fetching", "checking", "ended"}
    /\ get \in [1 .. Parts -> {"off", "queued", "sending", "backoff", "done", "failed"}]

VerdictInv ==
    /\ at # "ended" <=> verdict = "none"
    /\ verdict = "returned" /\ origin \in Validated => target[1] = "whole"
    /\ at = "ended" /\ verdict # "returned" /\ origin \in Windows =>
         \A p \in Wanted : target[p] = "none"

RequestInv ==
    /\ origin \in Buckets => \A p \in 1 .. Parts : source[p] \in {"none"} \cup Unbroken
    /\ \A p \in 1 .. Parts : get[p] # "off" =>
         at # "new" /\ origin \in Buckets /\ p \in Wanted
    /\ at = "fetching" => \A p \in 1 .. Parts :
         /\ get[p] = "sending" => target[p] # "none"
         /\ get[p] = "done" => target[p] \in Unbroken

Complete ==
    \A p \in Wanted :
        /\ target[p] # "none"
        /\ origin = "mirrors" => target[p] = "whole"
        /\ origin \in Buckets => get[p] = "done" /\ target[p] \in Unbroken

DownloadInv ==
    /\ DownloadTypes /\ VerdictInv /\ RequestInv
    /\ at = "checking" \/ verdict = "returned" => Complete

LEMMA Backends ==
    /\ Windows \subseteq Origins /\ Validated \subseteq Origins
    /\ Folders \cap Buckets = {}
    /\ "nomads" \notin Folders \cup Buckets /\ "mirrors" \notin Folders \cup Buckets
    /\ Windows \cap Validated = {} /\ "mirrors" \notin Windows \cup Validated
    /\ "nomads" \notin Windows
BY DEF Windows, Validated, Origins, Folders, Buckets

LEMMA WantedIs ==
    /\ Wanted \subseteq 1 .. Parts /\ 1 \in Wanted
    /\ origin \notin Windows => Wanted = {1}
BY DownloadAssumption DEF Wanted

LEMMA DownloadStart == DownloadInit => DownloadInv
<1> SUFFICES ASSUME DownloadInit
             PROVE  DownloadInv
    OBVIOUS
<1> USE DEF DownloadInit
<1>1. /\ source \in [1 .. Parts -> Contents \cup {"none"}]
      /\ origin \in Buckets => \A p \in 1 .. Parts : source[p] \in {"none"} \cup Unbroken
    BY Backends DEF Contents, Unbroken
<1> QED
    BY <1>1 DEF DownloadInv, DownloadTypes, VerdictInv, RequestInv

(* A download that gives up leaves nothing of a window. *)
LEMMA GivesUp ==
    ASSUME DownloadInv, NEW v, v \notin {"none", "returned"}, Ends(v), at # "ended",
           origin' = origin
    PROVE  /\ target' \in [1 .. Parts -> Contents \cup {"none"}]
           /\ at' = "ended" /\ VerdictInv' /\ verdict' = v
<1>1. Wanted' = Wanted /\ Wanted \subseteq 1 .. Parts
    BY WantedIs DEF Wanted
<1>2. CASE origin \in Windows \/ at = "checking"
    <2>1. target' = [p \in 1 .. Parts |-> "none"]
        BY <1>2 DEF Ends, Kept
    <2> QED
        BY <1>1, <2>1 DEF Ends, VerdictInv
<1>3. CASE ~(origin \in Windows \/ at = "checking")
    <2>1. target' = target
        BY <1>3 DEF Ends, Kept
    <2> QED
        BY <1>1, <1>3, <2>1 DEF Ends, VerdictInv, DownloadInv, DownloadTypes
<1> QED
    BY <1>2, <1>3

(* A request that is not over belongs to a gather whose target is not.     *)
LEMMA Unfinished ==
    ASSUME DownloadInv, NEW p \in 1 .. Parts, get[p] \notin {"off", "done"}
    PROVE  /\ origin \in Buckets /\ p \in Wanted
           /\ at \in {"fetching", "ended"} /\ verdict # "returned"
           /\ at = "fetching" <=> verdict = "none"
BY DEF DownloadInv, DownloadTypes, VerdictInv, RequestInv, Complete

LEMMA RequestFails ==
    ASSUME DownloadInv, NEW p \in 1 .. Parts, get[p] = "queued", GetFails(p),
           UNCHANGED <<origin, source>>
    PROVE  DownloadInv'
<1> USE DEF DownloadInv
<1>1. /\ origin \in Buckets /\ p \in Wanted /\ verdict # "returned"
      /\ at \in {"fetching", "ended"} /\ (at = "fetching" <=> verdict = "none")
    BY Unfinished
<1>2. \E g \in {"backoff", "failed"} : get' = [get EXCEPT ![p] = g]
    BY DEF GetFails
<1>3. Wanted' = Wanted
    BY DEF Wanted
<1>4. get' \in [1 .. Parts -> {"off", "queued", "sending", "backoff", "done", "failed"}]
    BY <1>2 DEF DownloadTypes
<1>5. CASE UNCHANGED <<at, verdict, target>>
    <2>1. DownloadTypes' /\ VerdictInv'
        BY <1>3, <1>4, <1>5 DEF DownloadTypes, VerdictInv
    <2>2. RequestInv'
        BY <1>1, <1>2, <1>3, <1>5 DEF RequestInv, DownloadTypes
    <2> QED
        BY <1>1, <1>5, <2>1, <2>2
<1>6. CASE at = "fetching" /\ Ends("failed")
    <2>1. /\ target' \in [1 .. Parts -> Contents \cup {"none"}]
          /\ at' = "ended" /\ VerdictInv' /\ verdict' = "failed"
        BY <1>6, GivesUp
    <2>2. DownloadTypes'
        BY <1>4, <2>1 DEF DownloadTypes
    <2>3. RequestInv'
        BY <1>1, <1>2, <1>3, <2>1 DEF RequestInv, DownloadTypes
    <2> QED
        BY <2>1, <2>2, <2>3
<1> QED
    BY <1>5, <1>6 DEF GetFails

LEMMA DownloadStep == DownloadInv /\ [DownloadNext]_downloadvars => DownloadInv'
<1> SUFFICES ASSUME DownloadInv, [DownloadNext]_downloadvars
             PROVE  DownloadInv'
    OBVIOUS
<1> USE DEF DownloadInv
<1>w. Wanted \subseteq 1 .. Parts /\ 1 \in Wanted /\ (origin' = origin => Wanted' = Wanted)
    BY WantedIs DEF Wanted
<1>e. ASSUME NEW v, v \notin {"none", "returned"}, Ends(v), at \in {"new", "fetching"},
             UNCHANGED <<origin, source>>, UNCHANGED get
      PROVE  DownloadInv'
    <2>1. /\ target' \in [1 .. Parts -> Contents \cup {"none"}]
          /\ at' = "ended" /\ VerdictInv' /\ verdict' = v
        BY <1>e, GivesUp
    <2>2. DownloadTypes'
        BY <1>e, <2>1 DEF DownloadTypes
    <2>3. RequestInv'
        BY <1>e, <1>w, <2>1 DEF RequestInv
    <2> QED
        BY <1>e, <2>1, <2>2, <2>3
<1>1. CASE Begin
    <2>1. /\ DownloadTypes'
          /\ \A p \in 1 .. Parts : get'[p] # "off" =>
                get'[p] = "queued" /\ origin \in Buckets /\ p \in Wanted
        BY <1>1 DEF Begin, DownloadTypes
    <2>2. RequestInv'
        BY <1>1, <1>w, <2>1 DEF Begin, RequestInv
    <2>3. VerdictInv' /\ at' = "fetching" /\ verdict' = "none"
        BY <1>1, <1>w DEF Begin, VerdictInv
    <2> QED
        BY <2>1, <2>2, <2>3
<1>2. CASE FindInFolder
    <2>1. CASE at' = "fetching" /\ UNCHANGED <<verdict, target>>
        BY <1>2, <1>w, <2>1 DEF FindInFolder, DownloadTypes, VerdictInv, RequestInv
    <2> QED
        BY <1>2, <1>e, <2>1 DEF FindInFolder
<1>3. CASE FindInBucket
    <2>1. CASE /\ at' = "fetching" /\ get' = [get EXCEPT ![1] = "queued"]
               /\ UNCHANGED <<verdict, target>>
        <3>1. 1 \in 1 .. Parts /\ origin \in Buckets
            BY <1>3, DownloadAssumption DEF FindInBucket, Buckets
        <3>2. DownloadTypes'
            BY <1>3, <2>1, <3>1 DEF FindInBucket, DownloadTypes
        <3>3. \A p \in 1 .. Parts : get'[p] # "off" => p = 1 /\ get'[p] = "queued"
            BY <1>3, <2>1 DEF FindInBucket, DownloadTypes, RequestInv
        <3>4. RequestInv'
            BY <1>3, <1>w, <2>1, <3>1, <3>3 DEF FindInBucket, RequestInv
        <3>5. VerdictInv' /\ verdict' = "none"
            BY <1>3, <1>w, <2>1 DEF FindInBucket, VerdictInv
        <3> QED
            BY <2>1, <3>2, <3>4, <3>5
    <2> QED
        BY <1>3, <1>e, <2>1 DEF FindInBucket
<1>4. CASE CopyNext
    <2>1. PICK p \in Wanted :
            /\ \A o \in Wanted : o < p => target[o] # "none"
            /\ IF source[p] = "none" THEN Ends("missing")
               ELSE /\ target' = [target EXCEPT ![p] = source[p]]
                    /\ at' = IF \A o \in Wanted : o <= p THEN "checking" ELSE at
                    /\ UNCHANGED verdict
        BY <1>4 DEF CopyNext
    <2>2. CASE source[p] # "none"
        <3>1. /\ target' = [target EXCEPT ![p] = source[p]]
              /\ at' = IF \A o \in Wanted : o <= p THEN "checking" ELSE at
              /\ at = "fetching" /\ origin \in Folders
              /\ UNCHANGED <<verdict, origin, source, get>>
            BY <1>4, <2>1, <2>2 DEF CopyNext
        <3>2. DownloadTypes' /\ verdict' = "none" /\ origin' \notin Buckets /\ origin' # "mirrors"
            BY <1>w, <3>1, <2>2, Backends DEF DownloadTypes, VerdictInv
        <3>3. VerdictInv'
            BY <3>1, <3>2 DEF VerdictInv
        <3>4. RequestInv'
            BY <3>1, <3>2 DEF RequestInv, DownloadTypes
        <3>5. ASSUME at' = "checking"
              PROVE  \A o \in Wanted : target'[o] # "none"
            <4>1. \A o \in Wanted : o = p \/ o < p
                BY <1>w, <3>1, <3>5
            <4> QED
                BY <1>w, <2>1, <2>2, <3>1, <4>1 DEF DownloadTypes
        <3> QED
            BY <1>w, <3>1, <3>2, <3>3, <3>4, <3>5 DEF Complete
    <2> QED
        BY <1>4, <1>e, <2>1, <2>2 DEF CopyNext
<1>5. CASE NomadsSends
    <2>1. PICK c \in Contents : target' = [target EXCEPT ![1] = c]
        BY <1>5 DEF NomadsSends
    <2>2. /\ at = "fetching" /\ at' = "checking" /\ origin = "nomads"
          /\ UNCHANGED <<origin, source, get, verdict>>
        BY <1>5 DEF NomadsSends
    <2>3. DownloadTypes' /\ VerdictInv' /\ verdict' = "none"
        BY <1>w, <2>1, <2>2 DEF DownloadTypes, VerdictInv
    <2>4. RequestInv'
        BY <1>w, <2>2, Backends DEF RequestInv
    <2>5. Wanted = {1} /\ target'[1] # "none"
        BY <1>w, <2>1, <2>2, WantedIs, Backends DEF DownloadTypes, Contents, Unbroken
    <2> QED
        BY <1>w, <2>2, <2>3, <2>4, <2>5, Backends DEF Complete
<1>6. CASE NomadsRefuses
    BY <1>6, <1>e DEF NomadsRefuses, StatusVerdict
<1>7. CASE NomadsBreaks
    <2>1. PICK c \in Contents : target' = [target EXCEPT ![1] = c]
        BY <1>7 DEF NomadsBreaks
    <2>2. /\ at' = "ended" /\ verdict' = "transient" /\ origin = "nomads"
          /\ UNCHANGED <<origin, source, get>>
        BY <1>7 DEF NomadsBreaks
    <2>3. DownloadTypes' /\ VerdictInv'
        BY <1>w, <2>1, <2>2, Backends DEF DownloadTypes, VerdictInv
    <2>4. RequestInv'
        BY <1>w, <2>2, Backends DEF RequestInv
    <2> QED
        BY <2>2, <2>3, <2>4
<1>8. CASE AskMirror
    <2>1. CASE target' = [target EXCEPT ![1] = "whole"] /\ at' = "checking" /\ UNCHANGED verdict
        <3>1. at = "fetching" /\ origin = "mirrors" /\ UNCHANGED <<origin, source, get, verdict>>
            BY <1>8, <2>1 DEF AskMirror
        <3>2. DownloadTypes' /\ VerdictInv' /\ verdict' = "none"
            BY <1>w, <2>1, <3>1 DEF DownloadTypes, VerdictInv, Contents, Unbroken
        <3>3. RequestInv'
            BY <1>w, <2>1, <3>1, Backends DEF RequestInv
        <3>4. Wanted = {1} /\ target'[1] = "whole"
            BY <1>w, <2>1, <3>1, WantedIs, Backends DEF DownloadTypes
        <3> QED
            BY <1>w, <3>1, <3>2, <3>3, <3>4, Backends DEF Complete
    <2>2. CASE /\ \E c \in {"none", "cut"} : target' = [target EXCEPT ![1] = c]
               /\ UNCHANGED <<at, verdict>>
        <3>1. at = "fetching" /\ origin = "mirrors" /\ UNCHANGED <<origin, source, get, verdict>>
            BY <1>8, <2>2 DEF AskMirror
        <3>2. DownloadTypes' /\ VerdictInv' /\ verdict' = "none"
            BY <1>w, <2>2, <3>1 DEF DownloadTypes, VerdictInv, Contents, Unbroken
        <3>3. RequestInv'
            BY <1>w, <2>2, <3>1, Backends DEF RequestInv
        <3> QED
            BY <2>2, <3>1, <3>2, <3>3
    <2> QED
        BY <1>8, <1>e, <2>1, <2>2 DEF AskMirror
<1>9. CASE WalkEnds
    BY <1>9, <1>e DEF WalkEnds, WalkVerdict
<1>10. CASE Check
    <2>1. at = "checking" /\ verdict = "none" /\ UNCHANGED <<origin, source, get>>
        BY <1>10 DEF Check, VerdictInv
    <2>2. PICK v \in {"returned", "transient", "invalid"} :
            /\ Ends(v)
            /\ v = "returned" /\ origin \in Validated => target[1] = "whole"
        BY <1>10 DEF Check, Scanned
    <2>3. CASE v = "returned"
        <3>1. at' = "ended" /\ verdict' = "returned" /\ target' = target
            BY <2>2, <2>3 DEF Ends, Kept
        <3> QED
            BY <1>w, <2>1, <2>2, <2>3, <3>1 DEF DownloadTypes, VerdictInv, RequestInv, Complete
    <2>4. CASE v # "returned"
        <3>1. /\ target' \in [1 .. Parts -> Contents \cup {"none"}]
              /\ at' = "ended" /\ VerdictInv' /\ verdict' = v
            BY <2>1, <2>2, <2>4, GivesUp
        <3> QED
            BY <1>w, <2>1, <2>4, <3>1 DEF DownloadTypes, RequestInv
    <2> QED
        BY <2>3, <2>4
<1>11. CASE SourceMoves
    <2>1. PICK p \in Wanted, c \in Contents \cup {"none"} :
            /\ origin \in Folders \/ (origin \in Buckets /\ <<source[p], c>> \in ObjectMoves)
            /\ source' = [source EXCEPT ![p] = c]
        BY <1>11 DEF SourceMoves
    <2>2. UNCHANGED <<origin, at, verdict, target, get>>
        BY <1>11 DEF SourceMoves
    <2>3. DownloadTypes'
        BY <1>w, <2>1, <2>2 DEF DownloadTypes
    <2>4. origin \in Buckets => c \in {"none", "whole"}
        BY <2>1, Backends DEF ObjectMoves
    <2>5. RequestInv'
        BY <1>w, <2>1, <2>2, <2>4 DEF RequestInv, DownloadTypes, Unbroken
    <2> QED
        BY <1>w, <2>2, <2>3, <2>5 DEF VerdictInv, Complete
<1>12. ASSUME NEW p \in 1 .. Parts, GetOpens(p)
       PROVE  DownloadInv'
    <2>1. /\ get[p] = "queued" /\ UNCHANGED <<origin, source>>
          /\ origin \in Buckets /\ p \in Wanted /\ verdict # "returned"
          /\ at \in {"fetching", "ended"} /\ (at = "fetching" <=> verdict = "none")
        BY <1>12, Unfinished DEF GetOpens
    <2>2. CASE /\ Writable /\ get' = [get EXCEPT ![p] = "sending"]
               /\ target' = [target EXCEPT ![p] = "cut"] /\ UNCHANGED <<at, verdict>>
        <3>1. DownloadTypes' /\ VerdictInv'
            BY <1>w, <2>1, <2>2 DEF DownloadTypes, VerdictInv, Writable, Contents
        <3>2. RequestInv'
            BY <1>w, <2>1, <2>2 DEF RequestInv, DownloadTypes
        <3> QED
            BY <2>1, <2>2, <3>1, <3>2
    <2> QED
        BY <1>12, <2>1, <2>2, RequestFails DEF GetOpens
<1>13. ASSUME NEW p \in 1 .. Parts, GetArrives(p)
       PROVE  DownloadInv'
    <2>1. /\ get[p] = "sending" /\ source[p] # "none"
          /\ get' = [get EXCEPT ![p] = "done"]
          /\ target' = IF target[p] = "none" THEN target ELSE [target EXCEPT ![p] = source[p]]
          /\ at' = IF at = "fetching" /\ \A o \in Wanted \ {p} : get[o] = "done"
                   THEN "checking" ELSE at
          /\ UNCHANGED <<origin, source, verdict>>
        BY <1>13 DEF GetArrives
    <2>2. /\ origin \in Buckets /\ p \in Wanted /\ verdict # "returned"
          /\ at \in {"fetching", "ended"} /\ (at = "fetching" <=> verdict = "none")
        BY <2>1, Unfinished
    <2>3. /\ source[p] \in Unbroken /\ source[p] # "none"
          /\ at = "fetching" => target' = [target EXCEPT ![p] = source[p]]
        BY <2>1, <2>2 DEF RequestInv
    <2>4. DownloadTypes' /\ VerdictInv'
        BY <1>w, <2>1, <2>2 DEF DownloadTypes, VerdictInv
    <2>5. RequestInv'
        BY <1>w, <2>1, <2>2, <2>3 DEF RequestInv, DownloadTypes
    <2>6. ASSUME at' = "checking"
          PROVE  Complete'
        <3>1. at = "fetching" /\ \A o \in Wanted \ {p} : get[o] = "done"
            BY <2>1, <2>2, <2>6
        <3>2. \A o \in Wanted : get'[o] = "done" /\ target'[o] \in Unbroken
            BY <1>w, <2>1, <2>3, <3>1 DEF RequestInv, DownloadTypes
        <3> QED
            BY <1>w, <2>1, <2>2, <3>2, Backends DEF Complete, Unbroken
    <2> QED
        BY <2>1, <2>2, <2>4, <2>5, <2>6
<1>14. ASSUME NEW p \in 1 .. Parts, GetBreaks(p)
       PROVE  DownloadInv'
    <2>1. /\ get[p] = "sending" /\ UNCHANGED <<origin, source>>
          /\ \E g \in {"backoff", "failed"} : get' = [get EXCEPT ![p] = g]
        BY <1>14 DEF GetBreaks
    <2>2. /\ origin \in Buckets /\ p \in Wanted /\ verdict # "returned"
          /\ at \in {"fetching", "ended"} /\ (at = "fetching" <=> verdict = "none")
        BY <2>1, Unfinished
    <2>3. get' \in [1 .. Parts -> {"off", "queued", "sending", "backoff", "done", "failed"}]
        BY <2>1 DEF DownloadTypes
    <2>4. CASE UNCHANGED <<at, verdict>> /\ target' = [target EXCEPT ![p] = "none"]
        <3>1. DownloadTypes' /\ VerdictInv'
            BY <1>w, <2>1, <2>2, <2>3, <2>4 DEF DownloadTypes, VerdictInv
        <3>2. RequestInv'
            BY <1>w, <2>1, <2>2, <2>4 DEF RequestInv, DownloadTypes
        <3> QED
            BY <2>2, <2>4, <3>1, <3>2
    <2>5. CASE /\ at' = "ended" /\ verdict' = "failed"
               /\ target' = [Kept("failed") EXCEPT ![p] = "none"]
        <3>1. Kept("failed") \in [1 .. Parts -> Contents \cup {"none"}]
            BY DEF Kept, DownloadTypes
        <3>2. origin \in Windows => \A o \in 1 .. Parts : Kept("failed")[o] = "none"
            BY DEF Kept
        <3> HIDE DEF DownloadInv
        <3>3. DownloadTypes'
            BY <2>1, <2>3, <2>5, <3>1 DEF DownloadInv, DownloadTypes
        <3>4. VerdictInv'
            BY <1>w, <2>1, <2>5, <3>1, <3>2 DEF VerdictInv
        <3>5. RequestInv'
            BY <1>w, <2>1, <2>2, <2>5 DEF RequestInv, DownloadTypes, DownloadInv
        <3> QED
            BY <2>5, <3>3, <3>4, <3>5 DEF DownloadInv
    <2> QED
        BY <1>14, <2>4, <2>5 DEF GetBreaks
<1>15. ASSUME NEW p \in 1 .. Parts, GetAgain(p)
       PROVE  DownloadInv'
    <2>1. /\ get[p] = "backoff" /\ get' = [get EXCEPT ![p] = "queued"]
          /\ UNCHANGED <<origin, source, at, verdict, target>>
        BY <1>15 DEF GetAgain
    <2>2. /\ origin \in Buckets /\ p \in Wanted /\ verdict # "returned"
          /\ at \in {"fetching", "ended"}
        BY <2>1, Unfinished
    <2>3. DownloadTypes' /\ VerdictInv'
        BY <1>w, <2>1 DEF DownloadTypes, VerdictInv
    <2>4. RequestInv'
        BY <1>w, <2>1, <2>2 DEF RequestInv, DownloadTypes
    <2> QED
        BY <2>1, <2>2, <2>3, <2>4
<1>16. CASE UNCHANGED downloadvars
    BY <1>16 DEF downloadvars, DownloadTypes, VerdictInv, RequestInv, Complete, Wanted
<1> QED
    BY <1>1, <1>2, <1>3, <1>4, <1>5, <1>6, <1>7, <1>8, <1>9, <1>10, <1>11, <1>12, <1>13,
        <1>14, <1>15, <1>16 DEF DownloadNext

(* What a download hands on is whole as far as its backend can tell, and a *)
(* window that failed leaves nothing behind, whatever the requests that    *)
(* its gather left running still do.                                       *)
THEOREM DownloadsAreWhole == DownloadSpec => []AcceptedIsWhole
<1>1. DownloadInv => AcceptedIsWhole
    <2> SUFFICES ASSUME DownloadInv
                 PROVE  AcceptedIsWhole
        OBVIOUS
    <2>1. ASSUME origin \in Validated, verdict = "returned", NEW p \in Wanted
          PROVE  target[p] = "whole"
        BY <2>1, WantedIs, Backends DEF DownloadInv, VerdictInv
    <2> QED
        BY <2>1 DEF AcceptedIsWhole, DownloadInv, VerdictInv, Complete
<1> QED
    BY DownloadStart, DownloadStep, <1>1, PTL DEF DownloadSpec

(* What a verdict for good rests on: a body that lacks the magic bytes or  *)
(* ends with a message, a 4xx, a file missing from a folder.  A body       *)
(* broken off elsewhere, a 5xx and a mirror that was ill never lead to     *)
(* one, whatever the source does while it is read.                         *)
THEOREM VerdictsHaveCause == DownloadSpec => GivesUpForCause
<1> DEFINE Absent == \/ origin = "mirrors" /\ ~Answered("ill")
                     \/ origin = "nomads" /\ said' = <<"absent">>
                     \/ origin \in Forecasts /\ source[1] = "none"
           Invalid == \/ origin \in Validated /\ target[1] \in {"other", "edge", "stub"}
                      \/ origin = "nomads" /\ said' \in {<<"busy">>, <<"refused">>}
           Pruned  == origin \in Folders /\ \E p \in Wanted : source[p] = "none"
           Caused == /\ verdict' = "not_available" => Absent
                     /\ verdict' = "invalid" => Invalid
                     /\ verdict' = "missing" => Pruned
<1>1. ASSUME DownloadInv, [DownloadNext]_downloadvars, verdict' # verdict
      PROVE  Caused
    <2>1. CASE FindInFolder
        BY <1>1, <2>1, WantedIs DEF FindInFolder, Ends
    <2>2. CASE FindInBucket
        BY <1>1, <2>2 DEF FindInBucket, Ends, Forecasts
    <2>3. CASE CopyNext
        BY <1>1, <2>3 DEF CopyNext, Ends
    <2>4. CASE NomadsRefuses
        BY <2>4 DEF NomadsRefuses, Statuses, StatusVerdict, Ends
    <2>5. CASE AskMirror
        BY <1>1, <2>5 DEF AskMirror, Ends
    <2>6. CASE WalkEnds
        BY <2>6 DEF WalkEnds, Ends, WalkVerdict
    <2>7. CASE Check
        <3>1. target[1] \in Contents
            BY <1>1, <2>7, WantedIs DEF Check, DownloadInv, DownloadTypes, Complete
        <3>2. verdict' = IF origin \in Validated THEN Scanned(target[1]) ELSE "returned"
            BY <2>7 DEF Check, Ends
        <3> QED
            BY <3>1, <3>2 DEF Scanned, Contents, Unbroken
    <2>8. ASSUME NEW p \in 1 .. Parts, GetOpens(p) \/ GetArrives(p) \/ GetBreaks(p) \/ GetAgain(p)
          PROVE  verdict' = "failed"
        BY <1>1, <2>8 DEF GetOpens, GetFails, GetArrives, GetBreaks, GetAgain, Ends
    <2>9. CASE NomadsSends \/ NomadsBreaks
        BY <1>1, <2>9 DEF NomadsSends, NomadsBreaks
    <2> QED
        BY <1>1, <2>1, <2>2, <2>3, <2>4, <2>5, <2>6, <2>7, <2>8, <2>9
        DEF DownloadNext, Begin, SourceMoves, downloadvars
<1>2. DownloadInv /\ [DownloadNext]_downloadvars => [verdict' # verdict => Caused]_downloadvars
    BY <1>1
<1> QED
    BY DownloadStart, DownloadStep, <1>2, PTL DEF DownloadSpec, GivesUpForCause

-----------------------------------------------------------------------------
(* The metrics table.  A job that was recorded is recorded once, and what  *)
(* an import has found missing stays missing while it is alone; the row a  *)
(* prune has found stays, with at least as many rows after it.             *)

TableInv ==
    /\ rows \in [Ids -> Jobs] /\ Ids \subseteq 1 .. MaxId
    /\ recorded \subseteq Jobs
    /\ Range(rows) \subseteq recorded
    /\ backup \subseteq recorded /\ IsFiniteSet(backup)
    /\ importing \in [Importers -> Seq(SUBSET Jobs)]
    /\ \A m \in Underway : importing[m][1] \subseteq recorded /\ IsFiniteSet(importing[m][1])
    /\ overlap \in BOOLEAN

PruneInv ==
    cut # 0 => cut \in Ids /\ Cardinality({j \in Ids : j > cut}) >= MaxRows - 1

ImportInv ==
    ~overlap =>
        /\ IsInjective(rows)
        /\ \A m, n \in Underway : m = n
        /\ \A m \in Underway : importing[m][1] \cap Range(rows) = {}

MetricsInv == TableInv /\ PruneInv /\ ImportInv

LEMMA MaxExists ==
    ASSUME NEW bound \in Nat, NEW S \in SUBSET (1 .. bound), S # {}
    PROVE  Max(S) \in S /\ \A x \in S : x <= Max(S)
<1> DEFINE Gaps == {bound - x : x \in S}
<1>1. Gaps \subseteq Nat /\ Gaps # {}
    <2>1. PICK x : x \in S
        OBVIOUS
    <2>2. bound - x \in Gaps
        BY <2>1
    <2>3. \A y \in S : y \in 1 .. bound /\ bound - y \in Nat
        OBVIOUS
    <2> QED
        BY <2>2, <2>3
<1>2. PICK g \in Gaps : \A h \in Gaps : ~ (<<h, g>> \in OpToRel(<, Nat))
    <2> HIDE DEF Gaps
    <2> QED
        BY <1>1, NatLessThanWellFounded, WFMin
<1>3. \A h \in Gaps : ~ (h < g)
    BY <1>1, <1>2 DEF OpToRel
<1>4. PICK m \in S : g = bound - m
    OBVIOUS
<1>5. \A x \in S : m >= x
    <2> SUFFICES ASSUME NEW x \in S
                 PROVE  m >= x
        OBVIOUS
    <2>1. bound - x \in Gaps
        OBVIOUS
    <2>2. ~ (bound - x < bound - m)
        BY <1>3, <1>4, <2>1
    <2> QED
        BY <2>2
<1>6. \E y \in S : \A x \in S : y >= x
    BY <1>5
<1>7. Max(S) \in S /\ \A x \in S : Max(S) >= x
    BY <1>6 DEF Max
<1> QED
    BY <1>7

(* The rows of a batch come after all others, one for each of its jobs.    *)
LEMMA InsertAppends ==
    ASSUME TableInv, NEW S \in SUBSET Jobs, IsFiniteSet(S), Fits(Cardinality(S)), Insert(S)
    PROVE  /\ rows' \in [DOMAIN rows' -> Jobs] /\ DOMAIN rows' \subseteq 1 .. MaxId
           /\ Ids \subseteq DOMAIN rows'
           /\ Range(rows') = Range(rows) \cup S
           /\ IsInjective(rows) /\ S \cap Range(rows) = {} => IsInjective(rows')
<1> USE MetricsAssumption
<1> DEFINE New == NewId .. NewId + Cardinality(S) - 1
<1>1. Cardinality(S) \in Nat
    BY FS_CardinalityType
<1>2. NewId \in Nat \ {0} /\ \A i \in Ids : i < NewId
    <2>1. CASE Ids = {}
        BY <2>1 DEF NewId
    <2>2. CASE Ids # {}
        <3>1. Max(Ids) \in Ids /\ \A i \in Ids : i <= Max(Ids)
            BY <2>2, MaxExists DEF TableInv
        <3> QED
            BY <2>2, <3>1 DEF NewId, TableInv
    <2> QED
        BY <2>1, <2>2
<1>3. New \subseteq 1 .. MaxId /\ Ids \cap New = {}
    BY <1>1, <1>2 DEF Fits, TableInv
<1>4. PICK batch \in Bijection(New, S) :
        rows' = [i \in Ids \cup DOMAIN batch |-> IF i \in Ids THEN rows[i] ELSE batch[i]]
    BY DEF Insert
<1> HIDE DEF New
<1>5. /\ batch \in [New -> S]
      /\ \A i, k \in New : batch[i] = batch[k] => i = k
      /\ \A s \in S : \E i \in New : batch[i] = s
    BY DEF Bijection, Injection, Surjection, IsInjective
<1>6. rows' = [i \in Ids \cup New |-> IF i \in Ids THEN rows[i] ELSE batch[i]]
    BY <1>4, <1>5
<1>7. /\ DOMAIN rows' = Ids \cup New
      /\ \A i \in Ids : rows'[i] = rows[i]
      /\ \A i \in New : rows'[i] = batch[i]
    BY <1>3, <1>6
<1>8. rows' \in [DOMAIN rows' -> Jobs]
    BY <1>5, <1>6 DEF TableInv
<1>9. Range(rows') = Range(rows) \cup S
    <2>1. Range(rows') = {rows'[i] : i \in Ids \cup New} /\ Range(rows) = {rows[i] : i \in Ids}
        BY <1>7 DEF Range, Ids
    <2>2. \A s \in S : \E i \in Ids \cup New : rows'[i] = s
        BY <1>5, <1>7
    <2>3. \A i \in Ids \cup New : rows'[i] \in Range(rows) \cup S
        BY <1>5, <1>7, <2>1
    <2>4. \A r \in Range(rows) : \E i \in Ids \cup New : rows'[i] = r
        BY <1>7, <2>1
    <2> QED
        BY <2>1, <2>2, <2>3, <2>4
<1>10. ASSUME IsInjective(rows), S \cap Range(rows) = {}
       PROVE  IsInjective(rows')
    <2> SUFFICES ASSUME NEW i \in Ids \cup New, NEW k \in Ids \cup New, rows'[i] = rows'[k]
                 PROVE  i = k
        BY <1>7 DEF IsInjective
    <2>1. ASSUME NEW a \in Ids, NEW b \in New
          PROVE  rows'[a] # rows'[b]
        <3>1. rows'[a] \in Range(rows)
            BY <1>7 DEF Range, Ids
        <3>2. rows'[b] \in S
            BY <1>5, <1>7
        <3> QED
            BY <1>10, <3>1, <3>2
    <2>2. CASE i \in Ids /\ k \in Ids
        BY <1>7, <1>10, <2>2 DEF IsInjective, Ids
    <2>3. CASE i \in New /\ k \in New
        BY <1>5, <1>7, <2>3
    <2> QED
        BY <2>1, <2>2, <2>3
<1> QED
    BY <1>3, <1>7, <1>8, <1>9, <1>10 DEF TableInv

LEMMA IdsFinite ==
    ASSUME NEW S \in SUBSET (1 .. MaxId)
    PROVE  IsFiniteSet(S) /\ Cardinality(S) \in Nat
<1>1. IsFiniteSet(1 .. MaxId)
    BY FS_Interval, MetricsAssumption
<1> QED
    BY <1>1, FS_Subset, FS_CardinalityType

(* New rows only add to those after the row a prune has found. *)
LEMMA PruneInvKept ==
    ASSUME TableInv, PruneInv, cut' = cut, Ids \subseteq DOMAIN rows',
           DOMAIN rows' \subseteq 1 .. MaxId
    PROVE  PruneInv'
<1>1. CASE cut = 0
    BY <1>1 DEF PruneInv
<1>2. CASE cut # 0
    <2> DEFINE Old == {j \in Ids : j > cut}
               All == {j \in DOMAIN rows' : j > cut}
    <2>1. IsFiniteSet(All) /\ Cardinality(All) \in Nat /\ Cardinality(Old) \in Nat
        BY IdsFinite DEF TableInv
    <2>2. Cardinality(Old) <= Cardinality(All)
        BY <2>1, FS_Subset
    <2>3. Cardinality(Old) >= MaxRows - 1 /\ cut \in Ids
        BY <1>2 DEF PruneInv
    <2> HIDE DEF Old
    <2>4. Cardinality(All) >= MaxRows - 1
        BY <2>1, <2>2, <2>3, MetricsAssumption
    <2> QED
        BY <2>3, <2>4 DEF PruneInv, Ids
<1> QED
    BY <1>1, <1>2

LEMMA MetricsStart == MetricsInit => MetricsInv
<1> SUFFICES ASSUME MetricsInit
             PROVE  MetricsInv
    OBVIOUS
<1>1. Ids = {} /\ Range(rows) = {} /\ IsInjective(rows)
    BY DEF MetricsInit, Ids, Range, IsInjective
<1>2. rows \in [Ids -> Jobs]
    BY <1>1 DEF MetricsInit, Ids
<1>3. Underway = {}
    BY DEF MetricsInit, Underway
<1>4. importing \in [Importers -> Seq(SUBSET Jobs)]
    BY DEF MetricsInit
<1>5. TableInv
    BY <1>1, <1>2, <1>3, <1>4, FS_EmptySet DEF MetricsInit, TableInv
<1> QED
    BY <1>1, <1>3, <1>5 DEF MetricsInit, MetricsInv, PruneInv, ImportInv

LEMMA MetricsStep == MetricsInv /\ [MetricsNext]_metricsvars => MetricsInv'
<1> SUFFICES ASSUME MetricsInv, [MetricsNext]_metricsvars
             PROVE  MetricsInv'
    OBVIOUS
<1> USE DEF MetricsInv
<1>1. ASSUME NEW j \in Jobs, Record(j)
      PROVE  MetricsInv'
    <2>1. /\ j \notin recorded /\ recorded' = recorded \cup {j}
          /\ UNCHANGED <<cut, backup, importing, overlap>>
        BY <1>1 DEF Record
    <2>2. Underway' = Underway /\ j \notin Range(rows)
        BY <2>1 DEF Underway, TableInv
    <2>3. \E S \in SUBSET {j} :
            /\ rows' \in [DOMAIN rows' -> Jobs] /\ DOMAIN rows' \subseteq 1 .. MaxId
            /\ Ids \subseteq DOMAIN rows'
            /\ Range(rows') = Range(rows) \cup S
            /\ IsInjective(rows) => IsInjective(rows')
        <3>1. CASE Fits(1) /\ Insert({j})
            <4>1. IsFiniteSet({j}) /\ Cardinality({j}) = 1 /\ {j} \in SUBSET Jobs
                BY FS_Singleton
            <4>2. Fits(Cardinality({j})) /\ Insert({j})
                BY <3>1, <4>1
            <4>3. /\ rows' \in [DOMAIN rows' -> Jobs] /\ DOMAIN rows' \subseteq 1 .. MaxId
                  /\ Ids \subseteq DOMAIN rows'
                  /\ Range(rows') = Range(rows) \cup {j}
                  /\ IsInjective(rows) => IsInjective(rows')
                BY <2>2, <4>1, <4>2, InsertAppends
            <4> QED
                BY <4>3
        <3>2. CASE UNCHANGED rows
            <4>1. /\ rows' \in [DOMAIN rows' -> Jobs] /\ DOMAIN rows' \subseteq 1 .. MaxId
                  /\ Ids \subseteq DOMAIN rows'
                  /\ Range(rows') = Range(rows) \cup {}
                  /\ IsInjective(rows) => IsInjective(rows')
                BY <3>2 DEF TableInv, Ids
            <4> WITNESS {} \in SUBSET {j}
            <4> QED
                BY <4>1
        <3> QED
            BY <1>1, <3>1, <3>2 DEF Record
    <2>4. TableInv'
        BY <2>1, <2>2, <2>3 DEF TableInv, Ids
    <2>5. PruneInv'
        BY <2>1, <2>3, PruneInvKept
    <2>6. ImportInv'
        <3>1. \A m \in Underway : j \notin importing[m][1]
            BY <2>1 DEF TableInv
        <3> QED
            BY <2>1, <2>2, <2>3, <3>1 DEF ImportInv
    <2> QED
        BY <2>4, <2>5, <2>6
<1>2. CASE PruneSelect
    <2>1. PICK i \in Ids : Cardinality({k \in Ids : k > i}) = MaxRows - 1 /\ cut' = i
        BY <1>2 DEF PruneSelect
    <2>2. UNCHANGED <<rows, recorded, backup, importing, overlap>>
        BY <1>2 DEF PruneSelect
    <2>3. PruneInv'
        <3>1. Ids' = Ids
            BY <2>2 DEF Ids
        <3> QED
            BY <2>1, <3>1, MetricsAssumption DEF PruneInv
    <2>4. TableInv' /\ ImportInv'
        BY <2>2 DEF TableInv, ImportInv, Ids, Underway
    <2> QED
        BY <2>3, <2>4
<1>3. CASE PruneDelete
    <2>1. /\ rows' = [i \in Ids \ Doomed |-> rows[i]] /\ cut' = 0
          /\ UNCHANGED <<recorded, backup, importing, overlap>>
        BY <1>3 DEF PruneDelete, Restrict
    <2>2. /\ DOMAIN rows' = Ids \ Doomed
          /\ \A i \in Ids \ Doomed : rows'[i] = rows[i]
        BY <2>1
    <2>3. rows' \in [Ids' -> Jobs] /\ Ids' \subseteq Ids
        BY <2>1, <2>2 DEF TableInv, Ids
    <2>4. Range(rows') \subseteq Range(rows)
        BY <2>2 DEF Range, Ids
    <2>5. IsInjective(rows) => IsInjective(rows')
        BY <2>2 DEF IsInjective, Ids
    <2>6. Underway' = Underway
        BY <2>1 DEF Underway
    <2>7. TableInv'
        BY <2>1, <2>3, <2>4, <2>6 DEF TableInv
    <2>8. ImportInv'
        BY <2>1, <2>4, <2>5, <2>6 DEF ImportInv
    <2> QED
        BY <2>1, <2>7, <2>8 DEF PruneInv
<1>4. CASE Export
    <2>1. backup' = Range(rows) /\ UNCHANGED <<rows, recorded, cut, importing, overlap>>
        BY <1>4 DEF Export
    <2>2. IsFiniteSet(Range(rows))
        <3>1. rows \in Surjection(Ids, Range(rows))
            BY DEF Surjection, Range, TableInv, Ids
        <3> QED
            BY <3>1, IdsFinite, FS_Surjection DEF TableInv
    <2>3. Underway' = Underway /\ Ids' = Ids
        BY <2>1 DEF Underway, Ids
    <2> QED
        BY <2>1, <2>2, <2>3 DEF TableInv, PruneInv, ImportInv
<1>5. ASSUME NEW m \in Importers, ImportRead(m)
      PROVE  MetricsInv'
    <2>1. /\ importing[m] = <<>>
          /\ importing' = [importing EXCEPT ![m] = <<Missing(backup)>>]
          /\ overlap' = (overlap \/ Underway # {})
          /\ UNCHANGED <<rows, recorded, cut, backup>>
        BY <1>5 DEF ImportRead
    <2> DEFINE Lost == Missing(backup)
    <2>2. /\ Lost \subseteq recorded /\ IsFiniteSet(Lost) /\ Lost \cap Range(rows) = {}
          /\ Lost \in SUBSET Jobs
        BY FS_Subset DEF Missing, TableInv
    <2> HIDE DEF Lost
    <2>3. importing' = [n \in Importers |-> IF n = m THEN <<Lost>> ELSE importing[n]]
        BY <2>1 DEF TableInv, Lost
    <2>4. importing' \in [Importers -> Seq(SUBSET Jobs)]
        <3>1. <<Lost>> \in Seq(SUBSET Jobs)
            BY <2>2
        <3> QED
            BY <2>3, <3>1 DEF TableInv
    <2>5. /\ Underway' = Underway \cup {m}
          /\ importing'[m][1] = Lost
          /\ \A n \in Underway : importing'[n] = importing[n]
        BY <2>1, <2>3 DEF Underway
    <2>6. Ids' = Ids
        BY <2>1 DEF Ids
    <2>7. TableInv'
        BY <2>1, <2>2, <2>4, <2>5, <2>6 DEF TableInv
    <2>8. ImportInv'
        BY <2>1, <2>2, <2>5 DEF ImportInv, TableInv
    <2> QED
        BY <2>1, <2>6, <2>7, <2>8 DEF PruneInv
<1>6. ASSUME NEW m \in Importers, ImportWrite(m)
      PROVE  MetricsInv'
    <2> DEFINE S == importing[m][1]
    <2>1. /\ m \in Underway /\ importing' = [importing EXCEPT ![m] = <<>>]
          /\ UNCHANGED <<recorded, cut, backup, overlap>>
        BY <1>6 DEF ImportWrite
    <2>2. S \subseteq recorded /\ IsFiniteSet(S) /\ S \in SUBSET Jobs
        BY <2>1 DEF TableInv
    <2>3. \E T \in SUBSET S :
            /\ rows' \in [DOMAIN rows' -> Jobs] /\ DOMAIN rows' \subseteq 1 .. MaxId
            /\ Ids \subseteq DOMAIN rows'
            /\ Range(rows') = Range(rows) \cup T
            /\ IsInjective(rows) /\ S \cap Range(rows) = {} => IsInjective(rows')
        <3> HIDE DEF S
        <3>1. CASE Fits(Cardinality(S)) /\ Insert(S)
            BY <2>2, <3>1, InsertAppends
        <3>2. CASE UNCHANGED rows
            <4>1. /\ rows' \in [DOMAIN rows' -> Jobs] /\ DOMAIN rows' \subseteq 1 .. MaxId
                  /\ Ids \subseteq DOMAIN rows'
                  /\ Range(rows') = Range(rows) \cup {}
                  /\ IsInjective(rows) => IsInjective(rows')
                BY <3>2 DEF TableInv, Ids
            <4> WITNESS {} \in SUBSET S
            <4> QED
                BY <4>1
        <3> QED
            BY <1>6, <3>1, <3>2 DEF ImportWrite, S
    <2> HIDE DEF S
    <2>4. importing' = [n \in Importers |-> IF n = m THEN <<>> ELSE importing[n]]
        BY <2>1 DEF TableInv
    <2>5. importing' \in [Importers -> Seq(SUBSET Jobs)]
        BY <2>4 DEF TableInv
    <2>6. /\ Underway' = Underway \ {m}
          /\ \A n \in Underway \ {m} : importing'[n] = importing[n]
        BY <2>4 DEF Underway
    <2>7. TableInv'
        BY <2>1, <2>2, <2>3, <2>5, <2>6 DEF TableInv, Ids
    <2>8. PruneInv'
        BY <2>1, <2>3, PruneInvKept
    <2>9. ImportInv'
        BY <2>1, <2>3, <2>6 DEF ImportInv, S
    <2> QED
        BY <2>7, <2>8, <2>9
<1>7. CASE UNCHANGED metricsvars
    BY <1>7 DEF metricsvars, TableInv, PruneInv, ImportInv, Ids, Underway
<1> QED
    BY <1>1, <1>2, <1>3, <1>4, <1>5, <1>6, <1>7 DEF MetricsNext

(* Until two imports overlap no job has two rows, whatever is recorded,    *)
(* pruned, exported and imported in between.                               *)
THEOREM ImportsAreOnce == MetricsSpec => []ImportsAddNoDuplicate
<1>1. MetricsInv => ImportsAddNoDuplicate
    BY DEF MetricsInv, ImportInv, ImportsAddNoDuplicate, IsInjective, Ids
<1> QED
    BY MetricsStart, MetricsStep, <1>1, PTL DEF MetricsSpec

(* Whatever is inserted between the two statements of a prune, it never    *)
(* takes one of the newest rows.                                           *)
THEOREM PruneTakesOldest == MetricsSpec => PruneKeepsNewest
<1>1. ASSUME MetricsInv, [MetricsNext]_metricsvars, NEW i \in Ids \ DOMAIN rows'
      PROVE  Cardinality({j \in Ids : j > i}) >= MaxRows
    <2>1. PruneDelete
        <3>1. ASSUME NEW S \in SUBSET Jobs, Insert(S)
              PROVE  FALSE
            BY <1>1, <3>1 DEF Insert
        <3>2. \A m \in Underway : importing[m][1] \in SUBSET Jobs
            BY <1>1 DEF MetricsInv, TableInv
        <3> QED
            BY <1>1, <3>1, <3>2 DEF MetricsNext, Record, PruneSelect, Export, ImportRead,
                ImportWrite, metricsvars, Ids
    <2>2. cut \in Ids /\ i < cut
        <3>1. DOMAIN rows' = Ids \ Doomed
            BY <2>1 DEF PruneDelete, Restrict
        <3> QED
            BY <1>1, <2>1, <3>1 DEF PruneDelete, Doomed, MetricsInv, PruneInv
    <2> DEFINE After == {j \in Ids : j > cut}
    <2>3. Ids \subseteq 1 .. MaxId /\ Cardinality(After) >= MaxRows - 1
        BY <1>1, <2>1 DEF PruneDelete, MetricsInv, PruneInv, TableInv
    <2>4. IsFiniteSet(After) /\ Cardinality(After) \in Nat
        BY <2>3, IdsFinite
    <2>5. cut \notin After /\ After \cup {cut} \subseteq {j \in Ids : j > i}
        <3>1. i \in Nat /\ cut \in Nat /\ \A j \in Ids : j \in Nat
            BY <1>1, <2>2, <2>3
        <3>2. \A j \in Ids : j > cut => j > i
            BY <2>2, <3>1
        <3>3. cut \notin After
            BY <3>1
        <3>4. \A j \in After \cup {cut} : j \in Ids /\ j > i
            BY <2>2, <3>1, <3>2
        <3> QED
            BY <3>3, <3>4
    <2>6. Cardinality(After \cup {cut}) = Cardinality(After) + 1
        BY <2>4, <2>5, FS_AddElement
    <2>7. /\ IsFiniteSet({j \in Ids : j > i})
          /\ Cardinality({j \in Ids : j > i}) \in Nat
        BY <2>3, IdsFinite
    <2>8. Cardinality(After \cup {cut}) <= Cardinality({j \in Ids : j > i})
        BY <2>5, <2>7, FS_Subset
    <2> HIDE DEF After
    <2> QED
        BY <2>3, <2>4, <2>6, <2>7, <2>8, MetricsAssumption
<1>2. MetricsInv /\ [MetricsNext]_metricsvars
        => [\A i \in Ids \ DOMAIN rows' :
              Cardinality({j \in Ids : j > i}) >= MaxRows]_metricsvars
    BY <1>1
<1> QED
    BY MetricsStart, MetricsStep, <1>2, PTL DEF MetricsSpec, PruneKeepsNewest

-----------------------------------------------------------------------------
(* S3.  For any operations, files, slots and loops one client is made per  *)
(* profile and loop, requests go out on it, and what a caller is told is   *)
(* what happened.                                                          *)

Requesting == {"ready", "sending", "gathering", "backoff"}

ClientTypes ==
    /\ Loops \in Nat /\ loop \in 1..Loops /\ closing \in {"no", "closed"}
    /\ client \in [Profiles -> 0..Loops]
    /\ made \in [Profiles \X (1..Loops) -> Nat]
    /\ lock \in [Profiles -> SUBSET Ops]
    /\ pc \in [Ops -> Pcs]

(* Only the holder of a profile's lock makes a client, and only where none *)
(* was made on this loop.                                                  *)
MakerAlone ==
    \A o \in Ops : pc[o] = "creating" =>
        lock[Profile(o)] = {o} /\ made[<<Profile(o), loop>>] = 0

(* The cached client of this loop is open; without one none was made on    *)
(* it, unless aclose has taken it; and none was made on a later loop.      *)
CacheIsTrue ==
    \A p \in Profiles :
        /\ client[p] \in 0..loop
        /\ client[p] = loop => <<p, loop>> \in open
        /\ closing = "no" /\ client[p] # loop => made[<<p, loop>>] = 0
        /\ \A l \in 1..Loops : l > loop => made[<<p, l>>] = 0

ClosedIsSettled == closing = "closed" => Settled

ClientInv ==
    /\ ClientTypes /\ MakerAlone /\ CacheIsTrue /\ ClosedIsSettled
    /\ OneClientPerLoop /\ RequestsOnOwnClient

-----------------------------------------------------------------------------
LEMMA ProfileType == ASSUME NEW o \in Ops PROVE Profile(o) \in Profiles
    BY DEF Profile, Profiles

LEMMA ClientInit == S3Init => ClientInv
<1> SUFFICES ASSUME S3Init PROVE ClientInv
    OBVIOUS
<1>1. ClientTypes
    BY S3Assumption DEF S3Init, ClientTypes, Pcs
<1>2. MakerAlone /\ CacheIsTrue /\ ClosedIsSettled
    BY S3Assumption DEF S3Init, MakerAlone, CacheIsTrue, ClosedIsSettled, Settled
<1>3. OneClientPerLoop /\ RequestsOnOwnClient
    BY S3Assumption DEF S3Init, OneClientPerLoop, RequestsOnOwnClient
<1> QED
    BY <1>1, <1>2, <1>3 DEF ClientInv

(* What an operation does without the lock: it may begin to wait for it,   *)
(* or to send if there is a client, and does nothing else with clients.    *)
Quiet(o) ==
    /\ UNCHANGED <<loop, closing, client, made, open, lock>>
    /\ closing = "no"
    /\ \E to \in Pcs \ {"creating"} :
        /\ pc' = [pc EXCEPT ![o] = to]
        /\ to \in Requesting => client[Profile(o)] = loop
    /\ pc[o] # "creating"

LEMMA QuietKeeps ==
    ASSUME ClientInv, NEW o \in Ops, Quiet(o)
    PROVE  ClientInv'
<1> USE DEF ClientInv, Quiet
<1>1. ClientTypes'
    BY DEF ClientTypes
<1>2. MakerAlone'
    BY DEF MakerAlone, ClientTypes
<1>3. CacheIsTrue' /\ ClosedIsSettled' /\ OneClientPerLoop'
    BY DEF CacheIsTrue, ClosedIsSettled, OneClientPerLoop, ClientTypes
<1>4. RequestsOnOwnClient'
    BY ProfileType DEF RequestsOnOwnClient, CacheIsTrue, ClientTypes, Requesting
<1> QED
    BY <1>1, <1>2, <1>3, <1>4

(* While somebody waits, makes or requests, aclose has not been called.    *)
LEMMA RunningIsOpen ==
    ASSUME ClientInv, NEW o \in Ops,
           pc[o] \notin {"new", "true", "false", "raised"}
    PROVE  closing = "no"
    BY DEF ClientInv, ClientTypes, ClosedIsSettled, Settled

LEMMA OperationIsQuiet ==
    ASSUME ClientInv, NEW o \in Ops,
           \/ Start(o) \/ OpenFile(o) \/ Downloaded(o) \/ DownloadFails(o) \/ BackedOff(o)
           \/ Gather(o) \/ Gathered(o) \/ Put(o) \/ PutAnswered(o) \/ PutRaises(o)
    PROVE  Quiet(o)
<1>1. CASE Start(o)
    BY <1>1 DEF Start, Goes, Cached, Quiet, clients, Pcs, Requesting
<1>2. CASE OpenFile(o) \/ Gather(o) \/ Put(o)
    BY <1>2, RunningIsOpen
       DEF OpenFile, Gather, Put, Goes, Quiet, clients, Pcs, ClientInv, RequestsOnOwnClient
<1>3. CASE Downloaded(o) \/ Gathered(o) \/ PutAnswered(o) \/ PutRaises(o)
    BY <1>3, RunningIsOpen
       DEF Downloaded, Gathered, PutAnswered, PutRaises, Goes, Quiet, clients, Pcs, Requesting
<1>4. CASE DownloadFails(o) \/ BackedOff(o)
    BY <1>4, RunningIsOpen
       DEF DownloadFails, BackedOff, Goes, Quiet, clients, Pcs, ClientInv, RequestsOnOwnClient
<1> QED
    BY <1>1, <1>2, <1>3, <1>4

-----------------------------------------------------------------------------
LEMMA LockKeeps ==
    ASSUME ClientInv, NEW o \in Ops, Lock(o)
    PROVE  ClientInv'
<1> DEFINE p == Profile(o)
<1>p. p \in Profiles /\ closing = "no"
    BY ProfileType, RunningIsOpen DEF Lock
<1>1. CASE Cached(p)
    <2>1. Quiet(o)
        BY <1>1, <1>p DEF Lock, Goes, Cached, Quiet, Pcs, Requesting
    <2> QED
        BY <2>1, QuietKeeps
<1>2. CASE ~Cached(p)
    <2> USE <1>2, <1>p DEF ClientInv, Lock, Goes, Cached
    <2>1. ClientTypes'
        BY DEF ClientTypes, Pcs
    <2>2. MakerAlone'
        BY ProfileType DEF MakerAlone, CacheIsTrue, ClientTypes
    <2>3. CacheIsTrue'
        BY DEF CacheIsTrue, ClientTypes
    <2>4. ClosedIsSettled' /\ OneClientPerLoop'
        BY DEF ClosedIsSettled, OneClientPerLoop
    <2>5. RequestsOnOwnClient'
        BY ProfileType DEF RequestsOnOwnClient, ClientTypes
    <2> QED
        BY <2>1, <2>2, <2>3, <2>4, <2>5
<1> QED
    BY <1>1, <1>2

LEMMA CreatedKeeps ==
    ASSUME ClientInv, NEW o \in Ops, Created(o)
    PROVE  ClientInv'
<1> DEFINE p == Profile(o)
<1>p. p \in Profiles /\ closing = "no"
    BY ProfileType, RunningIsOpen DEF Created
<1>n. made[<<p, loop>>] = 0 /\ lock[p] = {o}
    BY DEF ClientInv, MakerAlone, Created
<1> USE <1>p, <1>n DEF ClientInv, Created, Goes
<1>1. ClientTypes'
    BY DEF ClientTypes, Pcs
<1>2. MakerAlone'
    BY ProfileType DEF MakerAlone, ClientTypes
<1>3. CacheIsTrue'
    BY DEF CacheIsTrue, ClientTypes
<1>4. ClosedIsSettled' /\ OneClientPerLoop'
    BY DEF ClosedIsSettled, OneClientPerLoop, ClientTypes
<1>5. RequestsOnOwnClient'
    BY ProfileType DEF RequestsOnOwnClient, ClientTypes
<1> QED
    BY <1>1, <1>2, <1>3, <1>4, <1>5

LEMMA CreateFailsKeeps ==
    ASSUME ClientInv, NEW o \in Ops, CreateFails(o)
    PROVE  ClientInv'
<1>p. Profile(o) \in Profiles /\ closing = "no"
    BY ProfileType, RunningIsOpen DEF CreateFails
<1> USE <1>p DEF ClientInv, CreateFails, Goes
<1>1. ClientTypes'
    BY DEF ClientTypes, Pcs
<1>2. MakerAlone'
    BY ProfileType DEF MakerAlone, ClientTypes
<1>3. CacheIsTrue' /\ ClosedIsSettled' /\ OneClientPerLoop'
    BY DEF CacheIsTrue, ClosedIsSettled, OneClientPerLoop, ClientTypes
<1>4. RequestsOnOwnClient'
    BY DEF RequestsOnOwnClient, ClientTypes
<1> QED
    BY <1>1, <1>2, <1>3, <1>4

LEMMA AcloseKeeps ==
    ASSUME ClientInv, Aclose
    PROVE  ClientInv'
<1> USE DEF ClientInv, Aclose
<1>1. ClientTypes'
    BY DEF ClientTypes
<1>2. MakerAlone' /\ RequestsOnOwnClient'
    BY DEF MakerAlone, RequestsOnOwnClient, Settled
<1>3. CacheIsTrue'
    BY DEF CacheIsTrue, ClientTypes
<1>4. ClosedIsSettled' /\ OneClientPerLoop'
    BY DEF ClosedIsSettled, Settled, OneClientPerLoop
<1> QED
    BY <1>1, <1>2, <1>3, <1>4

LEMMA NextLoopKeeps ==
    ASSUME ClientInv, NextLoop
    PROVE  ClientInv'
<1> USE DEF ClientInv, NextLoop
<1>1. ClientTypes'
    BY DEF ClientTypes, Pcs
<1>2. MakerAlone' /\ RequestsOnOwnClient'
    BY DEF MakerAlone, RequestsOnOwnClient
<1>3. CacheIsTrue'
    <2>1. loop \in Nat /\ loop' = loop + 1 /\ loop' \in 1..Loops
        BY DEF ClientTypes
    <2>2. \A p \in Profiles : client[p] \in 0..loop
        BY DEF CacheIsTrue
    <2>3. \A p \in Profiles, l \in 1..Loops : l > loop => made[<<p, l>>] = 0
        BY DEF CacheIsTrue
    <2>4. client' = client /\ made' = made
        OBVIOUS
    <2> HIDE DEF NextLoop, ClientInv
    <2> QED
        BY <2>1, <2>2, <2>3, <2>4 DEF CacheIsTrue
<1>4. ClosedIsSettled' /\ OneClientPerLoop'
    BY DEF ClosedIsSettled, OneClientPerLoop
<1> QED
    BY <1>1, <1>2, <1>3, <1>4

LEMMA ElsewhereKeeps ==
    ASSUME ClientInv, UNCHANGED <<loop, clients, pc>>
    PROVE  ClientInv'
    BY DEF ClientInv, clients, ClientTypes, MakerAlone, CacheIsTrue, ClosedIsSettled,
           Settled, OneClientPerLoop, RequestsOnOwnClient

LEMMA ClientNext == ClientInv /\ [S3Next]_s3vars => ClientInv'
<1> SUFFICES ASSUME ClientInv, [S3Next]_s3vars PROVE ClientInv'
    OBVIOUS
<1>1. ASSUME NEW o \in Ops, GetClient(o) PROVE ClientInv'
    BY <1>1, OperationIsQuiet, QuietKeeps, LockKeeps, CreatedKeeps, CreateFailsKeeps
       DEF GetClient
<1>2. ASSUME NEW o \in Downloads, Download(o) PROVE ClientInv'
    BY <1>2, OperationIsQuiet, QuietKeeps DEF Download, Ops
<1>3. ASSUME NEW o \in Directories, Gather(o) \/ Gathered(o) PROVE ClientInv'
    BY <1>3, OperationIsQuiet, QuietKeeps DEF Ops
<1>4. ASSUME NEW o \in Heavy, Upload(o) PROVE ClientInv'
    BY <1>4, OperationIsQuiet, QuietKeeps DEF Upload, Ops
<1>5. ASSUME NEW f \in Files, SendTile(f) \/ TileSent(f) PROVE ClientInv'
    BY <1>5, ElsewhereKeeps DEF SendTile, TileSent
<1>6. CASE UNCHANGED s3vars
    BY <1>6, ElsewhereKeeps DEF s3vars
<1> QED
    BY <1>1, <1>2, <1>3, <1>4, <1>5, <1>6, AcloseKeeps, NextLoopKeeps DEF S3Next

-----------------------------------------------------------------------------
(* Callers that arrive together share one client: the second look of       *)
(* _get_client under its lock makes no second one, on any number of loops. *)
THEOREM ClientsAreShared == S3Spec => []OneClientPerLoop
<1>1. ClientInv => OneClientPerLoop
    BY DEF ClientInv
<1> QED
    BY ClientInit, ClientNext, <1>1, PTL DEF S3Spec

(* No request goes out on a closed client or on that of an earlier loop.   *)
THEOREM RequestsAreHome == S3Spec => []RequestsOnOwnClient
<1>1. ClientInv => RequestsOnOwnClient
    BY DEF ClientInv
<1> QED
    BY ClientInit, ClientNext, <1>1, PTL DEF S3Spec

-----------------------------------------------------------------------------
(* Results.  There is a file only while a download sends and once it has   *)
(* returned.                                                               *)

FileInv ==
    \A o \in Downloads :
        /\ pc[o] = "true" => file[o] = "full"
        /\ pc[o] \notin {"sending", "true"} => file[o] = "none"

StoredInv == \A o \in Heavy : pc[o] = "true" => stored[o] = "intact"

ResultInv ==
    /\ pc \in [Ops -> Pcs]
    /\ file \in [Downloads -> {"none", "partial", "full"}]
    /\ stored \in [Heavy -> {"nothing", "intact", "corrupt", "multipart"}]
    /\ FileInv /\ StoredInv

LEMMA Kinds ==
    /\ Ops = Downloads \cup Directories \cup Heavy
    /\ Downloads \cap Heavy = {} /\ Directories \cap Heavy = {}
    /\ Directories \cap Downloads = {}
BY S3Assumption DEF Ops, Heavy

LEMMA ResultInit == S3Init => ResultInv
BY Kinds DEF S3Init, ResultInv, FileInv, StoredInv, Pcs

(* A step between two stages in which there is nothing yet. *)
LEMMA BlankStep ==
    ASSUME ResultInv, NEW o \in Ops,
           NEW to \in Pcs \ {"true", "sending"}, Goes(o, to), pc[o] \notin {"true", "sending"},
           UNCHANGED <<file, stored>>
    PROVE  ResultInv'
BY DEF ResultInv, FileInv, StoredInv, Goes

LEMMA ResultGetClient ==
    ASSUME ResultInv, NEW o \in Ops, GetClient(o)
    PROVE  ResultInv'
<1>1. CASE Start(o)
    BY <1>1, BlankStep DEF Start, Pcs
<1>2. CASE Lock(o)
    BY <1>2, BlankStep DEF Lock, Pcs
<1>3. CASE Created(o)
    BY <1>3, BlankStep DEF Created, Pcs
<1>4. CASE CreateFails(o)
    BY <1>4, BlankStep DEF CreateFails, Pcs
<1> QED
    BY <1>1, <1>2, <1>3, <1>4 DEF GetClient

LEMMA ResultDownload ==
    ASSUME ResultInv, NEW o \in Downloads, Download(o)
    PROVE  ResultInv'
<1> USE Kinds DEF ResultInv, FileInv, StoredInv, Goes, Pcs
<1>1. CASE OpenFile(o)
    BY <1>1 DEF OpenFile
<1>2. CASE Downloaded(o)
    BY <1>2 DEF Downloaded
<1>3. CASE DownloadFails(o)
    BY <1>3 DEF DownloadFails
<1>4. CASE BackedOff(o)
    BY <1>4 DEF BackedOff
<1> QED
    BY <1>1, <1>2, <1>3, <1>4 DEF Download

(* An answer that is accepted is that of an intact object. *)
LEMMA AcceptedIsIntact == \A a \in Answers : Accepted(a[2]) => a[1] = "intact"
BY DEF Answers, Accepted

LEMMA ResultUpload ==
    ASSUME ResultInv, NEW o \in Heavy, Upload(o)
    PROVE  ResultInv'
<1> USE Kinds DEF ResultInv, FileInv, StoredInv, Goes, Pcs
<1>1. CASE Put(o)
    BY <1>1 DEF Put
<1>2. CASE PutAnswered(o)
    <2>1. PICK a \in Answers :
              /\ stored' = [stored EXCEPT ![o] = a[1]]
              /\ pc' = [pc EXCEPT ![o] = IF Accepted(a[2]) THEN "true" ELSE "false"]
        BY <1>2 DEF PutAnswered
    <2>2. a[1] \in {"intact", "corrupt", "multipart"}
        BY DEF Answers
    <2> QED
        BY <1>2, <2>1, <2>2, AcceptedIsIntact DEF PutAnswered
<1>3. CASE PutRaises(o)
    BY <1>3 DEF PutRaises
<1> QED
    BY <1>1, <1>2, <1>3 DEF Upload

LEMMA ResultNext == ResultInv /\ [S3Next]_s3vars => ResultInv'
<1> SUFFICES ASSUME ResultInv, [S3Next]_s3vars PROVE ResultInv'
    OBVIOUS
<1>1. ASSUME NEW o \in Directories, Gather(o) \/ Gathered(o) PROVE ResultInv'
    BY <1>1, Kinds DEF Gather, Gathered, Goes, ResultInv, FileInv, StoredInv, Pcs
<1>2. CASE NextLoop
    BY <1>2, Kinds DEF NextLoop, ResultInv, FileInv, StoredInv, Pcs
<1>3. ASSUME UNCHANGED <<pc, file, stored>> PROVE ResultInv'
    BY <1>3 DEF ResultInv, FileInv, StoredInv
<1>4. ASSUME Aclose \/ UNCHANGED s3vars \/ \E f \in Files : SendTile(f) \/ TileSent(f)
      PROVE  ResultInv'
    BY <1>3, <1>4 DEF Aclose, s3vars, SendTile, TileSent
<1> QED
    BY <1>1, <1>2, <1>4, ResultGetClient, ResultDownload, ResultUpload DEF S3Next

(* A download that raised left no file, one that returned left all of it,  *)
(* and True of a heavy file means that one intact PUT is in the bucket.    *)
THEOREM CallersAreToldTheTruth == S3Spec => []ResultsAreTrue
<1>1. ResultInv => ResultsAreTrue
    BY DEF ResultInv, FileInv, StoredInv, ResultsAreTrue
<1> QED
    BY ResultInit, ResultNext, <1>1, PTL DEF S3Spec

-----------------------------------------------------------------------------
(* The other variables.  A download that has used up its attempts has      *)
(* raised: no retry comes after the last.                                  *)

RestInv ==
    /\ open \subseteq Profiles \X (1..Loops)
    /\ attempt \in [Downloads -> 0..Retries]
    /\ \A o \in Downloads : attempt[o] = Retries => pc[o] = "raised"
    /\ queued \subseteq Files /\ sending \subseteq Files /\ landed \subseteq Files

ObjectInv == ClientInv /\ ResultInv /\ RestInv

LEMMA RestInit == S3Init => RestInv
BY S3Assumption DEF S3Init, RestInv

(* Nothing leaves the raised download but the next loop. *)
LEMMA RestNext == ObjectInv /\ [S3Next]_s3vars => RestInv'
<1> SUFFICES ASSUME ObjectInv, [S3Next]_s3vars PROVE RestInv'
    OBVIOUS
<1>p. pc \in [Ops -> Pcs] /\ Downloads \subseteq Ops /\ loop \in 1..Loops
    BY DEF ObjectInv, ResultInv, ClientInv, ClientTypes, Ops
<1>r. RestInv
    BY DEF ObjectInv
<1> USE <1>p, <1>r DEF RestInv
<1>1. ASSUME NEW o \in Ops, GetClient(o) PROVE RestInv'
    <2>1. pc[o] # "raised" /\ UNCHANGED <<attempt, tiles>> /\ \E to \in Pcs : Goes(o, to)
        BY <1>1 DEF GetClient, Start, Lock, Created, CreateFails, Goes, Pcs
    <2>2. open' \subseteq Profiles \X (1..Loops)
        BY <1>1, ProfileType DEF GetClient, Start, Lock, Created, CreateFails, clients
    <2> QED
        BY <2>1, <2>2 DEF Goes, tiles
<1>2. ASSUME NEW o \in Downloads, Download(o) PROVE RestInv'
    <2>1. CASE DownloadFails(o)
        BY <2>1, S3Assumption DEF DownloadFails, Goes, clients, tiles
    <2>2. CASE OpenFile(o) \/ Downloaded(o) \/ BackedOff(o)
        BY <2>2 DEF OpenFile, Downloaded, BackedOff, Goes, clients, tiles
    <2> QED
        BY <1>2, <2>1, <2>2 DEF Download
<1>3. ASSUME NEW o \in Directories, Gather(o) \/ Gathered(o) PROVE RestInv'
    <2>1. {o} \X (1..DirFiles) \subseteq Files /\ o \in Ops /\ o \notin Downloads
        BY Kinds DEF Files
    <2> QED
        BY <1>3, <2>1 DEF Gather, Gathered, Goes, clients, tiles
<1>4. ASSUME NEW o \in Heavy, Upload(o) PROVE RestInv'
    <2>1. o \in Ops /\ o \notin Downloads
        BY Kinds
    <2> QED
        BY <1>4, <2>1 DEF Upload, Put, PutAnswered, PutRaises, Goes, clients, tiles
<1>5. ASSUME NEW f \in Files, SendTile(f) \/ TileSent(f) PROVE RestInv'
    BY <1>5 DEF SendTile, TileSent, clients
<1>6. CASE Aclose
    BY <1>6 DEF Aclose, tiles
<1>7. CASE NextLoop
    BY <1>7, S3Assumption DEF NextLoop
<1>8. CASE UNCHANGED s3vars
    BY <1>8 DEF s3vars, clients, tiles
<1> QED
    BY <1>1, <1>2, <1>3, <1>4, <1>5, <1>6, <1>7, <1>8 DEF S3Next

(* Every variable of the client object keeps its type; a download is tried *)
(* max_retries times at most.                                              *)
THEOREM ClientObjectTypes == S3Spec => []S3TypeOK
<1>1. S3Init => ObjectInv
    BY ClientInit, ResultInit, RestInit DEF ObjectInv
<1>2. ObjectInv /\ [S3Next]_s3vars => ObjectInv'
    BY ClientNext, ResultNext, RestNext DEF ObjectInv
<1>3. ObjectInv => S3TypeOK
    BY DEF ObjectInv, ClientInv, ClientTypes, ResultInv, RestInv, S3TypeOK
<1> QED
    BY <1>1, <1>2, <1>3, PTL DEF S3Spec

-----------------------------------------------------------------------------
(* Side by side, as in the run of MCServices, each component behaves as it *)
(* does alone: it takes its own steps, or none.                            *)
THEOREM ComponentsAreApart ==
    Spec => S3Spec /\ TiersSpec /\ MetricsSpec /\ MonitorSpec /\ DownloadSpec
<1>1. Init => S3Init /\ TiersInit /\ MetricsInit /\ MonitorInit /\ DownloadInit
    BY DEF Init
<1>2. ASSUME [Next]_vars
      PROVE  /\ [S3Next]_s3vars /\ [TiersNext]_tiervars /\ [MetricsNext]_metricsvars
             /\ [MonitorNext]_monitorvars /\ [DownloadNext]_downloadvars
    BY <1>2, Zenon DEF Next, vars, restOfS3, restOfMonitor
<1> QED
    BY <1>1, <1>2, PTL DEF Spec, S3Spec, TiersSpec, MetricsSpec, MonitorSpec, DownloadSpec

(* Every variable keeps its type; the cut of a prune is the id of a row.   *)
THEOREM ServicesTypes ==
    Spec => [](S3TypeOK /\ TiersTypeOK /\ MetricsTypeOK /\ MonitorTypeOK)
<1>1. ASSUME MetricsInv PROVE MetricsTypeOK
    <2>1. TableInv /\ PruneInv
        BY <1>1 DEF MetricsInv
    <2>2. cut \in 0..MaxId
        <3>1. cut # 0 => cut \in Ids
            BY <2>1 DEF PruneInv
        <3>2. Ids \subseteq 1..MaxId
            BY <2>1 DEF TableInv
        <3>3. MaxId \in Nat
            BY MetricsAssumption
        <3>4. CASE cut = 0
            BY <3>3, <3>4
        <3>5. CASE cut \in 1..MaxId
            BY <3>3, <3>5
        <3> QED
            BY <3>1, <3>2, <3>4, <3>5, Zenon
    <2>3. \A m \in Underway : importing[m][1] \subseteq Jobs
        BY <2>1 DEF TableInv
    <2> QED
        BY <2>1, <2>2, <2>3 DEF TableInv, MetricsTypeOK
<1>2. TiersInv => TiersTypeOK
    BY DEF TiersInv
<1>3. MonitorInv => MonitorTypeOK
    BY DEF MonitorInv
<1> QED
    BY <1>1, <1>2, <1>3, ComponentsAreApart, ClientObjectTypes, MetricsStart, MetricsStep,
       TiersStart, TiersStep, MonitorStart, MonitorStep, PTL
    DEF MetricsSpec, TiersSpec, MonitorSpec

(* So what was proved of each component holds of the five side by side.    *)
THEOREM ServicesAreSafe ==
    Spec => /\ [](OneClientPerLoop /\ RequestsOnOwnClient /\ ResultsAreTrue)
            /\ []LightQueuesAlternate
            /\ []ImportsAddNoDuplicate /\ PruneKeepsNewest
            /\ NeverHammers
            /\ []AcceptedIsWhole /\ GivesUpForCause
BY ComponentsAreApart, ClientsAreShared, RequestsAreHome, CallersAreToldTheTruth,
   LightQueuesTakeTurns, ImportsAreOnce, PruneTakesOldest, MonitorIsPatient,
   DownloadsAreWhole, VerdictsHaveCause, PTL
=============================================================================

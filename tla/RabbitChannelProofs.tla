------------------------ MODULE RabbitChannelProofs ------------------------
(***************************************************************************)
(* Safety of RabbitChannel for every finite set of tasks and any number of *)
(* deliveries and channels.                                                *)
(*                                                                         *)
(* While the worker runs, the counter and the tags support each other.  A  *)
(* reconnect needs a counter at zero; as the counter covers the running    *)
(* tasks, none runs, so none is left with a tag of the old channel.  Once  *)
(* the worker stops, the channel may be replaced under its tasks; but it   *)
(* polls no more, so that the new channel issues no tag at all             *)
(* (OldTagsNameNothing).  A new process starts with a counter at zero, so  *)
(* that a dead one must run nothing (DeadRunsNothing), and channels are    *)
(* numbered upwards (OriginsPast).                                         *)
(***************************************************************************)
EXTENDS RabbitChannel, FiniteSetTheorems, TLAPS

DeadRunsNothing == mode = "down" => running = {}

OldTagsNameNothing ==
    \A s \in running : origin[s] # chan => mode = "stopping" /\ unacked = {}

OriginsPast == \A s \in Slots : origin[s] <= chan

TagsApart == \A s, u \in running : tag[u] = tag[s] => u = s

OwnTagsUnsettled ==
    \A s \in running : origin[s] = chan /\ open => tag[s] \in unacked

TagsInv == OldTagsNameNothing /\ OriginsPast /\ TagsApart /\ OwnTagsUnsettled

ChannelInv ==
    TypeOK /\ CounterCoversRunning /\ TagsInv /\ DeadRunsNothing

LEMMA TagsValid == ChannelInv => RunningTagsValid
<1> SUFFICES ASSUME ChannelInv, NEW s \in running
             PROVE  /\ mode = "running" => origin[s] = chan
                    /\ IF origin[s] = chan THEN open => tag[s] \in unacked
                       ELSE tag[s] \notin unacked
                    /\ \A u \in running : tag[u] = tag[s] => u = s
  BY DEF RunningTagsValid
<1>1. CASE origin[s] = chan
  BY <1>1 DEF ChannelInv, TagsInv, TagsApart, OwnTagsUnsettled
<1>2. CASE origin[s] # chan
  BY <1>2 DEF ChannelInv, TagsInv, TagsApart, OldTagsNameNothing
<1>3. QED
  BY <1>1, <1>2

(* The counted tasks: how many there are before and after one ends. *)
LEMMA OneTaskLess ==
    ASSUME TypeOK, NEW s \in running
    PROVE  /\ Cardinality(OfThisChannel) \in Nat
           /\ Cardinality(OfThisChannel \ {s}) \in Nat
           /\ Cardinality(OfThisChannel \ {s}) =
                 IF origin[s] = chan THEN Cardinality(OfThisChannel) - 1
                 ELSE Cardinality(OfThisChannel)
<1>1. OfThisChannel \subseteq Slots
  BY DEF TypeOK, OfThisChannel
<1>2. IsFiniteSet(OfThisChannel)
  BY <1>1, FS_Subset, SlotsAssumption
<1>3. IsFiniteSet(OfThisChannel \ {s})
  BY <1>2, FS_RemoveElement
<1>4. s \in OfThisChannel <=> origin[s] = chan
  BY DEF OfThisChannel
<1>5. QED
  BY <1>2, <1>3, <1>4, FS_RemoveElement, FS_CardinalityType

(* The counter is positive where a counted task runs. *)
LEMMA CounterPositive ==
    ASSUME TypeOK, CounterCoversRunning, NEW s \in running, origin[s] = chan,
           mode = "running" \/ open
    PROVE  outstanding >= 1
<1>1. /\ Cardinality(OfThisChannel) \in Nat
      /\ Cardinality(OfThisChannel \ {s}) \in Nat
      /\ Cardinality(OfThisChannel \ {s}) = Cardinality(OfThisChannel) - 1
  BY OneTaskLess
<1>2. QED
  BY <1>1 DEF CounterCoversRunning, TypeOK

(* A worker that runs may not reconnect while a task does. *)
LEMMA NoReconnectUnderTask ==
    ASSUME ChannelInv, NEW s \in running, mode = "running"
    PROVE  origin[s] = chan /\ outstanding >= 1 /\ ~MayReconnect(outstanding)
<1>1. origin[s] = chan
  BY DEF ChannelInv, TagsInv, OldTagsNameNothing
<1>2. outstanding >= 1
  BY <1>1, CounterPositive DEF ChannelInv
<1>3. QED
  BY <1>1, <1>2 DEF MayReconnect

(* The end of a task disturbs no other's tag. *)
LEMMA EndKeepsTags ==
    ASSUME ChannelInv, NEW s \in running, Ends(s), UNCHANGED chan,
           unacked' \subseteq unacked,
           \/ open' = FALSE
           \/ open' = open /\ (unacked' = unacked \/ unacked' = unacked \ {tag[s]})
    PROVE  TagsInv' /\ DeadRunsNothing'
<1> USE DEF ChannelInv, TagsInv, Ends
<1>1. OldTagsNameNothing' /\ OriginsPast' /\ TagsApart'
  BY DEF OldTagsNameNothing, OriginsPast, TagsApart
<1>2. OwnTagsUnsettled'
  BY DEF OwnTagsUnsettled, TagsApart
<1>3. DeadRunsNothing'
  BY DEF DeadRunsNothing
<1>4. QED
  BY <1>1, <1>2, <1>3

(* The end of a task leaves one counted task less, if it was one. *)
LEMMA EndKeepsCounter ==
    ASSUME TypeOK, CounterCoversRunning, NEW s \in running, Ends(s), UNCHANGED chan,
           outstanding' \in Nat,
           mode = "running" \/ open' => mode = "running" \/ open,
           \/ outstanding' = outstanding
           \/ outstanding' = outstanding - 1 /\ origin[s] = chan
           \/ mode # "running" /\ ~open'
    PROVE  CounterCoversRunning'
<1>1. OfThisChannel' = OfThisChannel \ {s}
  BY DEF OfThisChannel, Ends
<1>2. /\ Cardinality(OfThisChannel) \in Nat
      /\ Cardinality(OfThisChannel \ {s}) \in Nat
      /\ Cardinality(OfThisChannel \ {s}) =
            IF origin[s] = chan THEN Cardinality(OfThisChannel) - 1
            ELSE Cardinality(OfThisChannel)
  BY OneTaskLess
<1>3. mode' = mode /\ outstanding \in Nat
  BY DEF Ends, TypeOK
<1>4. QED
  BY <1>1, <1>2, <1>3 DEF CounterCoversRunning

(* No task of the new channel runs yet. *)
LEMMA ReconnectCounts ==
    ASSUME ChannelInv, chan' = chan + 1, running' \subseteq running,
           origin' = origin, outstanding' \in Nat
    PROVE  CounterCoversRunning' /\ OriginsPast'
<1>1. \A s \in Slots : origin[s] \in Int /\ origin[s] <= chan /\ chan \in Int
  BY DEF ChannelInv, TagsInv, OriginsPast, TypeOK
<1>2. \A s \in running' : s \in Slots
  BY DEF ChannelInv, TypeOK
<1>3. OfThisChannel' = {}
  BY <1>1, <1>2 DEF OfThisChannel
<1>4. CounterCoversRunning'
  BY <1>3, FS_EmptySet DEF CounterCoversRunning
<1>5. OriginsPast'
  BY <1>1 DEF OriginsPast
<1>6. QED
  BY <1>4, <1>5

-----------------------------------------------------------------------------
(* The actions, one lemma each or for those that disturb the same things.  *)

LEMMA PollStep ==
    ASSUME ChannelInv, NEW s \in Slots, PollOne(s)
    PROVE  ChannelInv'
<1> USE DEF ChannelInv, PollOne, basic_get_one
<1>1. TypeOK'
  BY BoundsAssumption DEF TypeOK
<1>2. CounterCoversRunning'
  <2>1. OfThisChannel \subseteq Slots
    BY DEF TypeOK, OfThisChannel
  <2>2. IsFiniteSet(OfThisChannel) /\ s \notin OfThisChannel
    BY <2>1, FS_Subset, SlotsAssumption DEF OfThisChannel
  <2>3. OfThisChannel' = OfThisChannel \cup {s}
    BY DEF OfThisChannel, TypeOK
  <2>4. Cardinality(OfThisChannel \cup {s}) = Cardinality(OfThisChannel) + 1
    BY <2>2, FS_AddElement
  <2>5. Cardinality(OfThisChannel) \in Nat
    BY <2>2, FS_CardinalityType
  <2>6. QED
    BY <2>3, <2>4, <2>5 DEF CounterCoversRunning, TypeOK
<1>3. OldTagsNameNothing' /\ OriginsPast'
  BY DEF TagsInv, OldTagsNameNothing, OriginsPast, TypeOK
<1>4. TagsApart' /\ OwnTagsUnsettled'
  <2>1. \A u \in running : origin[u] = chan /\ tag[u] \in unacked
    BY DEF TagsInv, OldTagsNameNothing, OwnTagsUnsettled
  <2>2. \A u \in running : tag[u] # lastTag + 1
    BY <2>1 DEF TypeOK
  <2>3. QED
    BY <2>1, <2>2 DEF TagsInv, TagsApart, OwnTagsUnsettled, TypeOK
<1>5. DeadRunsNothing'
  BY DEF DeadRunsNothing
<1>6. QED
  BY <1>1, <1>2, <1>3, <1>4, <1>5 DEF TagsInv

(* An ack or nack on the channel as it is. *)
LEMMA SettleStep ==
    ASSUME ChannelInv, NEW s \in running, Settle(s), Ends(s)
    PROVE  ChannelInv'
<1>1. outstanding' \in Nat
  BY DEF ChannelInv, Settle, Settled, TypeOK
<1>2. /\ UNCHANGED <<chan, lastTag>>
      /\ unacked' \subseteq unacked
      /\ \/ open' = FALSE
         \/ open' = open /\ (unacked' = unacked \/ unacked' = unacked \ {tag[s]})
  BY DEF Settle, BrokerSettles, Breaks
<1>3. open' => open
  BY <1>2 DEF Settle, BrokerSettles, Breaks
<1>4. TypeOK'
  <2>1. sent' \in {"nothing", "own", "stale"}
    BY DEF ChannelInv, Settle, TypeOK
  <2>2. open' \in BOOLEAN
    BY <1>2 DEF ChannelInv, TypeOK
  <2>3. QED
    BY <1>1, <1>2, <2>1, <2>2 DEF ChannelInv, TypeOK, Ends
<1>5. \/ outstanding' = outstanding - 1 /\ origin[s] = chan
      \/ mode # "running" /\ ~open'
  <2>1. CASE origin[s] = chan /\ (mode = "running" \/ open)
    <3>1. outstanding >= 1
      BY <2>1, CounterPositive DEF ChannelInv
    <3>2. QED
      BY <2>1, <3>1 DEF ChannelInv, TypeOK, Settle, Settled
  <2>2. CASE mode # "running" /\ ~open
    BY <1>3, <2>2
  <2>3. CASE origin[s] # chan
    <3>1. mode # "running" /\ unacked = {}
      BY <2>3 DEF ChannelInv, TagsInv, OldTagsNameNothing
    <3>2. ~open'
      BY <3>1 DEF ChannelInv, TypeOK, Settle, BrokerSettles, Breaks
    <3>3. QED
      BY <3>1, <3>2
  <2>4. QED
    BY <2>1, <2>2, <2>3
<1>6. CounterCoversRunning'
  BY <1>1, <1>2, <1>3, <1>5, EndKeepsCounter DEF ChannelInv
<1>7. TagsInv' /\ DeadRunsNothing'
  BY <1>2, EndKeepsTags
<1>8. QED
  BY <1>4, <1>6, <1>7 DEF ChannelInv

LEMMA FailStep ==
    ASSUME ChannelInv, NEW s \in Slots, FailUnit(s)
    PROVE  ChannelInv'
<1>1. s \in running /\ mode = "running" /\ Ends(s)
  BY DEF FailUnit
<1>2. CASE open
  BY <1>1, <1>2, SettleStep DEF FailUnit
<1>3. CASE ~open
  <2>1. UNCHANGED <<chan, open, lastTag, unacked, outstanding, sent>>
    BY <1>1, <1>3, NoReconnectUnderTask DEF FailUnit
  <2>2. TypeOK'
    BY <1>1, <2>1 DEF ChannelInv, TypeOK, Ends
  <2>3. CounterCoversRunning'
    BY <1>1, <2>1, <2>2, EndKeepsCounter DEF ChannelInv, TypeOK
  <2>4. TagsInv' /\ DeadRunsNothing'
    BY <1>1, <2>1, EndKeepsTags
  <2>5. QED
    BY <2>2, <2>3, <2>4 DEF ChannelInv
<1>4. QED
  BY <1>2, <1>3

(* The channel breaks under the ack.  A worker that runs reconnects only   *)
(* when the task was the last; one that stops settles twice, and is left   *)
(* with no channel.                                                        *)
LEMMA AckRaisesStep ==
    ASSUME ChannelInv, NEW s \in Slots, AckRaises(s)
    PROVE  ChannelInv'
<1>1. s \in running /\ Ends(s) /\ open
  BY DEF AckRaises
<1>2. CASE /\ Breaks
           /\ outstanding' = Settled(outstanding)
           /\ UNCHANGED <<chan, lastTag, sent>>
  <2>1. /\ open' = FALSE /\ unacked' = {} /\ UNCHANGED <<chan, lastTag, sent>>
        /\ outstanding' \in Nat
    BY <1>2 DEF ChannelInv, TypeOK, Breaks, Settled
  <2>2. TypeOK'
    BY <1>1, <2>1 DEF ChannelInv, TypeOK, Ends
  <2>3. \/ outstanding' = outstanding - 1 /\ origin[s] = chan
        \/ mode # "running" /\ ~open'
    <3>1. CASE mode = "running"
      BY <1>1, <1>2, <3>1, NoReconnectUnderTask DEF ChannelInv, TypeOK, Settled
    <3>2. CASE mode # "running"
      BY <2>1, <3>2
    <3>3. QED
      BY <3>1, <3>2
  <2>4. CounterCoversRunning'
    BY <1>1, <2>1, <2>3, EndKeepsCounter DEF ChannelInv
  <2>5. TagsInv' /\ DeadRunsNothing'
    BY <1>1, <2>1, EndKeepsTags
  <2>6. QED
    BY <2>2, <2>4, <2>5 DEF ChannelInv
<1>3. CASE mode = "running" /\ MayReconnect(Settled(outstanding)) /\ Reconnect /\ RefusedAck
  <2>1. /\ chan' = chan + 1 /\ chan < MaxChan /\ lastTag' = 0 /\ open' = FALSE
        /\ unacked' = {} /\ outstanding' = 0 /\ sent' = "stale"
    BY <1>3 DEF MayReconnect, Reconnect, RefusedAck, Breaks, Settled
  <2>2. running' = {}
    <3>1. /\ outstanding >= 1 /\ origin[s] = chan
          /\ \A u \in running : origin[u] = chan
      BY <1>1, <1>3, NoReconnectUnderTask
    <3>2. outstanding = 1
      BY <1>3, <3>1 DEF MayReconnect, Settled, ChannelInv, TypeOK
    <3>3. Cardinality(OfThisChannel \ {s}) = 0
      BY <1>1, <1>3, <3>1, <3>2, OneTaskLess
         DEF ChannelInv, CounterCoversRunning, TypeOK
    <3>4. IsFiniteSet(OfThisChannel \ {s})
      <4>1. OfThisChannel \ {s} \subseteq Slots
        BY DEF ChannelInv, TypeOK, OfThisChannel
      <4>2. QED
        BY <4>1, FS_Subset, SlotsAssumption
    <3>5. OfThisChannel \ {s} = {}
      BY <3>3, <3>4, FS_EmptySet
    <3>6. running \ {s} = {}
      BY <3>1, <3>5 DEF OfThisChannel
    <3>7. QED
      BY <1>1, <3>6 DEF Ends
  <2>3. TypeOK'
    <3>1. chan' \in 1 .. MaxChan /\ lastTag' \in 0 .. MaxTag
      BY <2>1, BoundsAssumption DEF ChannelInv, TypeOK
    <3>2. /\ mode' \in {"running", "stopping", "down"}
          /\ tag' \in [Slots -> 0 .. MaxTag]
          /\ origin' \in [Slots -> 0 .. MaxChan]
      BY <1>1 DEF Ends, ChannelInv, TypeOK
    <3>3. QED
      BY <2>1, <2>2, <3>1, <3>2 DEF TypeOK
  <2>4. CounterCoversRunning' /\ OriginsPast'
    BY <1>1, <2>1, <2>2, <2>3, ReconnectCounts DEF Ends, TypeOK
  <2>5. QED
    BY <2>2, <2>3, <2>4
       DEF ChannelInv, TagsInv, OldTagsNameNothing, TagsApart, OwnTagsUnsettled,
           DeadRunsNothing
<1>4. CASE /\ mode = "stopping"
           /\ Breaks
           /\ outstanding' = Settled(Settled(outstanding))
           /\ UNCHANGED <<chan, lastTag, sent>>
  <2>1. /\ open' = FALSE /\ unacked' = {} /\ UNCHANGED <<chan, lastTag, sent>>
        /\ outstanding' \in Nat /\ mode # "running"
    BY <1>4 DEF ChannelInv, TypeOK, Breaks, Settled
  <2>2. TypeOK'
    BY <1>1, <2>1 DEF ChannelInv, TypeOK, Ends
  <2>3. CounterCoversRunning'
    BY <1>1, <2>1, EndKeepsCounter DEF ChannelInv
  <2>4. TagsInv' /\ DeadRunsNothing'
    BY <1>1, <2>1, EndKeepsTags
  <2>5. QED
    BY <2>2, <2>3, <2>4 DEF ChannelInv
<1>5. QED
  BY <1>2, <1>3, <1>4 DEF AckRaises

(* The reconnect that does happen under tasks is a stopping worker's: the  *)
(* new channel has issued no tag and will issue none.                      *)
LEMMA InlineStep ==
    ASSUME ChannelInv, NEW s \in Slots, InlinePublish(s)
    PROVE  ChannelInv'
<1>1. s \in running /\ ~open
  BY DEF InlinePublish
<1>2. CASE /\ MayReconnect(outstanding)
           /\ Reconnect
           /\ open' = TRUE /\ unacked' = {} /\ outstanding' = 0
           /\ UNCHANGED <<mode, running, tag, origin, sent>>
  <2>1. /\ chan' = chan + 1 /\ chan < MaxChan /\ lastTag' = 0
        /\ UNCHANGED <<mode, running, tag, origin, sent>>
        /\ open' = TRUE /\ unacked' = {} /\ outstanding' = 0
    BY <1>2 DEF MayReconnect, Reconnect
  <2>2. mode = "stopping"
    <3>1. mode # "running"
      BY <1>1, <1>2, NoReconnectUnderTask
    <3>2. mode # "down"
      BY <1>1 DEF ChannelInv, DeadRunsNothing
    <3>3. QED
      BY <3>1, <3>2 DEF ChannelInv, TypeOK
  <2>3. TypeOK'
    BY <2>1, BoundsAssumption DEF ChannelInv, TypeOK
  <2>4. CounterCoversRunning' /\ OriginsPast'
    BY <2>1, <2>3, ReconnectCounts DEF TypeOK
  <2>5. OldTagsNameNothing' /\ TagsApart'
    BY <2>1, <2>2 DEF OldTagsNameNothing, ChannelInv, TagsInv, TagsApart
  <2>6. \A u \in running : origin[u] # chan + 1
    BY DEF ChannelInv, TypeOK, TagsInv, OriginsPast
  <2>7. OwnTagsUnsettled'
    BY <2>1, <2>6 DEF OwnTagsUnsettled
  <2>8. DeadRunsNothing'
    BY <2>1, <2>2 DEF DeadRunsNothing
  <2>9. QED
    BY <2>3, <2>4, <2>5, <2>7, <2>8 DEF ChannelInv, TagsInv
<1>3. CASE /\ outstanding' = IF mode = "running" THEN outstanding
                             ELSE Settled(outstanding)
           /\ Ends(s)
           /\ UNCHANGED <<chan, open, lastTag, unacked, sent>>
  <2>1. outstanding' \in Nat
    BY <1>3 DEF ChannelInv, TypeOK, Settled
  <2>2. TypeOK'
    BY <1>3, <2>1 DEF ChannelInv, TypeOK, Ends
  <2>3. outstanding' = outstanding \/ (mode # "running" /\ ~open')
    BY <1>1, <1>3
  <2>4. CounterCoversRunning'
    BY <1>1, <1>3, <2>1, <2>3, EndKeepsCounter DEF ChannelInv
  <2>5. TagsInv' /\ DeadRunsNothing'
    BY <1>1, <1>3, EndKeepsTags
  <2>6. QED
    BY <2>2, <2>4, <2>5 DEF ChannelInv
<1>4. QED
  BY <1>2, <1>3 DEF InlinePublish

(* A task that ends and leaves its delivery to the broker. *)
LEMMA DieStep ==
    ASSUME ChannelInv, NEW s \in Slots, TaskDies(s)
    PROVE  ChannelInv'
<1>1. /\ s \in running /\ Ends(s)
      /\ UNCHANGED <<chan, open, lastTag, unacked, outstanding, sent>>
  BY DEF TaskDies
<1>2. TypeOK'
  BY <1>1 DEF ChannelInv, TypeOK, Ends
<1>3. CounterCoversRunning'
  BY <1>1, <1>2, EndKeepsCounter DEF ChannelInv, TypeOK
<1>4. TagsInv' /\ DeadRunsNothing'
  BY <1>1, EndKeepsTags
<1>5. QED
  BY <1>2, <1>3, <1>4 DEF ChannelInv

(* The connection and the process: nothing runs afterwards, or the tasks   *)
(* keep their tags.                                                        *)
LEMMA ConnectionStep ==
    ASSUME ChannelInv, PollUndecodable \/ ConnectionDies \/ Signal
    PROVE  ChannelInv'
<1> USE DEF ChannelInv, TagsInv
<1>1. UNCHANGED <<chan, outstanding, running, tag, origin>>
  BY DEF PollUndecodable, ConnectionDies, Signal
<1>2. TypeOK'
  <2>1. CASE PollUndecodable
    BY <2>1, BoundsAssumption DEF PollUndecodable, TypeOK
  <2>2. CASE ConnectionDies
    BY <2>2 DEF ConnectionDies, Breaks, TypeOK
  <2>3. CASE Signal
    BY <2>3 DEF Signal, TypeOK
  <2>4. QED
    BY <2>1, <2>2, <2>3
<1>3. CounterCoversRunning'
  <2>1. OfThisChannel' = OfThisChannel
    BY <1>1 DEF OfThisChannel
  <2>2. mode' = "running" \/ open' => mode = "running" \/ open
    BY DEF PollUndecodable, ConnectionDies, Signal, Breaks
  <2>3. QED
    BY <1>1, <2>1, <2>2 DEF CounterCoversRunning
<1>4. OldTagsNameNothing'
  BY <1>1 DEF PollUndecodable, ConnectionDies, Signal, Breaks, OldTagsNameNothing
<1>5. OriginsPast' /\ TagsApart'
  BY <1>1 DEF OriginsPast, TagsApart
<1>6. OwnTagsUnsettled'
  BY <1>1 DEF PollUndecodable, ConnectionDies, Signal, Breaks, OwnTagsUnsettled
<1>7. DeadRunsNothing'
  BY <1>1 DEF PollUndecodable, ConnectionDies, Signal, DeadRunsNothing
<1>8. QED
  BY <1>2, <1>3, <1>4, <1>5, <1>6, <1>7

LEMMA ProcessStep ==
    ASSUME ChannelInv, Exit \/ DrainEnds \/ ServiceRaises \/ Restart
    PROVE  ChannelInv'
<1>1. running' = {} /\ UNCHANGED <<tag, origin>>
  BY DEF ChannelInv, DeadRunsNothing, Exit, DrainEnds, ServiceRaises, Restart,
         ProcessEnds
<1>2. TypeOK' /\ OriginsPast'
  <2>1. CASE Exit \/ DrainEnds \/ ServiceRaises
    BY <2>1 DEF ChannelInv, TagsInv, Exit, DrainEnds, ServiceRaises, ProcessEnds,
                Breaks, TypeOK, OriginsPast
  <2>2. CASE Restart
    BY <2>2, BoundsAssumption
       DEF ChannelInv, TagsInv, Restart, Reconnect, TypeOK, OriginsPast
  <2>3. QED
    BY <2>1, <2>2
<1>3. CounterCoversRunning'
  <2>1. OfThisChannel' = {}
    BY <1>1 DEF OfThisChannel
  <2>2. QED
    BY <1>2, <2>1, FS_EmptySet DEF CounterCoversRunning, TypeOK
<1>4. OldTagsNameNothing' /\ TagsApart' /\ OwnTagsUnsettled' /\ DeadRunsNothing'
  BY <1>1 DEF OldTagsNameNothing, TagsApart, OwnTagsUnsettled, DeadRunsNothing
<1>5. QED
  BY <1>2, <1>3, <1>4 DEF ChannelInv, TagsInv

-----------------------------------------------------------------------------
(* The inductive invariant. *)

LEMMA ChannelInit == Init => ChannelInv
<1> SUFFICES ASSUME Init PROVE ChannelInv
  OBVIOUS
<1>1. TypeOK /\ OriginsPast
  BY BoundsAssumption DEF Init, TypeOK, OriginsPast
<1>2. OfThisChannel = {}
  BY DEF Init, OfThisChannel
<1>3. CounterCoversRunning
  BY <1>2, FS_EmptySet DEF Init, CounterCoversRunning
<1>4. OldTagsNameNothing /\ TagsApart /\ OwnTagsUnsettled /\ DeadRunsNothing
  BY DEF Init, OldTagsNameNothing, TagsApart, OwnTagsUnsettled, DeadRunsNothing
<1>5. QED
  BY <1>1, <1>3, <1>4 DEF ChannelInv, TagsInv

LEMMA ChannelNext == ChannelInv /\ [Next]_vars => ChannelInv'
<1> SUFFICES ASSUME ChannelInv, [Next]_vars PROVE ChannelInv'
  OBVIOUS
<1>1. CASE UNCHANGED vars
  BY <1>1 DEF vars, ChannelInv, TagsInv, TypeOK, CounterCoversRunning, OfThisChannel,
              OldTagsNameNothing, OriginsPast, TagsApart, OwnTagsUnsettled,
              DeadRunsNothing
<1>2. ASSUME NEW s \in Slots, SettleUnit(s)
      PROVE  ChannelInv'
  BY <1>2, SettleStep DEF SettleUnit
<1>3. QED
  BY <1>1, <1>2, PollStep, FailStep, AckRaisesStep, InlineStep, DieStep,
     ConnectionStep, ProcessStep DEF Next

LEMMA ChannelAlways == Spec => []ChannelInv
  BY ChannelInit, ChannelNext, PTL DEF Spec

(* Types, for any number of tasks, tags and channels. *)
THEOREM ChannelTypes == Spec => []TypeOK
<1>1. ChannelInv => TypeOK
  BY DEF ChannelInv
<1>2. QED
  BY <1>1, ChannelAlways, PTL

(* The counter of outstanding deliveries never falls below the tasks that  *)
(* have one to settle on the current channel, in a worker that runs and in *)
(* one that stops until its channel breaks: declining to reconnect         *)
(* protects all of them.                                                   *)
THEOREM CounterSound == Spec => []CounterCoversRunning
<1>1. ChannelInv => CounterCoversRunning
  BY DEF ChannelInv
<1>2. QED
  BY <1>1, ChannelAlways, PTL

(* A task of a running worker that still has to settle its delivery holds  *)
(* a tag of the current channel that is its own; a stopping worker's task  *)
(* whose channel was replaced holds a tag that names nothing on the new    *)
(* one.  What a task acks is never another task's message.                 *)
THEOREM TagsSound == Spec => []RunningTagsValid
  BY TagsValid, ChannelAlways, PTL
=============================================================================

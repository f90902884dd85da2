------------------------- MODULE RedisStreamSource -------------------------
(***************************************************************************)
(* packages/redis: RedisStreamSource and the commands of RedisClient it    *)
(* uses, a consumer of one stream in a consumer group.  The group keeps    *)
(* the entries that were delivered and not acknowledged (the PEL) with     *)
(* their consumer.  The source first reads its own, then new entries, and  *)
(* once in a while claims from other consumers, and from itself, what has  *)
(* been pending for the idle time.  Entries are numbered in stream order.  *)
(***************************************************************************)
EXTENDS Source

CONSTANTS BatchSize, Bad      \* Bad: entries without data

TypeOK ==
  /\ SharedTypeOK
  /\ broker \in [owner : [Msgs -> {"new", "me", "them", "acked"}], idle : SUBSET Msgs]
  /\ client.batch \in Seq(Msgs) /\ client.claiming \subseteq Msgs
  /\ client.acks \subseteq Msgs /\ client.due \in BOOLEAN /\ client.didRead \in BOOLEAN
  /\ client.reading \in {"own", "new"} /\ client.last \in Nat

Fresh == [reading |-> "own", last |-> 0, batch |-> <<>>, claiming |-> {},
          due |-> TRUE, didRead |-> TRUE, acks |-> {}]

Init ==
  /\ SharedInit /\ client = Fresh
  /\ broker = [owner |-> [m \in Msgs |-> "new"], idle |-> {}]

OwnedBy(who) == {m \in Msgs : broker.owner[m] = who}
Pending == OwnedBy("me") \cup OwnedBy("them")
Owned(who, ms) == [m \in Msgs |-> IF m \in ms THEN who ELSE broker.owner[m]]
First(ms) == ToSet(FirstOf(InOrder(ms), BatchSize))
Ready == client.batch = <<>> /\ client.claiming = {} /\ phase = "run"

\* What xReadGroup makes of the entries it is given: those without data are
\* acknowledged on the way, if that succeeds, and left out.
Parsed(got) == got \ Bad
XReadGroup(got, acked) ==
  /\ acked = got \ Parsed(got) \/ (Fault /\ acked = {} /\ got # Parsed(got))
  /\ acked = got \ Parsed(got) => UNCHANGED faults
  /\ broker' = [owner |-> [m \in Msgs |-> IF m \in acked THEN "acked"
                                          ELSE IF m \in got THEN "me" ELSE broker.owner[m]],
                idle |-> broker.idle \ got]
  /\ outcome' = Became("rejected", acked)

\* The first loop of start(): what this consumer was given before a restart,
\* until a read has no entry with data.
ReadOwn == \E acked \in SUBSET Bad :
  LET got == First({m \in OwnedBy("me") : m > client.last}) IN
  /\ Ready /\ client.reading = "own" /\ XReadGroup(got, acked)
  /\ client' = IF Parsed(got) = {} THEN [client EXCEPT !.reading = "new"]
               ELSE [client EXCEPT !.batch = InOrder(Parsed(got))]
  /\ UNCHANGED <<held, phase>>

Checks == client.due /\ client.didRead

\* The second loop: xReadGroup with ">".
ReadNew == \E acked \in SUBSET Bad :
  LET got == First(OwnedBy("new")) IN
  /\ Ready /\ client.reading = "new" /\ ~Checks /\ XReadGroup(got, acked)
  /\ client' = [client EXCEPT !.batch = InOrder(Parsed(got)), !.didRead = TRUE]
  /\ UNCHANGED <<held, phase>>

\* No message was claimed: the next check is due after the interval, and
\* after at least one read.
Drained(c) == [c EXCEPT !.due = FALSE, !.didRead = FALSE]

\* getPendingMessagesForConsumerGroup: xPending, of all consumers ...
XPending ==
  /\ Ready /\ client.reading = "new" /\ Checks
  /\ client' = IF Pending = {} THEN Drained(client)
               ELSE [client EXCEPT !.claiming = First(Pending)]
  /\ UNCHANGED <<broker, held, outcome, phase, faults>>

ClaimableOfOthers(ms) == ms \cap OwnedBy("them") \cap broker.idle   \* mutant
Claimable(ms) == ms \cap Pending \cap broker.idle

\* ... then xClaim of those that are idle by now and still pending.
XClaim ==
  LET got == Claimable(client.claiming) IN
  /\ client.claiming # {} /\ got \cap Bad = {}
  /\ broker' = [owner |-> Owned("me", got), idle |-> broker.idle \ got]
  /\ client' = LET c == [client EXCEPT !.claiming = {}, !.batch = InOrder(got)]
               IN IF got = {} THEN Drained(c) ELSE c
  /\ UNCHANGED <<held, outcome, phase, faults>>

Yield ==
  /\ client.batch # <<>> /\ Hand([m |-> Head(client.batch)])
  /\ client' = [client EXCEPT !.batch = Tail(@),
                  !.last = IF client.reading = "own" THEN Head(client.batch) ELSE @]
  /\ UNCHANGED <<broker, outcome, phase, faults>>

AcksAlways(m, err) == client' = [client EXCEPT !.acks = @ \cup {m}]   \* mutant
Acks(m, err) == client' = IF err THEN client ELSE [client EXCEPT !.acks = @ \cup {m}]

\* onMessageReleased: an error leaves the entry pending.
Released == \E i \in DOMAIN held : \E o \in {"ok", "err"} :
  /\ Release(i, o) /\ Acks(held[i].m, o = "err")
  /\ UNCHANGED <<broker, phase>>

\* xAck: an entry not in the PEL any more is an error, which is logged.
XAck == \E m \in client.acks : \E fails \in BOOLEAN :
  /\ client' = [client EXCEPT !.acks = @ \ {m}]
  /\ IF fails THEN Fault /\ UNCHANGED broker
     ELSE broker' = [broker EXCEPT !.owner[m] = "acked"] /\ UNCHANGED faults
  /\ UNCHANGED <<held, outcome, phase>>

\* The idle time and the reclaim interval pass.
Idle == \E m \in Pending \ broker.idle :
  /\ broker' = [broker EXCEPT !.idle = @ \cup {m}]
  /\ UNCHANGED <<client, held, outcome, phase, faults>>
Due ==
  /\ ~client.due /\ client' = [client EXCEPT !.due = TRUE]
  /\ UNCHANGED <<broker, held, outcome, phase, faults>>

\* Another consumer reads an entry, and may process and acknowledge it or die.
OtherReads == \E m \in OwnedBy("new") \ Bad :
  /\ m = Head(InOrder(OwnedBy("new")))
  /\ broker' = [broker EXCEPT !.owner[m] = "them"]
  /\ UNCHANGED <<client, held, outcome, phase, faults>>
OtherAcks == \E m \in OwnedBy("them") :
  /\ broker' = [broker EXCEPT !.owner[m] = "acked"] /\ outcome' = Became("other", {m})
  /\ UNCHANGED <<client, held, phase, faults>>

Stop == AskToStop /\ UNCHANGED <<broker, client, held, outcome, faults>>
End ==
  /\ phase = "stop" /\ client.batch = <<>> /\ client.claiming = {} /\ phase' = "end"
  /\ UNCHANGED <<broker, client, held, outcome, faults>>

\* A restart.  An xClaim that meets an entry without data throws and ends the
\* application too.
Crash == Die /\ client' = Fresh /\ UNCHANGED <<broker, outcome, phase>>
CrashOnClaim ==
  /\ client.claiming # {} /\ Claimable(client.claiming) \cap Bad # {}
  /\ broker' = [owner |-> Owned("me", Claimable(client.claiming)),
                idle |-> broker.idle \ Claimable(client.claiming)]
  /\ client' = Fresh /\ held' = <<>> /\ phase' = IF phase = "stop" THEN "end" ELSE phase
  /\ UNCHANGED <<outcome, faults>>

Progress == ReadOwn \/ ReadNew \/ XPending \/ XClaim \/ Yield \/ XAck \/ End \/ CrashOnClaim
Next == Progress \/ Idle \/ Due \/ Released \/ OtherReads \/ OtherAcks \/ Stop \/ Crash

Settled == OwnedBy("acked")
Answered == {m \in Msgs : outcome[m] \cap {"ok", "rejected", "other"} # {}}
Over == Settled
============================================================================

------------------------------ MODULE MCCalls ------------------------------
(***************************************************************************)
(* One run over the sources that answer or follow somebody: the initial    *)
(* state chooses an adapter.                                               *)
(***************************************************************************)
EXTENDS Integers, Sequences, FiniteSets, TLC

CONSTANTS MaxFaults, CallFaults, Adapters, Chunks, Calls, Retries, QueueSize, Ticks, Objects, Versions, Scrapers

ASSUME SizesAssumption == {MaxFaults, CallFaults, Retries} \subseteq Nat /\ {Chunks, QueueSize, Ticks, Versions} \subseteq Nat \ {0}
ASSUME ObjectsAssumption == IsFiniteSet(Objects)

VARIABLES peer, channel, app, phase, faults, adapter
all == <<peer, channel, app, phase, faults, adapter>>

S == INSTANCE GrpcStream
U == INSTANCE UnaryCalls WITH MaxFaults <- CallFaults
I == INSTANCE IntervalSource
W == INSTANCE KubernetesSources
\* Three messages, one of which counts down, with two labels and two buckets.
Amount == <<1, 2, -1>>
Label == <<"", "x", "x">>
Buckets == <<1, 2>>
ASSUME CallsAssumption == Calls \subseteq DOMAIN Amount
M == INSTANCE Metrics WITH MaxFaults <- CallFaults

Is(a) == adapter = a
Init ==
  /\ adapter \in Adapters
  /\ \/ Is("stream") /\ S!Init
     \/ Is("unary") /\ U!Init
     \/ Is("interval") /\ I!Init
     \/ Is("kubernetes") /\ W!Init
     \/ Is("metrics") /\ M!Init
Next ==
  /\ UNCHANGED adapter
  /\ \/ Is("stream") /\ S!Next
     \/ Is("unary") /\ U!Next
     \/ Is("interval") /\ I!Next
     \/ Is("kubernetes") /\ W!Next
     \/ Is("metrics") /\ M!Next

\* Promises that are settled continue, the wire delivers, and the application
\* releases what it was handed.  It need not send, close, fail or stop.
Fairness ==
  /\ WF_all(UNCHANGED adapter /\ Is("stream") /\ S!Progress)
  /\ WF_all(UNCHANGED adapter /\ Is("unary") /\ U!Progress)
  /\ WF_all(UNCHANGED adapter /\ Is("unary") /\ U!Released)
  /\ WF_all(UNCHANGED adapter /\ Is("interval") /\ I!Progress)
  /\ WF_all(UNCHANGED adapter /\ Is("kubernetes") /\ W!Progress)
  /\ WF_all(UNCHANGED adapter /\ Is("metrics") /\ M!Progress)

Spec == Init /\ [][Next]_all /\ Fairness

\* Every variable has its adapter's type, no queue exceeds its capacity.
TypeOK ==
  CASE Is("stream") -> S!TypeOK [] Is("unary") -> U!TypeOK
    [] Is("interval") -> I!TypeOK [] Is("kubernetes") -> W!TypeOK [] Is("metrics") -> M!TypeOK

\* The client of a streaming method is yielded what the handler sent, in its
\* order, none twice, and if it keeps up and the call ends well, all of it.
StreamIsWhole == Is("stream") => S!Ordered /\ S!Whole

\* A caller is told what its handler did, for as many runs as it made
\* attempts; an interval ticks once per release and not after stop; what a
\* poll tells the application adds up to what the source remembers; a scrape
\* counts every completed handling and nothing of one that failed or runs.
ToldAsItIs ==
  CASE Is("unary") -> U!Faithful [] Is("interval") -> I!Ordered [] Is("kubernetes") -> W!Ordered
    [] Is("metrics") -> M!Ordered
    [] OTHER -> TRUE

Promised ==
  CASE Is("stream") -> S!Promised [] Is("unary") -> U!Promised
    [] Is("interval") -> I!Promised [] Is("kubernetes") -> W!Promised [] Is("metrics") -> M!Promised
Kept ==
  CASE Is("stream") -> S!Kept [] Is("unary") -> U!Kept
    [] Is("interval") -> I!Kept [] Is("kubernetes") -> W!Kept [] Is("metrics") -> M!Kept
\* A stream that its handler closed, that was cancelled or whose server is
\* disposed ends for its client; every unary call is answered and every review
\* that is not silent, unless the source has ended before it took it; a stopped
\* interval's iteration ends; the application learns of every object that stays,
\* unless a watch ended while events waited; the disposal of a server of metrics
\* ends, although scrapers keep their connections.
EveryCallEnds == Promised ~> Kept

\* What does not hold, with the one adapter it is about in Adapters.  A chunk that arrives while one waits for the consumer is
\* dropped, and so is the one that waits when the stream ends.
SlowClientGetsAll == Is("stream") /\ ~channel.full /\ peer.pc = "end" /\ phase = "run"
                     => peer.got = [i \in 1 .. app.next - 1 |-> i]
\* Once a call is cancelled its stream is never closed
\* and nobody takes what a handler has sent.
SendsReturn == Is("stream") /\ channel.out.value # 0 ~> channel.out.value = 0
\* A watch that begins anew does not tell of the objects
\* that were deleted in the meantime.
DeletesAreSeen == []<>(Is("kubernetes") /\ (app.pc = "end" \/ app.view = peer.objs))
\* What a watch told of, and waits for room when the watch ends, is enqueued next
\* to what the new watch tells of, in either order (with MaxFaults = 4).
WatchCatchesUp == []<>(Is("kubernetes") /\ (app.pc = "end" \/
  \A o \in Objects : (W!Watching /\ peer.objs[o] = 0) \/ app.view[o] = peer.objs[o]))
\* A closed queue takes requests that nobody will take from it.
AcceptedAreAnswered == <>(Is("unary") /\ \A c \in Calls : peer[c].pc \in U!Ends \/ c \in app.silent)
\* A review whose handler returns nothing is not answered.
ReviewsAreAnswered == <>(Is("unary") /\ \A c \in Calls : peer[c].pc \in U!Ends)
\* A message that is handled anew after a conflict is counted again.
CountedOnce == Is("metrics") => M!CountedOnce
============================================================================

----------------------------- MODULE UnaryCalls -----------------------------
(***************************************************************************)
(* Requests that wait for one answer: a unary gRPC method, from the client *)
(* of packages/grpc client.ts with its retries to GrpcInputSource, and an  *)
(* admission review of packages/kubernetes, which the API server sends     *)
(* once.  Both sources queue a request, hand it to the application and     *)
(* answer it when it is released.  A request is a call and its attempt.    *)
(* peer is what each call's caller knows, channel the queue and the        *)
(* requests without an answer, app the requests handed to the application  *)
(* and how often each call's handler has run.                              *)
(***************************************************************************)
EXTENDS Conversation

CONSTANTS Calls, Retries,   \* behavior.retries
          QueueSize         \* 100 in the code

Requests == Calls \X (1 .. Retries + 1)
Ends == {"value", "error", "unimplemented", "refused", "unavailable", "deadline", "notready"}
TypeOK ==
  /\ SharedTypeOK
  /\ peer \in [Calls -> [pc: {"connect", "send", "wait"} \cup Ends, try: 1 .. Retries + 1]]
  /\ channel.queue \in Seq(Requests) /\ Len(channel.queue) <= QueueSize
  /\ channel.parked \in Seq(Requests) /\ channel.open \subseteq Requests
  /\ channel.kind \in {"grpc", "admission"}
  /\ app \in [busy: SUBSET Requests, made: [Calls -> Nat], silent: SUBSET Calls]

Init == \E k \in {"grpc", "admission"} :
  /\ SharedInit /\ peer = [c \in Calls |-> [pc |-> "connect", try |-> 1]]
  /\ channel = [kind |-> k, queue |-> <<>>, parked |-> <<>>, open |-> {}]
  /\ app = [busy |-> {}, made |-> [c \in Calls |-> 0], silent |-> {}]

Grpc == channel.kind = "grpc"
Now(c, s) == [peer EXCEPT ![c].pc = s]

\* whenReady: once per method in the code, here for each call.
Connect == \E c \in Calls :
  /\ peer[c].pc = "connect"
  /\ \/ peer' = Now(c, "send") /\ NoFault
     \/ Grpc /\ peer' = Now(c, "notready") /\ Fault
  /\ UNCHANGED <<channel, app, phase>>

\* An answer reaches the caller if it still waits for this attempt.
Answer(p, r, a) == IF p[r[1]].pc = "wait" /\ p[r[1]].try = r[2] THEN [p EXCEPT ![r[1]].pc = a] ELSE p

HasRoomOneMore == Len(channel.queue) <= QueueSize   \* mutant
HasRoom == Len(channel.queue) < QueueSize

\* makeUnaryRequest, and the request at the source: its queue takes it while it
\* has room, closed or not, although nobody takes it from there once the iteration
\* is over; a closed queue that is full refuses it ("service unavailable").
Request == \E c \in Calls :
  LET r == <<c, peer[c].try>> IN
  /\ peer[c].pc = "send"
  /\ \/ /\ HasRoom /\ peer' = Now(c, "wait")
        /\ channel' = [channel EXCEPT !.queue = Append(@, r), !.open = @ \cup {r}]
     \/ /\ ~HasRoom /\ phase = "run" /\ peer' = Now(c, "wait")
        /\ channel' = [channel EXCEPT !.parked = Append(@, r), !.open = @ \cup {r}]
     \/ ~HasRoom /\ phase # "run" /\ peer' = Now(c, "refused") /\ UNCHANGED channel
  /\ UNCHANGED <<app, phase, faults>>

\* retrier.retry with UNAVAILABLE: the next attempt, or the call fails.  bail
\* fails it for any other code.
RetryAlways(c) == IF peer[c].try <= Retries      \* mutant
                THEN [peer EXCEPT ![c] = [pc |-> "send", try |-> @.try]] ELSE Now(c, "unavailable")
Retry(c) == IF peer[c].try <= Retries
              THEN [peer EXCEPT ![c] = [pc |-> "send", try |-> @.try + 1]] ELSE Now(c, "unavailable")

\* The server cannot be reached, or the connection breaks while the call
\* waits: what the source has of the request stays there.
Unavailable == \E c \in Calls :
  /\ Grpc /\ peer[c].pc \in {"send", "wait"} /\ Fault /\ peer' = Retry(c)
  /\ UNCHANGED <<channel, app, phase>>
Deadline == \E c \in Calls :
  /\ peer[c].pc = "wait" /\ Fault /\ peer' = Now(c, "deadline")
  /\ UNCHANGED <<channel, app, phase>>

\* start(): the next request is yielded, and one that waits takes its room.
First(s) == IF s = <<>> THEN <<>> ELSE <<Head(s)>>
Rest(s) == IF s = <<>> THEN <<>> ELSE Tail(s)
Yield ==
  /\ channel.queue # <<>> /\ phase # "end"
  /\ app' = [app EXCEPT !.busy = @ \cup {Head(channel.queue)}]
  /\ channel' = [channel EXCEPT !.queue = Tail(@) \o First(channel.parked),
                                !.parked = Rest(@)]
  /\ UNCHANGED <<peer, phase, faults>>

Ran(r) == [app EXCEPT !.busy = @ \ {r}, !.made[r[1]] = @ + 1]
Closed(r) == [channel EXCEPT !.open = @ \ {r}]

\* The released listener of GrpcInputSource: a value that is an Error is an
\* error, no value and no error is "not implemented".
GrpcReleased(r) == \E a \in {"value", "error", "unimplemented"} :
  /\ Grpc /\ peer' = Answer(peer, r, a) /\ channel' = Closed(r) /\ app' = Ran(r) /\ NoFault

\* That of the admission controller: an error denies, what is not a proper
\* response allows; without a value it throws before it has answered.
ReviewReleased(r) ==
  /\ ~Grpc /\ channel' = Closed(r)
  /\ \/ \E a \in {"value", "error"} : peer' = Answer(peer, r, a) /\ app' = Ran(r) /\ NoFault
     \/ /\ Fault /\ UNCHANGED peer
        /\ app' = [Ran(r) EXCEPT !.silent = @ \cup {r[1]}]
Released == \E r \in app.busy : (GrpcReleased(r) \/ ReviewReleased(r)) /\ UNCHANGED phase

\* stop(): the queue is closed; the requests that wait for room are refused.
RefusedNone(S) == peer   \* mutant
Refused(S) == [c \in Calls |-> IF \E r \in S : r[1] = c /\ peer[c].pc = "wait" /\ peer[c].try = r[2]
                                 THEN [peer[c] EXCEPT !.pc = "refused"] ELSE peer[c]]
Stop ==
  /\ phase = "run" /\ phase' = "stop" /\ peer' = Refused(ToSet(channel.parked))
  /\ channel' = [channel EXCEPT !.parked = <<>>, !.open = @ \ ToSet(channel.parked)]
  /\ UNCHANGED <<app, faults>>
\* The closed queue is empty: the iteration is over.
End == phase = "stop" /\ channel.queue = <<>> /\ phase' = "end" /\ UNCHANGED <<peer, channel, app, faults>>

Progress == Connect \/ Request \/ Yield \/ End
Next == Progress \/ Unavailable \/ Deadline \/ Released \/ Stop

\* A caller that was told of a result, or of an unknown method, was told so
\* by a run of its handler; one that was refused at its first attempt was
\* not handled at all.
Faithful == \A c \in Calls :
  /\ peer[c].pc \in {"value", "error", "unimplemented"} => app.made[c] > 0
  /\ peer[c].pc = "refused" /\ peer[c].try = 1 => app.made[c] = 0 /\ ~\E r \in app.busy : r[1] = c
  /\ app.made[c] + Cardinality({r \in app.busy : r[1] = c}) <= peer[c].try
\* A request that is in the queue when the iteration is over.
Stranded(c) == phase = "end" /\ <<c, peer[c].try>> \in ToSet(channel.queue)
Promised == TRUE
Kept == \A c \in Calls : peer[c].pc \in Ends \/ c \in app.silent \/ Stranded(c)
=============================================================================

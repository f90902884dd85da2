----------------------------- MODULE GrpcStream -----------------------------
(***************************************************************************)
(* A call of a gRPC method whose response is a stream, from end to end: a  *)
(* handler on the server that sends through GrpcResponseStream, the loop   *)
(* of GrpcStreamHandler that writes what it sends to the wire, and the     *)
(* client generator of client.ts that yields what arrives (packages/grpc). *)
(* grpc-js and the wire are external: chunks arrive in order, then the end *)
(* of the stream or an error, after which the end may be signalled, too.   *)
(* peer is the client, channel the two pipes and the wire between them,    *)
(* app the handler.                                                        *)
(***************************************************************************)
EXTENDS Conversation, AsyncPipe

CONSTANTS Chunks      \* how many chunks a handler sends at most

Chunk == 1 .. Chunks
TypeOK ==
  /\ SharedTypeOK
  /\ peer.pc \in {"busy", "await", "end", "fail"} /\ peer.got \in Seq(Chunk) /\ peer.slow \in BOOLEAN
  /\ channel.out \in Pipes(Chunk) /\ channel.in \in Pipes(Chunk)
  /\ channel.wire \in Seq(Chunk \cup {Done, Failed})
  /\ channel.writing \in Chunk \cup {None} /\ channel.again \subseteq Chunk
  /\ app \in [pc: {"run", "closed", "failed"}, next: 1 .. Chunks + 1]

\* The client has called; addStream has started the loop, which awaits the
\* first chunk.  full: write() may return false; slow: chunks may arrive
\* while the client's consumer is busy with an earlier one.
Init == \E full, slow \in BOOLEAN :
  /\ SharedInit /\ peer = [pc |-> "await", got |-> <<>>, slow |-> slow]
  /\ channel = [out |-> Ask(NewPipe), in |-> Ask(NewPipe), wire |-> <<>>, writing |-> None,
                again |-> {}, ended |-> FALSE, cancelled |-> FALSE, full |-> full]
  /\ app = [pc |-> "run", next |-> 1]

Out(p) == [channel EXCEPT !.out = p]

\* The handler awaits stream.send(chunk); a send that is refused fails it.
HandlerSend ==
  /\ app.pc = "run" /\ app.next <= Chunks /\ channel.out.value = None
  /\ IF Refuses(channel.out)
       THEN app' = [app EXCEPT !.pc = "failed"] /\ UNCHANGED channel
       ELSE app' = [app EXCEPT !.next = @ + 1] /\ channel' = Out(Send(channel.out, app.next))
  /\ UNCHANGED <<peer, phase, faults>>

\* GrpcResponseStream.close(): nothing is done once the call is cancelled.
CloseStream == IF channel.cancelled THEN channel.out ELSE Close(channel.out)
HandlerClose ==
  /\ app.pc = "run" /\ channel.out.value = None
  /\ app' = [app EXCEPT !.pc = "closed"] /\ channel' = Out(CloseStream)
  /\ UNCHANGED <<peer, phase, faults>>

\* The handler throws: nothing closes its stream.
HandlerFails ==
  /\ app.pc = "run" /\ channel.out.value = None /\ Fault /\ app' = [app EXCEPT !.pc = "failed"]
  /\ UNCHANGED <<peer, channel, phase>>

\* processStream: the loop writes a chunk and waits for the callback.
Onto(wire, x) == IF channel.cancelled THEN wire ELSE Append(wire, x)
LoopEnds == [channel EXCEPT !.out = Took(@), !.ended = TRUE, !.writing = None,
                            !.wire = Onto(@, Done)]
LoopWrites(x, accepted) ==
  [channel EXCEPT !.out = Took(@), !.writing = x, !.wire = Onto(@, x),
                  !.again = IF accepted THEN @ ELSE @ \cup {x}]
Write ==
  /\ ~channel.ended /\ channel.out.result \in Chunk
  /\ IF channel.cancelled THEN channel' = LoopEnds
     ELSE \E accepted \in IF channel.full THEN BOOLEAN ELSE {TRUE} :
            channel' = LoopWrites(channel.out.result, accepted)
  /\ UNCHANGED <<peer, app, phase, faults>>
Written ==
  /\ ~channel.ended /\ channel.writing # None
  /\ channel' = [channel EXCEPT !.out = Ask(@), !.writing = None]
  /\ UNCHANGED <<peer, app, phase, faults>>

\* After a write() that returned false the chunk is written once more, even
\* if the callback has let the loop go on to later chunks.
WriteAgain == \E x \in channel.again :
  /\ channel' = CASE channel.ended -> [channel EXCEPT !.again = @ \ {x}]
                  [] channel.cancelled /\ channel.writing = x -> [LoopEnds EXCEPT !.again = @ \ {x}]
                  [] OTHER -> [channel EXCEPT !.wire = Onto(@, x), !.again = @ \ {x}]
  /\ UNCHANGED <<peer, app, phase, faults>>
EndLoop ==
  /\ ~channel.ended /\ channel.out.result = Done /\ channel' = LoopEnds
  /\ UNCHANGED <<peer, app, phase, faults>>

\* The client cancels (dispose), or the connection is lost.
Errors == {<<Failed>>, <<Failed, Done>>}
Cancel ==
  /\ ~channel.cancelled /\ Fault
  /\ \E e \in Errors : channel' = [channel EXCEPT !.cancelled = TRUE, !.wire = e]
  /\ UNCHANGED <<peer, app, phase>>

\* GrpcStreamHandler.dispose closes the streams that are not ended.
Dispose ==
  /\ phase = "run" /\ phase' = "stop"
  /\ channel' = IF channel.ended THEN channel ELSE Out(CloseStream)
  /\ UNCHANGED <<peer, app, faults>>

\* The client: "data", "end" and "error" of the stream.
OnData(p, x) == IF Refuses(p) THEN p ELSE Send(p, x)
OnEnd(p) == Close(p)
OnError(p) == Throw(p)
Arrive ==
  /\ channel.wire # <<>> /\ (peer.slow \/ channel.in.reading \/ channel.in.closed)
  /\ LET x == Head(channel.wire) IN
     channel' = [channel EXCEPT !.wire = Tail(@),
                                !.in = CASE x = Done -> OnEnd(@)
                                         [] x = Failed -> OnError(@)
                                         [] OTHER -> OnData(@, x)]
  /\ UNCHANGED <<peer, app, phase, faults>>

\* yield* pipe.
Yield ==
  /\ peer.pc = "await" /\ channel.in.result # None
  /\ LET x == channel.in.result IN
     peer' = CASE x = Done -> [peer EXCEPT !.pc = "end"]
               [] x = Failed -> [peer EXCEPT !.pc = "fail"]
               [] OTHER -> [peer EXCEPT !.pc = "busy", !.got = Append(@, x)]
  /\ channel' = [channel EXCEPT !.in = Took(@)]
  /\ UNCHANGED <<app, phase, faults>>
AskNext ==
  /\ peer.pc = "busy" /\ peer' = [peer EXCEPT !.pc = "await"]
  /\ channel' = [channel EXCEPT !.in = Ask(@)]
  /\ UNCHANGED <<app, phase, faults>>

Progress == Write \/ Written \/ WriteAgain \/ EndLoop \/ Arrive \/ Yield \/ AskNext
Next == HandlerSend \/ HandlerClose \/ HandlerFails \/ Cancel \/ Dispose \/ Progress

\* What a client was yielded is in order, without gaps when it keeps up.
Increasing(s) == \A i, j \in DOMAIN s : i < j => s[i] < s[j]
Ordered == ~channel.full => Increasing(peer.got)
Whole == ~channel.full /\ ~peer.slow /\ peer.pc = "end" /\ phase = "run"
         => peer.got = [i \in 1 .. app.next - 1 |-> i]
Promised == app.pc = "closed" \/ phase = "stop" \/ channel.cancelled
Kept == peer.pc \in {"end", "fail"}
=============================================================================

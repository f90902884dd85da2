------------------------- MODULE KubernetesSources -------------------------
(***************************************************************************)
(* packages/kubernetes: KubernetesWatchSource, which is told of changes    *)
(* and connects again when a watch ends, and KubernetesPollSource, which   *)
(* lists the objects and tells the application what differs from the list  *)
(* it remembers.  peer is the API server: the version of each object, 0    *)
(* for none, and the watch with the events on their way; channel is the    *)
(* source, and remembers in backlog whether a watch ever ended while       *)
(* events waited for room; app has the view that the events so far add up  *)
(* to.                                                                     *)
(***************************************************************************)
EXTENDS Conversation

CONSTANTS Objects, Versions,
          QueueSize       \* of the watch source, 100 in the code

States == [Objects -> 0 .. Versions]
Event(p, o, v) == [phase |-> p, o |-> o, v |-> v]
Events == [phase: {"ADDED", "MODIFIED", "DELETED"}, o: Objects, v: 0 .. Versions]
Watching == channel.kind = "watch"
TypeOK ==
  /\ SharedTypeOK /\ peer.objs \in States /\ peer.watch \in {"off", "connecting", "on"}
  /\ peer.events \in Seq(Events) /\ channel.queue \in Seq(Events) /\ channel.cache \in States
  /\ Watching => Len(channel.queue) <= QueueSize
  /\ channel.backlog \in BOOLEAN /\ app.view \in States /\ app.pc \in {"ask", "busy", "end"} /\ app.odd \in BOOLEAN

Nothing == [o \in Objects |-> 0]
Init == \E k \in {"watch", "poll"} :
  /\ SharedInit /\ peer = [objs |-> Nothing, watch |-> IF k = "watch" THEN "connecting" ELSE "off",
                           events |-> <<>>]
  /\ channel = [kind |-> k, queue |-> <<>>, chains |-> <<>>, request |-> FALSE, cache |-> Nothing,
              backlog |-> FALSE]
  /\ app = [view |-> Nothing, pc |-> "ask", odd |-> FALSE]

\* Somebody changes an object, a watch that is on tells of it.
Change == \E o \in Objects, v \in 0 .. Versions :
  LET was == peer.objs[o] IN
  /\ v # was /\ Fault
  /\ peer' = [peer EXCEPT !.objs[o] = v,
               !.events = IF peer.watch # "on" THEN @
                          ELSE Append(@, IF v = 0 THEN Event("DELETED", o, was)
                                         ELSE IF was = 0 THEN Event("ADDED", o, v)
                                         ELSE Event("MODIFIED", o, v))]
  /\ UNCHANGED <<channel, app, phase>>

\* watch().then(req => pendingRequest): without a resource version a watch
\* begins with the objects there are.
Listed == SetToSeq({Event("ADDED", o, peer.objs[o]) : o \in {x \in Objects : peer.objs[x] # 0}})
Connected ==
  /\ peer.watch = "connecting" /\ peer' = [peer EXCEPT !.watch = "on", !.events = Listed]
  /\ channel' = [channel EXCEPT !.request = TRUE, !.chains = Append(@, <<>>)]
  /\ UNCHANGED <<app, phase, faults>>

\* The callback of a watch chains the enqueue of an event to those before it.
OnEvent ==
  /\ peer.watch = "on" /\ peer.events # <<>> /\ peer' = [peer EXCEPT !.events = Tail(@)]
  /\ channel' = [channel EXCEPT !.chains[Len(channel.chains)] = Append(@, Head(peer.events))]
  /\ UNCHANGED <<app, phase, faults>>

\* BoundedPriorityQueue.enqueue for the first of a chain: at capacity it waits,
\* or is refused by a queue that is closed; with room it is taken even then.
HasRoom == Len(channel.queue) < QueueSize
Enqueue == \E i \in DOMAIN channel.chains :
  /\ channel.chains[i] # <<>> /\ (HasRoom \/ phase # "run")
  /\ channel' = [channel EXCEPT !.chains[i] = Tail(@),
                                !.queue = IF HasRoom THEN Append(@, Head(channel.chains[i])) ELSE @]
  /\ UNCHANGED <<peer, app, phase, faults>>

\* The watch ends, fails, or is given up because nothing came for a while:
\* closePendingRequest, startWatch.  What still waits to enqueue waits on, next to
\* the events of the new watch; what has room is in the queue by now.
Restart == IF phase = "run" THEN "connecting" ELSE "off"
Waits(i) == channel.chains[i] # <<>>
WatchEnds ==
  /\ peer.watch = "on" /\ Fault
  /\ ~HasRoom \/ ~\E i \in DOMAIN channel.chains : Waits(i)
  /\ peer' = [peer EXCEPT !.watch = Restart, !.events = <<>>]
  /\ channel' = [channel EXCEPT !.request = FALSE,
                                !.backlog = @ \/ \E i \in DOMAIN channel.chains : Waits(i)]
  /\ UNCHANGED <<app, phase>>

\* What the application makes of an event; odd: one that tells of a change to,
\* or the end of, an object it has never heard of.
Apply(e) ==
  [app EXCEPT !.view[e.o] = IF e.phase = "DELETED" THEN 0 ELSE e.v, !.pc = "busy",
              !.odd = @ \/ (e.phase # "ADDED" /\ app.view[e.o] = 0)]
YieldWatched ==
  /\ Watching /\ app.pc # "end" /\ channel.queue # <<>>
  /\ app' = [Apply(Head(channel.queue)) EXCEPT !.pc = "ask"]
  /\ channel' = [channel EXCEPT !.queue = Tail(@)] /\ UNCHANGED <<peer, phase, faults>>

\* One poll: an object in the cache that is as it was is ADDED once more.
Found(o) == IF channel.cache[o] # 0 /\ channel.cache[o] # peer.objs[o] THEN "MODIFIED" ELSE "ADDED"
Differences ==
  SetToSeq({Event(Found(o), o, peer.objs[o]) : o \in {x \in Objects : peer.objs[x] # 0}})
  \o SetToSeq({Event("DELETED", o, channel.cache[o]) :
               o \in {x \in Objects : peer.objs[x] = 0 /\ channel.cache[x] # 0}})
Poll ==
  /\ ~Watching /\ phase = "run" /\ app.pc = "ask" /\ channel.queue = <<>>
  /\ channel' = [channel EXCEPT !.queue = Differences] /\ UNCHANGED <<peer, app, phase, faults>>
YieldPolled ==
  /\ ~Watching /\ app.pc = "ask" /\ channel.queue # <<>>
  /\ app' = Apply(Head(channel.queue)) /\ UNCHANGED <<peer, channel, phase, faults>>

\* The application asks for the next event: what it had is remembered.
Remembered(e) == [channel.cache EXCEPT ![e.o] = IF e.phase = "DELETED" THEN 0 ELSE e.v]
AskNext ==
  /\ ~Watching /\ app.pc = "busy" /\ app' = [app EXCEPT !.pc = "ask"]
  /\ channel' = [channel EXCEPT !.cache = Remembered(Head(channel.queue)),
                                !.queue = IF phase = "run" THEN Tail(@) ELSE <<>>]
  /\ UNCHANGED <<peer, phase, faults>>

\* stop(): a watch that is still connecting is not aborted; the enqueues that
\* wait are refused, those that are chained to them are still to come.
Stop ==
  /\ phase = "run" /\ phase' = "stop"
  /\ peer' = IF channel.request THEN [peer EXCEPT !.watch = "off", !.events = <<>>] ELSE peer
  /\ channel' = [channel EXCEPT !.request = FALSE,
                   !.chains = IF HasRoom THEN @
                              ELSE [i \in DOMAIN @ |-> IF Waits(i) THEN Tail(@[i]) ELSE @[i]]]
  /\ UNCHANGED <<app, faults>>
End ==
  /\ phase = "stop" /\ app.pc = "ask" /\ channel.queue = <<>> /\ app' = [app EXCEPT !.pc = "end"]
  /\ UNCHANGED <<peer, channel, phase, faults>>

Progress == Connected \/ OnEvent \/ Enqueue \/ YieldWatched \/ Poll \/ YieldPolled \/ AskNext \/ End
Next == Progress \/ Change \/ WatchEnds \/ Stop

\* What the application is told adds up: what the poll source remembers is
\* what it has told, and an event is about an object that was told of.
Ordered ==
  /\ ~Watching /\ app.pc = "ask" => channel.cache = app.view
  /\ ~Watching => ~app.odd

\* In the end the application knows all there is.  A watch may miss an end, and
\* one that ended while events waited mixes old events with the new.
Promised == TRUE
Kept == \/ app.pc = "end" \/ channel.backlog
        \/ \A o \in Objects : (Watching /\ peer.objs[o] = 0) \/ app.view[o] = peer.objs[o]
=============================================================================

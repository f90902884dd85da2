--------------------------- MODULE IntervalSource ---------------------------
(***************************************************************************)
(* packages/timer IntervalSource: a timer whose ticks are sent through an  *)
(* AsyncPipe and that is set again when a tick is released.  peer is the   *)
(* timer, channel the pipe, app the ticks the application holds.  A timer  *)
(* that has gone off is not undefined: only stop() makes it so.            *)
(***************************************************************************)
EXTENDS Conversation, AsyncPipe

CONSTANTS Ticks       \* bound: how often the timer goes off

TypeOK ==
  /\ SharedTypeOK /\ peer \in [timer: {"set", "spent", "undefined"}, ticks: 0 .. Ticks]
  /\ channel \in Pipes(1 .. Ticks)
  /\ app.pc \in {"await", "busy", "end"} /\ app.held \subseteq 1 .. Ticks

Init ==
  /\ SharedInit /\ peer = [timer |-> "set", ticks |-> 0]
  /\ channel = Ask(NewPipe) /\ app = [pc |-> "await", held |-> {}]

OnTimer ==
  /\ peer.timer = "set" /\ peer.ticks < Ticks
  /\ peer' = [timer |-> "spent", ticks |-> peer.ticks + 1]
  /\ channel' = IF Refuses(channel) THEN channel ELSE Send(channel, peer'.ticks)
  /\ UNCHANGED <<app, phase, faults>>

Yield ==
  /\ app.pc = "await" /\ channel.result # None /\ channel' = Took(channel)
  /\ app' = IF channel.result = Done THEN [app EXCEPT !.pc = "end"]
            ELSE [pc |-> "busy", held |-> app.held \cup {channel.result}]
  /\ UNCHANGED <<peer, phase, faults>>
AskNext ==
  /\ app.pc = "busy" /\ app' = [app EXCEPT !.pc = "await"] /\ channel' = Ask(channel)
  /\ UNCHANGED <<peer, phase, faults>>

\* The released listener.
Rearmed == IF peer.timer = "undefined" THEN "undefined" ELSE "set"
Released == \E t \in app.held :
  /\ app' = [app EXCEPT !.held = @ \ {t}] /\ peer' = [peer EXCEPT !.timer = Rearmed]
  /\ UNCHANGED <<channel, phase, faults>>

Stop ==
  /\ phase = "run" /\ phase' = "stop" /\ peer' = [peer EXCEPT !.timer = "undefined"]
  /\ channel' = Close(channel) /\ UNCHANGED <<app, faults>>

Progress == OnTimer \/ Yield \/ AskNext
Next == Progress \/ Released \/ Stop

\* A tick follows the release of the one before it, and none comes once the
\* source has been stopped.
Ordered == /\ Cardinality(app.held) + (IF channel.result > 0 \/ channel.value > 0 THEN 1 ELSE 0)
              + (IF peer.timer = "set" THEN 1 ELSE 0) <= 1
           /\ phase = "stop" => peer.timer # "set"
Promised == phase = "stop"
Kept == app.pc = "end"
=============================================================================

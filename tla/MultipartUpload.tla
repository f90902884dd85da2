--------------------------- MODULE MultipartUpload ---------------------------
(***************************************************************************)
(* packages/s3 MultipartUploader: an application uploads an object in      *)
(* parts, one after the other or all of them at a time, sends a part anew  *)
(* when its request has failed, and completes the upload.  A part gets its *)
(* number when it is sent and joins the list of finished parts when its    *)
(* request returns.  The service, which is external, puts the listed parts *)
(* together in their order and refuses a list that is not in the order of  *)
(* its numbers.  stored is the object, caller the uploader and the         *)
(* application, wire the requests under way and the parts the service      *)
(* holds, told how the upload ended.                                       *)
(***************************************************************************)
EXTENDS Storage

CONSTANTS Parts,     \* how many there are
          Retries,   \* how often a part is sent anew
          Together   \* how parts may be sent: all at a time (TRUE), one after the other

Numbers == 1 .. Parts * (Retries + 1)
Sent == Numbers \X (1 .. Parts)   \* a part and its number
TypeOK ==
  /\ stored \in Seq(1 .. Parts) /\ caller.pc \in {"create", "send", "complete", "end"}
  /\ caller.todo \in Seq(1 .. Parts) /\ caller.counter \in 0 .. Parts * (Retries + 1)
  /\ caller.finished \in Seq(Sent) /\ caller.together \in Together
  /\ wire.flight \subseteq Sent /\ wire.held \subseteq Sent
  /\ told \in {"no", "ok", "failed"} /\ faults \in 0 .. MaxFaults

Init == \E t \in Together :
  /\ stored = <<>> /\ told = "no" /\ faults = 0
  /\ wire = [flight |-> {}, held |-> {}]
  /\ caller = [pc |-> "create", todo |-> [i \in 1 .. Parts |-> i], counter |-> 0, finished |-> <<>>,
               tries |-> [i \in 1 .. Parts |-> 0], together |-> t]

Ends(how) == told' = how /\ caller' = [caller EXCEPT !.pc = "end"]

\* multipartUpload: the service begins an upload, or the application gives up.
Create ==
  /\ caller.pc = "create" /\ UNCHANGED <<stored, wire>>
  /\ \/ NoFault /\ caller' = [caller EXCEPT !.pc = "send"] /\ UNCHANGED told
     \/ Fault /\ Ends("failed")

\* send(): the number is taken before the request is made.
Send ==
  /\ caller.pc = "send" /\ caller.todo # <<>> /\ (caller.together \/ wire.flight = {})
  /\ caller' = [caller EXCEPT !.counter = @ + 1, !.todo = Tail(@), !.tries[Head(caller.todo)] = @ + 1]
  /\ wire' = [wire EXCEPT !.flight = @ \cup {<<caller.counter + 1, Head(caller.todo)>>}]
  /\ UNCHANGED <<stored, told, faults>>

\* The request returns with the part's tag, and the part joins the list; or
\* it fails, whether or not the service holds the part, and the application
\* sends it anew, or gives up.
Hold(r) == wire' = [flight |-> wire.flight \ {r}, held |-> wire.held \cup {r}]
Returns == \E r \in wire.flight :
  /\ caller.pc = "send" /\ Hold(r) /\ caller' = [caller EXCEPT !.finished = Append(@, r)]
  /\ NoFault /\ UNCHANGED <<stored, told>>
Fails == \E r \in wire.flight :
  /\ caller.pc = "send" /\ Fault /\ UNCHANGED stored
  /\ Hold(r) \/ wire' = [wire EXCEPT !.flight = @ \ {r}]
  /\ IF caller.tries[r[2]] <= Retries
       THEN caller' = [caller EXCEPT !.todo = <<r[2]>> \o @] /\ UNCHANGED told
       ELSE Ends("failed")

\* complete(), once every send() has returned.
Complete ==
  /\ caller.pc = "send" /\ caller.todo = <<>> /\ wire.flight = {}
  /\ caller' = [caller EXCEPT !.pc = "complete"] /\ UNCHANGED <<stored, wire, told, faults>>

\* The service answers: its request may fail after the effect.
Number(i) == caller.finished[i][1]
InOrder == \A i, j \in DOMAIN caller.finished : i < j => Number(i) < Number(j)
Object == [i \in DOMAIN caller.finished |-> caller.finished[i][2]]
Completed ==
  /\ caller.pc = "complete" /\ UNCHANGED wire
  /\ \/ InOrder /\ ToSet(caller.finished) \subseteq wire.held /\ stored' = Object /\ Ends("ok") /\ NoFault
     \/ ~InOrder /\ UNCHANGED stored /\ Ends("failed") /\ NoFault
     \/ Fault /\ stored' \in {stored} \cup (IF InOrder THEN {Object} ELSE {}) /\ Ends("failed")

Progress == Create \/ Send \/ Returns \/ Fails \/ Complete \/ Completed
Next == Progress

\* The object is never there in part: it has every part once, in the order in
\* which they were sent last, which is the application's if it sends one after
\* the other.  An upload whose parts are sent one after the other fails only
\* if a request did.
OkIsStored ==
  /\ told = "ok" => stored # <<>>
  /\ told = "failed" /\ ~caller.together => faults > 0
WholeObject == stored # <<>> =>
  /\ Len(stored) = Parts /\ ToSet(stored) = 1 .. Parts
  /\ ~caller.together => \A i \in 1 .. Parts : stored[i] = i
UploadEndsWell == told = "failed" => faults > 0
Over == caller.pc = "end"
=============================================================================

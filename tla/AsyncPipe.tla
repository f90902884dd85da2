----------------------------- MODULE AsyncPipe -----------------------------
(***************************************************************************)
(* packages/core utils/AsyncPipe.ts: a hand-over of one value at a time    *)
(* from a caller of send() to a caller of next(), as operators on a record *)
(* that its users keep in their state.  A promise is settled when the      *)
(* field that stands for it is cleared: value holds the value of a send()  *)
(* that waits, thrown a throw() that waits, reading a next() that waits;   *)
(* result is what the last next() resolved to until its caller takes it.   *)
(***************************************************************************)
EXTENDS Integers

None == 0
Done == -1      \* { done: true }
Failed == -2    \* the rejection with what was thrown
Pipes(V) == [closed: BOOLEAN, reading: BOOLEAN, thrown: BOOLEAN, value: V \cup {None},
             result: V \cup {None, Done, Failed}]
NewPipe == [closed |-> FALSE, reading |-> FALSE, thrown |-> FALSE, value |-> None, result |-> None]

Resolve(p, r) == [p EXCEPT !.reading = FALSE, !.result = r]

\* send() rejects at once and leaves the pipe alone.
Refuses(p) == p.closed \/ p.thrown \/ p.value # None
Send(p, v) == IF p.reading THEN Resolve(p, v) ELSE [p EXCEPT !.value = v]

Throw(p) ==
  IF p.closed THEN p
  ELSE IF p.reading THEN [Resolve(p, Failed) EXCEPT !.closed = TRUE]
  ELSE [p EXCEPT !.thrown = TRUE]

\* close(): a value or an error that waits is dropped, its promise resolved.
Close(p) == [p EXCEPT !.closed = TRUE, !.value = None, !.thrown = FALSE, !.reading = FALSE,
                      !.result = IF p.reading THEN Done ELSE @]

AskKeepingValue(p) ==   \* mutant
  IF p.closed THEN Resolve(p, Done)
  ELSE IF p.value # None THEN Resolve(p, p.value) ELSE [p EXCEPT !.reading = TRUE, !.result = None]
Ask(p) ==
  IF p.closed THEN Resolve(p, Done)
  ELSE IF p.value # None THEN [Resolve(p, p.value) EXCEPT !.value = None]
  ELSE IF p.thrown THEN [Resolve(p, Failed) EXCEPT !.thrown = FALSE, !.closed = TRUE]
  ELSE [p EXCEPT !.reading = TRUE, !.result = None]

Took(p) == [p EXCEPT !.result = None]
=============================================================================
